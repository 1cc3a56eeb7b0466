----------------------- MODULE BridgeTerminal_proofs -----------------------
(***************************************************************************)
(* The service topology of a bridging request is a tree, and a crankback   *)
(* keeps what it may not take away, for every topology, request, VLAN      *)
(* capability and path search that finds loop-free paths.  And the path    *)
(* search hands out such paths, for every topology, source, destination    *)
(* and number of paths.                                                    *)
(***************************************************************************)
EXTENDS BridgeTerminal, ComputeKSP, EventList_proofs, FiniteSetTheorems

-----------------------------------------------------------------------------
(* Trees as sets of nodes and of links in both directions.                 *)
Closed(S, L) == \A l \in L : l[1] \in S => l[2] \in S
TreeOf(N, L) ==
  /\ IsFiniteSet(N) /\ N # {} /\ IsFiniteSet(L) /\ L \subseteq AllLinks
  /\ \A l \in L : l[1] \in N /\ l[2] \in N /\ Opposite(l) \in L
  /\ \A S \in SUBSET N : S # {} /\ Closed(S, L) => S = N
  /\ Cardinality(L) = 2 * (Cardinality(N) - 1)

LEMMA Pairs ==
  /\ \A l \in AllLinks : /\ l = <<l[1], l[2]>> /\ l[1] # l[2] /\ l[1] \in Nodes /\ l[2] \in Nodes
                         /\ Opposite(l) \in AllLinks /\ Opposite(l) # l
                         /\ Opposite(l)[1] = l[2] /\ Opposite(l)[2] = l[1]
                         /\ Opposite(Opposite(l)) = l
  /\ \A k, l \in AllLinks : k[1] = l[1] /\ k[2] = l[2] => k = l
BY DEF AllLinks, Opposite

\* Two things more, or two less.
LEMMA TwoMore ==
  ASSUME NEW L, IsFiniteSet(L), NEW k, NEW l, k # l
  PROVE  /\ k \notin L /\ l \notin L =>
              IsFiniteSet(L \cup {k, l}) /\ Cardinality(L \cup {k, l}) = Cardinality(L) + 2
         /\ k \in L /\ l \in L =>
              IsFiniteSet(L \ {k, l}) /\ Cardinality(L \ {k, l}) = Cardinality(L) - 2
<1>1. Cardinality(L) \in Nat
  BY FS_CardinalityType
<1>2. ASSUME k \notin L, l \notin L
      PROVE  IsFiniteSet(L \cup {k, l}) /\ Cardinality(L \cup {k, l}) = Cardinality(L) + 2
  <2>1. IsFiniteSet(L \cup {k}) /\ Cardinality(L \cup {k}) = Cardinality(L) + 1
    BY <1>2, FS_AddElement
  <2>2. /\ IsFiniteSet((L \cup {k}) \cup {l})
        /\ Cardinality((L \cup {k}) \cup {l}) = Cardinality(L \cup {k}) + 1
    BY <1>2, <2>1, FS_AddElement
  <2>3. (L \cup {k}) \cup {l} = L \cup {k, l}
    OBVIOUS
  <2>4. QED
    BY <1>1, <2>1, <2>2, <2>3
<1>3. ASSUME k \in L, l \in L
      PROVE  IsFiniteSet(L \ {k, l}) /\ Cardinality(L \ {k, l}) = Cardinality(L) - 2
  <2>1. IsFiniteSet(L \ {k}) /\ Cardinality(L \ {k}) = Cardinality(L) - 1
    BY <1>3, FS_RemoveElement
  <2>2. /\ IsFiniteSet((L \ {k}) \ {l})
        /\ Cardinality((L \ {k}) \ {l}) = Cardinality(L \ {k}) - 1
    BY <1>3, <2>1, FS_RemoveElement
  <2>3. (L \ {k}) \ {l} = L \ {k, l}
    OBVIOUS
  <2>4. QED
    BY <1>1, <2>1, <2>2, <2>3
<1>4. QED
  BY <1>2, <1>3

LEMMA SingleNode ==
  ASSUME NEW n
  PROVE  TreeOf({n}, {})
<1>1. IsFiniteSet({n}) /\ Cardinality({n}) = 1 /\ IsFiniteSet({}) /\ Cardinality({}) = 0
  BY FS_Singleton, FS_EmptySet
<1>2. \A S \in SUBSET {n} : S # {} => S = {n}
  OBVIOUS
<1>3. QED
  BY <1>1, <1>2 DEF TreeOf

\* A node that gets one link is a leaf of a tree again,
LEMMA AttachLeaf ==
  ASSUME NEW N, NEW L, TreeOf(N, L), NEW k \in AllLinks, k[1] \in N, k[2] \notin N
  PROVE  TreeOf(N \cup {k[2]}, L \cup {k, Opposite(k)})
<1> DEFINE M == N \cup {k[2]}
           J == L \cup {k, Opposite(k)}
<1>1. /\ Opposite(k) \in AllLinks /\ k # Opposite(k) /\ Opposite(k)[1] = k[2]
      /\ Opposite(k)[2] = k[1] /\ Opposite(Opposite(k)) = k
  BY Pairs
<1>2. k \notin L /\ Opposite(k) \notin L
  BY <1>1 DEF TreeOf
<1>3. IsFiniteSet(J) /\ Cardinality(J) = Cardinality(L) + 2
  BY <1>1, <1>2, TwoMore DEF TreeOf
<1>4. IsFiniteSet(M) /\ Cardinality(M) = Cardinality(N) + 1 /\ M # {}
  BY FS_AddElement DEF TreeOf
<1>5. Cardinality(J) = 2 * (Cardinality(M) - 1)
  <2>1. Cardinality(N) \in Nat /\ Cardinality(L) = 2 * (Cardinality(N) - 1)
    BY FS_CardinalityType DEF TreeOf
  <2>2. QED
    BY <1>3, <1>4, <2>1
<1>6. J \subseteq AllLinks /\ \A l \in J : l[1] \in M /\ l[2] \in M /\ Opposite(l) \in J
  BY <1>1 DEF TreeOf
<1>7. ASSUME NEW S \in SUBSET M, S # {}, Closed(S, J)
      PROVE  S = M
  <2>1. S \ {k[2]} \in SUBSET N /\ Closed(S \ {k[2]}, L)
    BY <1>7 DEF Closed, TreeOf
  <2>2. S \ {k[2]} # {}
    BY <1>1, <1>7, Pairs DEF Closed
  <2>3. S \ {k[2]} = N
    BY <2>1, <2>2 DEF TreeOf
  <2>4. k[2] \in S
    BY <1>7, <2>3 DEF Closed
  <2>5. QED
    BY <2>3, <2>4
<1>8. QED
  BY <1>3, <1>4, <1>5, <1>6, <1>7 DEF TreeOf

\* and without its leaf, a tree is one.
LEMMA RemoveLeaf ==
  ASSUME NEW N, NEW L, TreeOf(N, L), NEW k \in L, \A l \in L : l[1] = k[1] => l = k
  PROVE  TreeOf(N \ {k[1]}, L \ {k, Opposite(k)})
<1> DEFINE M == N \ {k[1]}
           J == L \ {k, Opposite(k)}
<1>1. /\ k \in AllLinks /\ k[1] \in N /\ k[2] \in N /\ k[1] # k[2] /\ Opposite(k) \in L
      /\ k # Opposite(k) /\ Opposite(k)[1] = k[2] /\ Opposite(k)[2] = k[1]
      /\ Opposite(Opposite(k)) = k
  BY Pairs DEF TreeOf
<1>2. IsFiniteSet(J) /\ Cardinality(J) = Cardinality(L) - 2
  BY <1>1, TwoMore DEF TreeOf
<1>3. IsFiniteSet(M) /\ Cardinality(M) = Cardinality(N) - 1 /\ M # {}
  BY <1>1, FS_RemoveElement DEF TreeOf
<1>4. Cardinality(J) = 2 * (Cardinality(M) - 1)
  <2>1. Cardinality(N) \in Nat /\ Cardinality(L) = 2 * (Cardinality(N) - 1)
    BY FS_CardinalityType DEF TreeOf
  <2>2. QED
    BY <1>2, <1>3, <2>1
<1>5. ASSUME NEW l \in J
      PROVE  l[1] \in M /\ l[2] \in M /\ Opposite(l) \in J
  <2>1. /\ l \in AllLinks /\ Opposite(l) \in L /\ Opposite(l)[1] = l[2] /\ Opposite(Opposite(l)) = l
        /\ l[1] \in N /\ l[2] \in N
    BY Pairs DEF TreeOf
  <2>2. l[1] # k[1]
    OBVIOUS
  <2>3. l[2] # k[1]
    BY <2>1
  <2>4. Opposite(l) \in J
    BY <1>1, <2>1
  <2>5. QED
    BY <2>1, <2>2, <2>3, <2>4
<1>6. ASSUME NEW S \in SUBSET M, S # {}, Closed(S, J)
      PROVE  S = M
  <2>1. CASE k[2] \in S
    <3>1. S \cup {k[1]} \in SUBSET N
      BY <1>1
    <3>2. Closed(S \cup {k[1]}, L)
      BY <1>1, <1>6, <2>1 DEF Closed
    <3>3. S \cup {k[1]} = N
      BY <3>1, <3>2 DEF TreeOf
    <3>4. QED
      BY <3>3
  <2>2. CASE k[2] \notin S
    <3>1. Closed(S, L)
      BY <1>1, <1>6, <2>2 DEF Closed
    <3>2. S = N
      BY <1>6, <3>1 DEF TreeOf
    <3>3. QED
      BY <1>1, <3>2
  <2>3. QED
    BY <2>1, <2>2
<1>7. QED
  BY <1>2, <1>3, <1>4, <1>5, <1>6 DEF TreeOf

\* A list that has nothing twice is as long as the set of its elements.
LEMMA OnceLength ==
  ASSUME NEW X, NEW q \in Seq(X), Once(q)
  PROVE  IsFiniteSet(ToSet(q)) /\ Cardinality(ToSet(q)) = Len(q)
<1> DEFINE n == Len(q)
<1>1. n \in Nat /\ DOMAIN q = 1 .. n
  OBVIOUS
<1>2. q \in [1 .. n -> ToSet(q)] /\ \A y \in ToSet(q) : \E i \in 1 .. n : q[i] = y
  BY <1>1 DEF ToSet
<1>3. \A i, j \in 1 .. n : q[i] = q[j] => i = j
  BY <1>1 DEF Once
<1>4. q \in Bijection(1 .. n, ToSet(q))
  BY <1>2, <1>3 DEF Bijection, Injection, Surjection, IsInjective
<1>5. IsFiniteSet(1 .. n) /\ Cardinality(1 .. n) = n
  BY <1>1, FS_Interval
<1>6. QED
  BY <1>4, <1>5, FS_Bijection DEF ExistsBijection

-----------------------------------------------------------------------------
(* Loading a path.                                                         *)
LEMMA AddNewElements ==
  ASSUME NEW X, NEW q \in Seq(X), NEW x \in X
  PROVE  /\ AddNew(q, x) \in Seq(X) /\ ToSet(AddNew(q, x)) = ToSet(q) \cup {x}
         /\ Once(q) => Once(AddNew(q, x))
<1>1. Contains(q, x) <=> x \in ToSet(q)
  BY DEF Contains, ToSet
<1>2. CASE Contains(q, x)
  BY <1>1, <1>2 DEF AddNew
<1>3. CASE ~Contains(q, x)
  BY <1>1, <1>3, AppendElements DEF AddNew
<1>4. QED
  BY <1>2, <1>3

LinkLoading(f, ls, p) ==
  \A i \in 0..Len(p) :
    f[i] = IF i = 0 THEN ls ELSE AddNew(AddNew(f[i - 1], p[i]), Opposite(p[i]))
NodeLoading(f, ns, p) ==
  \A i \in 0..Len(p) :
    f[i] = IF i = 0 THEN ns ELSE AddNew(AddNew(f[i - 1], p[i][1]), p[i][2])

LEMMA LinksAreLoaded ==
  ASSUME NEW ls \in Seq(AllLinks), NEW p \in Seq(AllLinks)
  PROVE  LinkLoading(LoadedLinks(ls, p), ls, p)
<1> DEFINE m == Len(p)
           D == Seq(AllLinks)
           step == [n \in 1 .. m |-> [s \in D |-> AddNew(AddNew(s, p[n]), Opposite(p[n]))]]
           Body(f) == [i \in 0 .. m |-> IF i = 0 THEN ls
                                        ELSE AddNew(AddNew(f[i - 1], p[i]), Opposite(p[i]))]
<1>1. m \in Nat /\ \A n \in 1 .. m : p[n] \in AllLinks /\ Opposite(p[n]) \in AllLinks
  BY Pairs
<1>2. step \in [1 .. m -> [D -> D]]
  BY <1>1, AddNewElements
<1>3. \A n \in 1 .. m, s \in D : step[n][s] = AddNew(AddNew(s, p[n]), Opposite(p[n]))
  OBVIOUS
<1> HIDE DEF step, D
<1>4. PICK f \in [0 .. m -> D] : Recurs(f, ls, step, m)
  BY <1>1, <1>2, Recursion DEF D
<1>5. f = Body(f)
  <2>1. \A n \in 0 .. m : n # 0 => n \in 1 .. m /\ n - 1 \in 0 .. m
    BY <1>1
  <2>2. \A n \in 0 .. m : f[n] = IF n = 0 THEN ls ELSE step[n][f[n - 1]]
    BY <1>4, Zenon DEF Recurs
  <2>3. \A n \in 0 .. m : f[n] = Body(f)[n]
    BY <1>3, <2>1, <2>2
  <2>4. QED
    BY <2>3
<1>6. LoadedLinks(ls, p) = CHOOSE g : g = Body(g)
  BY DEF LoadedLinks
<1> HIDE DEF Body
<1> DEFINE s == LoadedLinks(ls, p)
<1>7. s = Body(s)
  BY <1>5, <1>6
<1> HIDE DEF s
<1>8. \A i \in 0 .. m : s[i] = IF i = 0 THEN ls ELSE AddNew(AddNew(s[i - 1], p[i]), Opposite(p[i]))
  BY <1>7, Zenon DEF Body
<1>9. QED
  BY <1>8, Zenon DEF LinkLoading, s

LEMMA NodesAreLoaded ==
  ASSUME NEW ns \in Seq(Nodes), NEW p \in Seq(AllLinks)
  PROVE  NodeLoading(LoadedNodes(ns, p), ns, p)
<1> DEFINE m == Len(p)
           D == Seq(Nodes)
           step == [n \in 1 .. m |-> [s \in D |-> AddNew(AddNew(s, p[n][1]), p[n][2])]]
           Body(f) == [i \in 0 .. m |-> IF i = 0 THEN ns
                                        ELSE AddNew(AddNew(f[i - 1], p[i][1]), p[i][2])]
<1>1. m \in Nat /\ \A n \in 1 .. m : p[n][1] \in Nodes /\ p[n][2] \in Nodes
  BY Pairs
<1>2. step \in [1 .. m -> [D -> D]]
  BY <1>1, AddNewElements
<1>3. \A n \in 1 .. m, s \in D : step[n][s] = AddNew(AddNew(s, p[n][1]), p[n][2])
  OBVIOUS
<1> HIDE DEF step, D
<1>4. PICK f \in [0 .. m -> D] : Recurs(f, ns, step, m)
  BY <1>1, <1>2, Recursion DEF D
<1>5. f = Body(f)
  <2>1. \A n \in 0 .. m : n # 0 => n \in 1 .. m /\ n - 1 \in 0 .. m
    BY <1>1
  <2>2. \A n \in 0 .. m : f[n] = IF n = 0 THEN ns ELSE step[n][f[n - 1]]
    BY <1>4, Zenon DEF Recurs
  <2>3. \A n \in 0 .. m : f[n] = Body(f)[n]
    BY <1>3, <2>1, <2>2
  <2>4. QED
    BY <2>3
<1>6. LoadedNodes(ns, p) = CHOOSE g : g = Body(g)
  BY DEF LoadedNodes
<1> HIDE DEF Body
<1> DEFINE s == LoadedNodes(ns, p)
<1>7. s = Body(s)
  BY <1>5, <1>6
<1> HIDE DEF s
<1>8. \A i \in 0 .. m : s[i] = IF i = 0 THEN ns ELSE AddNew(AddNew(s[i - 1], p[i][1]), p[i][2])
  BY <1>7, Zenon DEF Body
<1>9. QED
  BY <1>8, Zenon DEF NodeLoading, s

\* What loading a path adds to the two lists, link by link.
Ends(p, i) == {p[j][2] : j \in 1..i}
Ways(p, i) == {p[j] : j \in 1..i} \cup {Opposite(p[j]) : j \in 1..i}

LEMMA LoadedElements ==
  ASSUME NEW ls \in Seq(AllLinks), NEW ns \in Seq(Nodes), NEW p \in Seq(AllLinks), p # <<>>,
         \A i \in 1..Len(p) - 1 : p[i][2] = p[i + 1][1]
  PROVE  LET L == LoadedLinks(ls, p)[Len(p)]
             N == LoadedNodes(ns, p)[Len(p)]
         IN /\ L \in Seq(AllLinks) /\ ToSet(L) = ToSet(ls) \cup Ways(p, Len(p))
            /\ N \in Seq(Nodes) /\ ToSet(N) = ToSet(ns) \cup {p[1][1]} \cup Ends(p, Len(p))
            /\ N # <<>>
            /\ Once(ls) => Once(L)
            /\ Once(ns) => Once(N)
<1> DEFINE f == LoadedLinks(ls, p)
           g == LoadedNodes(ns, p)
           m == Len(p)
           LP(i) == /\ f[i] \in Seq(AllLinks) /\ ToSet(f[i]) = ToSet(ls) \cup Ways(p, i)
                    /\ Once(ls) => Once(f[i])
           NP(i) == /\ g[i] \in Seq(Nodes) /\ (Once(ns) => Once(g[i]))
                    /\ ToSet(g[i]) = ToSet(ns) \cup (IF i = 0 THEN {} ELSE {p[1][1]}) \cup Ends(p, i)
<1>1. /\ m \in Nat /\ m # 0
      /\ \A i \in 1..m : /\ p[i] \in AllLinks /\ Opposite(p[i]) \in AllLinks
                         /\ p[i][1] \in Nodes /\ p[i][2] \in Nodes
  BY Pairs
<1>2. \A i \in 0..m : f[i] = IF i = 0 THEN ls ELSE AddNew(AddNew(f[i - 1], p[i]), Opposite(p[i]))
  BY LinksAreLoaded, Zenon DEF LinkLoading
<1>3. \A i \in 0..m : g[i] = IF i = 0 THEN ns ELSE AddNew(AddNew(g[i - 1], p[i][1]), p[i][2])
  BY NodesAreLoaded, Zenon DEF NodeLoading
<1> HIDE DEF f, g
<1>4. Ways(p, 0) = {} /\ Ends(p, 0) = {}
  BY DEF Ways, Ends
<1>5. ASSUME NEW i \in 1..m
      PROVE  /\ i - 1 \in 0..m /\ i \in 0..m /\ i # 0
             /\ Ways(p, i) = Ways(p, i - 1) \cup {p[i], Opposite(p[i])}
             /\ Ends(p, i) = Ends(p, i - 1) \cup {p[i][2]}
             /\ i # 1 => p[i][1] \in Ends(p, i - 1)
  <2>1. i - 1 \in 0..m /\ i \in 0..m /\ i # 0 /\ 1..i = (1..i - 1) \cup {i}
    BY <1>1
  <2>2. i # 1 => i - 1 \in 1..m - 1 /\ i - 1 \in 1..i - 1 /\ i - 1 + 1 = i
    BY <1>1
  <2>3. i # 1 => p[i - 1][2] = p[i][1]
    BY <2>2
  <2>4. QED
    BY <2>1, <2>2, <2>3 DEF Ways, Ends
<1>6. \A i \in 0..m : LP(i)
  <2>1. LP(0)
    <3>1. f[0] = ls
      BY <1>1, <1>2
    <3>2. QED
      BY <1>4, <3>1
  <2>2. ASSUME NEW i \in 1..m, LP(i - 1)
        PROVE  LP(i)
    <3> DEFINE h == AddNew(f[i - 1], p[i])
    <3>1. f[i] = AddNew(h, Opposite(p[i])) /\ f[i - 1] \in Seq(AllLinks)
      BY <1>2, <1>5, <2>2
    <3>2. h \in Seq(AllLinks) /\ ToSet(h) = ToSet(f[i - 1]) \cup {p[i]} /\ (Once(f[i - 1]) => Once(h))
      BY <1>1, <3>1, AddNewElements
    <3> HIDE DEF h
    <3>3. /\ f[i] \in Seq(AllLinks) /\ ToSet(f[i]) = ToSet(h) \cup {Opposite(p[i])}
          /\ Once(h) => Once(f[i])
      <4>1. h \in Seq(AllLinks) /\ Opposite(p[i]) \in AllLinks
        BY <1>1, <3>2
      <4>2. /\ AddNew(h, Opposite(p[i])) \in Seq(AllLinks) /\ ToSet(AddNew(h, Opposite(p[i]))) = ToSet(h) \cup {Opposite(p[i])}
            /\ Once(h) => Once(AddNew(h, Opposite(p[i])))
        BY <4>1, AddNewElements
      <4>3. QED
        BY <3>1, <4>2
    <3>4. QED
      BY <1>5, <2>2, <3>2, <3>3
  <2> DEFINE G == {i \in 0..m : LP(i)}
  <2> HIDE DEF LP
  <2>3. 0 \in G /\ \A i \in 1..m : i - 1 \in G => i \in G
    BY <1>1, <1>5, <2>1, <2>2
  <2> HIDE DEF G
  <2>4. \A i \in 0..m : i \in G
    BY <1>1, <2>3, Climb
  <2>5. QED
    BY <2>4 DEF G
<1>7. \A i \in 0..m : NP(i)
  <2>1. NP(0)
    <3>1. g[0] = ns
      BY <1>1, <1>3
    <3>2. QED
      BY <1>4, <3>1
  <2>2. ASSUME NEW i \in 1..m, NP(i - 1)
        PROVE  NP(i)
    <3> DEFINE h == AddNew(g[i - 1], p[i][1])
    <3>1. g[i] = AddNew(h, p[i][2]) /\ g[i - 1] \in Seq(Nodes)
      BY <1>3, <1>5, <2>2
    <3>2. h \in Seq(Nodes) /\ ToSet(h) = ToSet(g[i - 1]) \cup {p[i][1]} /\ (Once(g[i - 1]) => Once(h))
      BY <1>1, <3>1, AddNewElements
    <3> HIDE DEF h
    <3>3. /\ g[i] \in Seq(Nodes) /\ ToSet(g[i]) = ToSet(h) \cup {p[i][2]}
          /\ Once(h) => Once(g[i])
      <4>1. h \in Seq(Nodes) /\ p[i][2] \in Nodes
        BY <1>1, <3>2
      <4>2. /\ AddNew(h, p[i][2]) \in Seq(Nodes) /\ ToSet(AddNew(h, p[i][2])) = ToSet(h) \cup {p[i][2]}
            /\ Once(h) => Once(AddNew(h, p[i][2]))
        BY <4>1, AddNewElements
      <4>3. QED
        BY <3>1, <4>2
    <3>4. i = 1 => i - 1 = 0
      OBVIOUS
    <3>5. ToSet(g[i]) = ToSet(ns) \cup {p[1][1]} \cup Ends(p, i)
      <4>1. CASE i = 1
        BY <1>4, <1>5, <2>2, <3>2, <3>3, <3>4, <4>1
      <4>2. CASE i # 1
        BY <1>5, <2>2, <3>2, <3>3, <4>2
      <4>3. QED
        BY <4>1, <4>2
    <3>6. QED
      BY <1>5, <2>2, <3>2, <3>3, <3>5
  <2> DEFINE G == {i \in 0..m : NP(i)}
  <2> HIDE DEF NP
  <2>3. 0 \in G /\ \A i \in 1..m : i - 1 \in G => i \in G
    BY <1>1, <1>5, <2>1, <2>2
  <2> HIDE DEF G
  <2>4. \A i \in 0..m : i \in G
    BY <1>1, <2>3, Climb
  <2>5. QED
    BY <2>4 DEF G
<1>8. LP(m) /\ NP(m)
  <2>1. m \in 0..m
    BY <1>1
  <2> HIDE DEF LP, NP
  <2>2. QED
    BY <1>6, <1>7, <2>1
<1>9. g[m] # <<>>
  <2>1. p[1][1] \in ToSet(g[m])
    BY <1>1, <1>8
  <2>2. QED
    BY <2>1 DEF ToSet
<1>10. QED
  BY <1>1, <1>8, <1>9 DEF f, g

-----------------------------------------------------------------------------
(* A path that meets a tree where it begins, and nowhere else.             *)
Joined(p) == p # <<>> /\ \A i \in 1..Len(p) - 1 : p[i][2] = p[i + 1][1]

LEMMA PathSteps ==
  ASSUME NEW p \in Seq(AllLinks), Joined(p), NEW i \in 1..Len(p)
  PROVE  /\ i - 1 \in 0..Len(p) /\ i \in 0..Len(p) /\ i # 0
         /\ Ways(p, i) = Ways(p, i - 1) \cup {p[i], Opposite(p[i])}
         /\ Ends(p, i) = Ends(p, i - 1) \cup {p[i][2]}
         /\ Ways(p, 0) = {} /\ Ends(p, 0) = {}
         /\ i # 1 => /\ i - 1 \in 1..Len(p) /\ p[i][1] = p[i - 1][2]
                     /\ p[i][1] \in Ends(p, i - 1)
<1> DEFINE m == Len(p)
<1>1. m \in Nat
  OBVIOUS
<1>2. i - 1 \in 0..m /\ i \in 0..m /\ i # 0 /\ 1..i = (1..i - 1) \cup {i}
  BY <1>1
<1>3. i # 1 => i - 1 \in 1..m - 1 /\ i - 1 \in 1..m /\ i - 1 \in 1..i - 1 /\ i - 1 + 1 = i
  BY <1>1
<1>4. i # 1 => p[i - 1][2] = p[i][1]
  BY <1>3 DEF Joined
<1>5. QED
  BY <1>2, <1>3, <1>4 DEF Ways, Ends

LEMMA GrowTree ==
  ASSUME NEW N, NEW L, TreeOf(N, L), NEW p \in Seq(AllLinks), Joined(p), IsLoopFree(p),
         p[1][1] \in N, \A i \in DOMAIN p : p[i][2] \notin N
  PROVE  TreeOf(N \cup Ends(p, Len(p)), L \cup Ways(p, Len(p)))
<1> DEFINE m == Len(p)
           P(i) == TreeOf(N \cup Ends(p, i), L \cup Ways(p, i))
           G == {i \in 0..m : P(i)}
<1>1. m \in Nat /\ m # 0 /\ DOMAIN p = 1..m
  BY DEF Joined
<1>2. P(0)
  <2>1. N \cup Ends(p, 0) = N /\ L \cup Ways(p, 0) = L
    BY <1>1 DEF Ends, Ways
  <2>2. QED
    BY <2>1
<1>3. ASSUME NEW i \in 1..m, P(i - 1)
      PROVE  P(i)
  <2> DEFINE M == N \cup Ends(p, i - 1)
             J == L \cup Ways(p, i - 1)
  <2>1. p[i] \in AllLinks /\ TreeOf(M, J)
    BY <1>3
  <2>2. p[i][1] \in M
    BY <1>1, PathSteps
  <2>3. p[i][2] \notin M
    <3>1. \A j \in 1..i - 1 : j \in DOMAIN p /\ j # i
      BY <1>1
    <3>2. p[i][2] \notin Ends(p, i - 1)
      BY <1>1, <3>1 DEF IsLoopFree, Ends
    <3>3. QED
      BY <1>1, <3>2
  <2> HIDE DEF M, J
  <2>4. TreeOf(M \cup {p[i][2]}, J \cup {p[i], Opposite(p[i])})
    BY <2>1, <2>2, <2>3, AttachLeaf
  <2>5. /\ M \cup {p[i][2]} = N \cup Ends(p, i)
        /\ J \cup {p[i], Opposite(p[i])} = L \cup Ways(p, i)
    BY PathSteps DEF M, J
  <2>6. QED
    BY <2>4, <2>5
<1> HIDE DEF P
<1>4. 0 \in G /\ \A i \in 1..m : i - 1 \in G => i \in G
  <2>1. \A i \in 1..m : i \in 0..m /\ 0 \in 0..m
    BY <1>1
  <2>2. QED
    BY <1>1, <1>2, <1>3, <2>1
<1> HIDE DEF G
<1>5. \A i \in 0..m : i \in G
  BY <1>1, <1>4, Climb
<1>6. QED
  BY <1>1, <1>5 DEF G, P

(* The path that seeds the topology: a crankback never gets past its nodes *)
(* from outside, and never starts at its ends.                             *)
Core(a, z, N, L) ==
  /\ a \in N /\ z \in N
  /\ \E Q \in SUBSET L :
       /\ \A l \in Q : Opposite(l) \in Q
       /\ \A l \in L : l[1] \in {a, z} => l \in Q
       /\ \A l \in Q : l[1] \notin {a, z} => \E k \in Q : k # l /\ k[1] = l[1]

LEMMA SeedCore ==
  ASSUME NEW p \in Seq(AllLinks), Joined(p), IsLoopFree(p)
  PROVE  Core(p[1][1], p[Len(p)][2], {p[1][1]} \cup Ends(p, Len(p)), Ways(p, Len(p)))
<1> DEFINE m == Len(p)
           a == p[1][1]
           z == p[m][2]
           Q == Ways(p, m)
<1>1. m \in Nat /\ m # 0 /\ DOMAIN p = 1..m /\ m \in 1..m
  BY DEF Joined
<1>2. \A i \in 1..m : p[i] \in AllLinks /\ p[i] \in Q /\ Opposite(p[i]) \in Q
  BY DEF Ways
<1>3. z \in Ends(p, m)
  BY <1>1 DEF Ends
<1>4. \A l \in Q : Opposite(l) \in Q
  BY <1>2, Pairs DEF Ways
<1>5. \A i \in 1..m : p[i][2] # a /\ \A j \in 1..m : p[i][2] = p[j][2] => i = j
  BY <1>1 DEF IsLoopFree
<1>6. \A i \in 1..m : i # 1 => i - 1 \in 1..m /\ i - 1 # i /\ p[i][1] = p[i - 1][2]
  BY <1>1, PathSteps
<1>7. \A i \in 1..m : i # 1 => p[i - 1][1] # p[i][2]
  <2> SUFFICES ASSUME NEW i \in 1..m, i # 1
               PROVE  p[i - 1][1] # p[i][2]
    OBVIOUS
  <2>1. CASE i - 1 = 1
    BY <1>5, <2>1
  <2>2. CASE i - 1 # 1
    <3>1. i - 1 \in 1..m /\ i - 1 - 1 \in 1..m /\ i - 1 - 1 # i /\ p[i - 1][1] = p[i - 1 - 1][2]
      BY <1>1, <1>6, <2>2
    <3>2. QED
      BY <1>5, <3>1
  <2>3. QED
    BY <2>1, <2>2
<1>8. ASSUME NEW l \in Q, l[1] \notin {a, z}
      PROVE  \E k \in Q : k # l /\ k[1] = l[1]
  <2>1. CASE \E i \in 1..m : l = p[i]
    <3>1. PICK i \in 1..m : l = p[i]
      BY <2>1
    <3>2. i # 1 /\ i - 1 \in 1..m /\ p[i][1] = p[i - 1][2] /\ p[i - 1][1] # p[i][2]
      BY <1>6, <1>7, <1>8, <3>1
    <3>3. Opposite(p[i - 1]) \in Q /\ Opposite(p[i - 1])[1] = l[1] /\ Opposite(p[i - 1])[2] # l[2]
      BY <1>2, <3>1, <3>2, Pairs
    <3>4. QED
      BY <3>3
  <2>2. CASE \E i \in 1..m : l = Opposite(p[i])
    <3>1. PICK i \in 1..m : l = Opposite(p[i])
      BY <2>2
    <3>2. l[1] = p[i][2] /\ l[2] = p[i][1]
      BY <1>2, <3>1, Pairs
    <3>3. i # m
      BY <1>8, <3>2
    <3>4. i + 1 \in 1..m /\ i + 1 # 1 /\ i + 1 - 1 = i
      <4>1. m \in Nat /\ i \in 1..m /\ i # m
        BY <1>1, <3>3
      <4> HIDE DEF m
      <4>2. QED
        BY <4>1
    <3>5. p[i + 1][1] = p[i][2] /\ p[i][1] # p[i + 1][2]
      BY <1>6, <1>7, <3>4
    <3>6. p[i + 1] \in Q /\ p[i + 1] # l /\ p[i + 1][1] = l[1]
      BY <1>2, <3>2, <3>4, <3>5
    <3>7. QED
      BY <3>6
  <2>3. QED
    BY <2>1, <2>2 DEF Ways
<1> HIDE DEF a, z, Q, m
<1>9. Core(a, z, {a} \cup Ends(p, m), Q)
  BY <1>3, <1>4, <1>8 DEF Core
<1>10. QED
  BY <1>9 DEF a, z, Q, m

LEMMA CoreGrows ==
  ASSUME NEW a, NEW z, NEW N, NEW L, Core(a, z, N, L), NEW M, NEW J, N \subseteq M, L \subseteq J,
         \A l \in J \ L : l[1] \notin {a, z}
  PROVE  Core(a, z, M, J)
<1>1. PICK Q \in SUBSET L :
        /\ \A l \in Q : Opposite(l) \in Q
        /\ \A l \in L : l[1] \in {a, z} => l \in Q
        /\ \A l \in Q : l[1] \notin {a, z} => \E k \in Q : k # l /\ k[1] = l[1]
  BY DEF Core
<1>2. Q \in SUBSET J /\ a \in M /\ z \in M /\ \A l \in J : l[1] \in {a, z} => l \in Q
  BY <1>1 DEF Core
<1>3. QED
  BY <1>1, <1>2 DEF Core

\* A step of a crankback: what it takes away, it and the next node, and whose link it leaves.
LEMMA ChainStep ==
  ASSUME NEW N, NEW L, TreeOf(N, L), NEW a, NEW z, a # z, Core(a, z, N, L),
         NEW k \in L, \A l \in L : l[1] = k[1] => l = k, k[1] \notin {a, z}
  PROVE  /\ TreeOf(N \ {k[1]}, L \ {k, Opposite(k)})
         /\ Core(a, z, N \ {k[1]}, L \ {k, Opposite(k)})
         /\ k[2] \notin {a, z}
         /\ \A l \in L : /\ l[1] # k[1]
                         /\ \A j \in L : j[1] = l[1] => j = l
                         => l[1] # k[2] /\ l \in L \ {k, Opposite(k)}
<1>1. /\ k \in AllLinks /\ k[1] \in N /\ k[2] \in N /\ k[1] # k[2] /\ Opposite(k) \in L
      /\ k # Opposite(k) /\ Opposite(k)[1] = k[2] /\ Opposite(k)[2] = k[1]
      /\ Opposite(Opposite(k)) = k
  BY Pairs DEF TreeOf
<1>2. TreeOf(N \ {k[1]}, L \ {k, Opposite(k)})
  BY RemoveLeaf
<1>3. PICK Q \in SUBSET L :
        /\ \A l \in Q : Opposite(l) \in Q
        /\ \A l \in L : l[1] \in {a, z} => l \in Q
        /\ \A l \in Q : l[1] \notin {a, z} => \E j \in Q : j # l /\ j[1] = l[1]
  BY DEF Core
<1>4. k \notin Q /\ Opposite(k) \notin Q
  BY <1>1, <1>3
<1>5. k[2] \notin {a, z}
  BY <1>1, <1>3, <1>4
<1>6. Core(a, z, N \ {k[1]}, L \ {k, Opposite(k)})
  <2> DEFINE J == L \ {k, Opposite(k)}
  <2>1. Q \in SUBSET J /\ a \in N \ {k[1]} /\ z \in N \ {k[1]}
    BY <1>4 DEF Core
  <2> HIDE DEF J
  <2>2. \A l \in J : l[1] \in {a, z} => l \in Q
    BY <1>3 DEF J
  <2>3. Core(a, z, N \ {k[1]}, J)
    BY <1>3, <2>1, <2>2 DEF Core
  <2>4. QED
    BY <2>3 DEF J
<1>7. ASSUME NEW l \in L, l[1] # k[1], \A j \in L : j[1] = l[1] => j = l
      PROVE  l[1] # k[2] /\ l \in L \ {k, Opposite(k)}
  <2>1. ASSUME l[1] = k[2]
        PROVE  FALSE
    <3>1. l = Opposite(k) /\ l[2] = k[1]
      BY <1>1, <1>7, <2>1
    <3>2. Closed({k[1], k[2]}, L)
      BY <1>1, <1>7, <2>1, <3>1 DEF Closed
    <3>3. {k[1], k[2]} = N
      BY <1>1, <3>2 DEF TreeOf
    <3>4. QED
      BY <1>5, <3>3 DEF Core
  <2>2. QED
    BY <1>1, <1>7, <2>1
<1>8. QED
  BY <1>2, <1>5, <1>6, <1>7

-----------------------------------------------------------------------------
(* A crankback from one terminal.                                          *)
LEMMA LocalElements ==
  ASSUME NEW ls \in Seq(AllLinks), NEW n
  PROVE  /\ LocalLinks(ls, n) \in Seq(AllLinks)
         /\ ToSet(LocalLinks(ls, n)) = {l \in ToSet(ls) : l[1] = n}
         /\ Once(ls) => Once(LocalLinks(ls, n))
         /\ Len(LocalLinks(ls, n)) = 1 =>
              /\ LocalLinks(ls, n)[1] \in ToSet(ls) /\ LocalLinks(ls, n)[1][1] = n
              /\ \A l \in ToSet(ls) : l[1] = n => l = LocalLinks(ls, n)[1]
<1> DEFINE q == LocalLinks(ls, n)
           S == {l \in AllLinks : l[1] = n}
<1>1. /\ q \in Seq(AllLinks) /\ ToSet(q) = {l \in ToSet(ls) : l \in S}
      /\ Once(ls) => Once(q)
  BY SieveElements DEF LocalLinks
<1>2. ToSet(ls) \subseteq AllLinks
  BY DEF ToSet
<1>3. {l \in ToSet(ls) : l \in S} = {l \in ToSet(ls) : l[1] = n}
  BY <1>2
<1> HIDE DEF q, S
<1>4. ASSUME Len(q) = 1
      PROVE  /\ q[1] \in ToSet(ls) /\ q[1][1] = n
             /\ \A l \in ToSet(ls) : l[1] = n => l = q[1]
  <2>1. DOMAIN q = {1}
    BY <1>1, <1>4
  <2>2. ToSet(q) = {q[1]}
    BY <2>1 DEF ToSet
  <2>3. QED
    BY <1>1, <1>3, <2>2
<1>5. QED
  BY <1>1, <1>3, <1>4 DEF q

States == [at : Nodes, nodes : Seq(Nodes), links : Seq(AllLinks)]

LEMMA WithoutElements ==
  ASSUME NEW s \in States, Len(LocalLinks(s.links, s.at)) = 1
  PROVE  LET k == LocalLinks(s.links, s.at)[1]
             t == Without(s, k)
         IN /\ t \in States /\ k \in ToSet(s.links) /\ k[1] = s.at /\ t.at = k[2]
            /\ \A l \in ToSet(s.links) : l[1] = k[1] => l = k
            /\ ToSet(t.nodes) = ToSet(s.nodes) \ {k[1]}
            /\ ToSet(t.links) = ToSet(s.links) \ {k, Opposite(k)}
            /\ Once(s.nodes) => Once(t.nodes)
            /\ Once(s.links) => Once(t.links)
<1> DEFINE k == LocalLinks(s.links, s.at)[1]
           t == Without(s, k)
<1>1. s.at \in Nodes /\ s.nodes \in Seq(Nodes) /\ s.links \in Seq(AllLinks)
  BY DEF States
<1>2. k \in ToSet(s.links) /\ k[1] = s.at /\ \A l \in ToSet(s.links) : l[1] = s.at => l = k
  BY <1>1, LocalElements
<1>3. ToSet(s.links) \subseteq AllLinks /\ ToSet(s.nodes) \subseteq Nodes
  BY <1>1 DEF ToSet
<1> HIDE DEF k
<1>4. k[2] \in Nodes
  BY <1>2, <1>3, Pairs
<1>5. /\ t.at = k[2] /\ t.nodes = Sieve(s.nodes, Nodes \ {s.at})
      /\ t.links = Sieve(s.links, AllLinks \ {k, Opposite(k)})
      /\ t = [at |-> t.at, nodes |-> t.nodes, links |-> t.links]
  BY DEF Without
<1> HIDE DEF t
<1>6. /\ t.nodes \in Seq(Nodes) /\ ToSet(t.nodes) = {x \in ToSet(s.nodes) : x \in Nodes \ {s.at}}
      /\ Once(s.nodes) => Once(t.nodes)
  BY <1>1, <1>5, SieveElements
<1>7. /\ t.links \in Seq(AllLinks)
      /\ ToSet(t.links) = {x \in ToSet(s.links) : x \in AllLinks \ {k, Opposite(k)}}
      /\ Once(s.links) => Once(t.links)
  BY <1>1, <1>5, SieveElements
<1>8. t \in States
  BY <1>4, <1>5, <1>6, <1>7 DEF States
<1>9. QED
  BY <1>2, <1>3, <1>5, <1>6, <1>7, <1>8 DEF k, t

ChainRuns(f, n, ns, ls) ==
  \A i \in 0..Len(ns) :
    f[i] = IF i = 0 THEN [at |-> n, nodes |-> ns, links |-> ls]
           ELSE IF Len(LocalLinks(f[i - 1].links, f[i - 1].at)) # 1 THEN f[i - 1]
           ELSE Without(f[i - 1], LocalLinks(f[i - 1].links, f[i - 1].at)[1])

LEMMA Chains ==
  ASSUME NEW n \in Nodes, NEW ns \in Seq(Nodes), NEW ls \in Seq(AllLinks)
  PROVE  ChainRuns(Chain(n, ns, ls), n, ns, ls)
<1> DEFINE m == Len(ns)
           base == [at |-> n, nodes |-> ns, links |-> ls]
           Further(s) == IF Len(LocalLinks(s.links, s.at)) # 1 THEN s
                         ELSE Without(s, LocalLinks(s.links, s.at)[1])
           step == [i \in 1 .. m |-> [s \in States |-> Further(s)]]
           Body(f) == [i \in 0 .. m |-> IF i = 0 THEN base ELSE Further(f[i - 1])]
<1>1. m \in Nat /\ base \in States
  BY DEF States
<1>2. \A s \in States : Further(s) \in States
  BY WithoutElements
<1> HIDE DEF Further, base
<1>3. step \in [1 .. m -> [States -> States]]
  BY <1>2
<1>4. \A i \in 1 .. m, s \in States : step[i][s] = Further(s)
  OBVIOUS
<1> HIDE DEF step
<1>5. PICK f \in [0 .. m -> States] : Recurs(f, base, step, m)
  BY <1>1, <1>3, Recursion
<1>6. f = Body(f)
  <2>1. \A i \in 0 .. m : i # 0 => i \in 1 .. m /\ i - 1 \in 0 .. m
    BY <1>1
  <2>2. \A i \in 0 .. m : f[i] = IF i = 0 THEN base ELSE step[i][f[i - 1]]
    BY <1>5, Zenon DEF Recurs
  <2>3. \A i \in 0 .. m : f[i] = Body(f)[i]
    BY <1>4, <2>1, <2>2
  <2>4. QED
    BY <2>3
<1>7. Chain(n, ns, ls) = CHOOSE g : g = Body(g)
  BY DEF Chain, Further, base
<1> HIDE DEF Body
<1> DEFINE s == Chain(n, ns, ls)
<1>8. s = Body(s)
  BY <1>6, <1>7
<1> HIDE DEF s
<1>9. \A i \in 0 .. m : s[i] = IF i = 0 THEN base ELSE Further(s[i - 1])
  BY <1>8, Zenon DEF Body
<1>10. QED
  BY <1>9, Zenon DEF ChainRuns, s, Further, base

LEMMA BackoffType ==
  ASSUME NEW n \in Nodes, NEW ns \in Seq(Nodes), NEW ls \in Seq(AllLinks)
  PROVE  BackoffFromTerminal(n, ns, ls) \in States
<1> DEFINE f == Chain(n, ns, ls)
           m == Len(ns)
           G == {i \in 0..m : f[i] \in States}
<1>1. m \in Nat
  OBVIOUS
<1>2. ChainRuns(f, n, ns, ls)
  BY Chains
<1> HIDE DEF f
<1>3. f[0] \in States
  BY <1>1, <1>2 DEF ChainRuns, States
<1>4. ASSUME NEW i \in 1..m, f[i - 1] \in States
      PROVE  f[i] \in States
  <2>1. f[i] = IF Len(LocalLinks(f[i - 1].links, f[i - 1].at)) # 1 THEN f[i - 1]
               ELSE Without(f[i - 1], LocalLinks(f[i - 1].links, f[i - 1].at)[1])
    BY <1>1, <1>2 DEF ChainRuns
  <2>2. QED
    BY <1>4, <2>1, WithoutElements
<1>5. 0 \in G /\ \A i \in 1..m : i - 1 \in G => i \in G
  BY <1>1, <1>3, <1>4
<1> HIDE DEF G
<1>6. \A i \in 0..m : i \in G
  BY <1>1, <1>5, Climb
<1>7. QED
  BY <1>1, <1>6 DEF G, f, BackoffFromTerminal

\* A link that is the only one of a node.
Only(l, L) == l \in L /\ \A j \in L : j[1] = l[1] => j = l

Grown(s, a, z) ==
  /\ s \in States /\ Once(s.nodes) /\ Once(s.links)
  /\ TreeOf(ToSet(s.nodes), ToSet(s.links)) /\ Core(a, z, ToSet(s.nodes), ToSet(s.links))

LEMMA WithoutKeeps ==
  ASSUME NEW a, NEW z, a # z, NEW s, Grown(s, a, z), s.at \notin {a, z},
         Len(LocalLinks(s.links, s.at)) = 1
  PROVE  LET t == Without(s, LocalLinks(s.links, s.at)[1])
         IN /\ Grown(t, a, z) /\ t.at \notin {a, z}
            /\ ToSet(t.nodes) \subseteq ToSet(s.nodes) /\ ToSet(t.links) \subseteq ToSet(s.links)
            /\ \A l : Only(l, ToSet(s.links)) /\ l[1] # s.at
                      => Only(l, ToSet(t.links)) /\ l[1] # t.at
<1> DEFINE k == LocalLinks(s.links, s.at)[1]
           t == Without(s, k)
           N == ToSet(s.nodes)
           L == ToSet(s.links)
<1>1. /\ t \in States /\ k \in L /\ k[1] = s.at /\ t.at = k[2]
      /\ \A l \in L : l[1] = k[1] => l = k
      /\ ToSet(t.nodes) = N \ {k[1]}
      /\ ToSet(t.links) = L \ {k, Opposite(k)}
      /\ Once(s.nodes) => Once(t.nodes)
      /\ Once(s.links) => Once(t.links)
  BY WithoutElements DEF Grown
<1>2. TreeOf(N, L) /\ Core(a, z, N, L) /\ Once(s.nodes) /\ Once(s.links)
  BY DEF Grown
<1> HIDE DEF k, t, N, L
<1>3. /\ TreeOf(N \ {k[1]}, L \ {k, Opposite(k)})
      /\ Core(a, z, N \ {k[1]}, L \ {k, Opposite(k)})
      /\ k[2] \notin {a, z}
      /\ \A l \in L : /\ l[1] # k[1]
                      /\ \A j \in L : j[1] = l[1] => j = l
                      => l[1] # k[2] /\ l \in L \ {k, Opposite(k)}
  BY <1>1, <1>2, ChainStep
<1>4. Grown(t, a, z)
  BY <1>1, <1>2, <1>3 DEF Grown
<1>5. \A l : Only(l, L) /\ l[1] # s.at => Only(l, ToSet(t.links)) /\ l[1] # t.at
  BY <1>1, <1>3 DEF Only
<1>6. ToSet(t.nodes) \subseteq N /\ ToSet(t.links) \subseteq L
  BY <1>1
<1>7. QED
  BY <1>1, <1>3, <1>4, <1>5, <1>6 DEF k, t, N, L

LEMMA BackoffKeeps ==
  ASSUME NEW a, NEW z, a # z, NEW n \in Nodes, n \notin {a, z}, NEW ns, NEW ls,
         Grown([at |-> n, nodes |-> ns, links |-> ls], a, z)
  PROVE  LET r == BackoffFromTerminal(n, ns, ls)
         IN /\ Grown(r, a, z)
            /\ ToSet(r.nodes) \subseteq ToSet(ns) /\ ToSet(r.links) \subseteq ToSet(ls)
            /\ \A l : Only(l, ToSet(ls)) /\ l[1] # n => Only(l, ToSet(r.links))
<1> DEFINE f == Chain(n, ns, ls)
           m == Len(ns)
           P(i) == /\ Grown(f[i], a, z) /\ f[i].at \notin {a, z}
                   /\ ToSet(f[i].nodes) \subseteq ToSet(ns) /\ ToSet(f[i].links) \subseteq ToSet(ls)
                   /\ \A l : Only(l, ToSet(ls)) /\ l[1] # n
                             => Only(l, ToSet(f[i].links)) /\ l[1] # f[i].at
           G == {i \in 0..m : P(i)}
<1>1. ns \in Seq(Nodes) /\ ls \in Seq(AllLinks)
  BY DEF Grown, States
<1>2. m \in Nat
  BY <1>1
<1>3. ChainRuns(f, n, ns, ls)
  BY <1>1, Chains
<1> HIDE DEF f
<1>4. P(0)
  <2>1. f[0] = [at |-> n, nodes |-> ns, links |-> ls]
    BY <1>2, <1>3 DEF ChainRuns
  <2>2. f[0].at = n /\ f[0].nodes = ns /\ f[0].links = ls
    BY <2>1
  <2>3. Grown(f[0], a, z)
    BY <2>1
  <2>4. QED
    BY <2>2, <2>3
<1>5. ASSUME NEW i \in 1..m, P(i - 1)
      PROVE  P(i)
  <2> DEFINE s == f[i - 1]
             t == Without(s, LocalLinks(s.links, s.at)[1])
  <2>1. f[i] = IF Len(LocalLinks(s.links, s.at)) # 1 THEN s ELSE t
    BY <1>2, <1>3 DEF ChainRuns
  <2>2. CASE Len(LocalLinks(s.links, s.at)) # 1
    BY <1>5, <2>1, <2>2
  <2>3. CASE Len(LocalLinks(s.links, s.at)) = 1
    <3>1. Grown(s, a, z) /\ s.at \notin {a, z}
      BY <1>5
    <3> HIDE DEF s
    <3>2. /\ Grown(t, a, z) /\ t.at \notin {a, z}
          /\ ToSet(t.nodes) \subseteq ToSet(s.nodes) /\ ToSet(t.links) \subseteq ToSet(s.links)
          /\ \A l : Only(l, ToSet(s.links)) /\ l[1] # s.at
                    => Only(l, ToSet(t.links)) /\ l[1] # t.at
      BY <2>3, <3>1, WithoutKeeps
    <3>3. f[i] = t
      BY <2>1, <2>3
    <3> HIDE DEF t
    <3>4. P(i)
      BY <1>5, <3>2, <3>3 DEF s
    <3>5. QED
      BY <3>4
  <2>4. QED
    BY <2>2, <2>3
<1> HIDE DEF P
<1>6. 0 \in G /\ \A i \in 1..m : i - 1 \in G => i \in G
  BY <1>2, <1>4, <1>5
<1> HIDE DEF G
<1>7. \A i \in 0..m : i \in G
  BY <1>2, <1>6, Climb
<1>8. P(m)
  BY <1>2, <1>7 DEF G
<1>9. QED
  BY <1>8 DEF P, f, BackoffFromTerminal

-----------------------------------------------------------------------------
(* The new order of the terminals, in which all of them are.               *)
InOrder(q, S) == q \in Seq(S) /\ Once(q) /\ ToSet(q) = S /\ Len(q) >= 2

LEMMA FirstOfIn ==
  ASSUME NEW S \in SUBSET Nat, S # {}
  PROVE  FirstOf(S) \in S
<1>1. \E x \in S : \A y \in S : x <= y
  BY LeastNumber
<1>2. QED
  BY <1>1 DEF FirstOf

LEMMA FarthestIsAnother ==
  ASSUME NEW S, InOrder(order, S), NEW i \in DOMAIN order
  PROVE  FarthestOf(i) \in DOMAIN order /\ FarthestOf(i) # i
<1> DEFINE m == Len(order)
           Nearer(k, j) == Distance(order[i], order[k]) < Distance(order[i], order[j])
           Better(k, j) == IF j # i /\ (k = 0 \/ Nearer(k, j)) THEN j ELSE k
           step == [j \in 1 .. m |-> [k \in 0 .. m |-> Better(k, j)]]
           Body(f) == [j \in 0 .. m |-> IF j = 0 THEN 0 ELSE Better(f[j - 1], j)]
<1>1. m \in Nat /\ m >= 2 /\ DOMAIN order = 1..m /\ i \in 1..m
  BY DEF InOrder
<1> HIDE DEF m, Nearer
<1>2. step \in [1 .. m -> [0 .. m -> 0 .. m]] /\ 0 \in 0 .. m
  BY <1>1
<1>3. \A j \in 1 .. m, k \in 0 .. m : step[j][k] = Better(k, j)
  OBVIOUS
<1> HIDE DEF step
<1>4. PICK f \in [0 .. m -> 0 .. m] : Recurs(f, 0, step, m)
  BY <1>1, <1>2, Recursion
<1>5. f = Body(f)
  <2>1. \A j \in 0 .. m : j # 0 => j \in 1 .. m /\ j - 1 \in 0 .. m
    BY <1>1
  <2>2. \A j \in 0 .. m : f[j] = IF j = 0 THEN 0 ELSE step[j][f[j - 1]]
    BY <1>4, Zenon DEF Recurs
  <2>3. \A j \in 0 .. m : j # 0 => step[j][f[j - 1]] = Better(f[j - 1], j)
    BY <1>3, <2>1
  <2> HIDE DEF Better
  <2>4. \A j \in 0 .. m : f[j] = Body(f)[j]
    BY <2>2, <2>3
  <2>5. QED
    BY <2>4
<1>6. Farthest(i) = CHOOSE g : g = Body(g)
  BY DEF Farthest, m, Nearer
<1> HIDE DEF Body
<1> DEFINE s == Farthest(i)
<1>7. s = Body(s)
  BY <1>5, <1>6
<1> HIDE DEF s
<1>8. \A j \in 0 .. m : s[j] = IF j = 0 THEN 0 ELSE Better(s[j - 1], j)
  BY <1>7, Zenon DEF Body
<1> DEFINE P(j) == s[j] \in 0..j /\ s[j] # i /\ (s[j] = 0 => \A x \in 1..j : x = i)
           G == {j \in 0..m : P(j)}
<1>9. P(0)
  <2>1. s[0] = 0
    <3>1. 0 \in 0..m
      BY <1>1
    <3> HIDE DEF Better
    <3>2. QED
      BY <1>8, <3>1
  <2>2. 0 \in 0..0 /\ 0 # i /\ 1..0 = {}
    BY <1>1
  <2>3. QED
    BY <2>1, <2>2
<1>10. ASSUME NEW j \in 1..m, P(j - 1)
       PROVE  P(j)
  <2>1. /\ j \in 0..m /\ j # 0 /\ j \in 0..j
        /\ \A x \in 1..j : x = j \/ x \in 1..j - 1
        /\ \A x \in 0..j - 1 : x \in 0..j
    BY <1>1, SMTT(30)
  <2>2. s[j] = Better(s[j - 1], j)
    BY <1>8, <2>1
  <2>3. CASE s[j] = j /\ j # i
    BY <2>1, <2>3
  <2>4. CASE s[j] = s[j - 1] /\ (j = i \/ s[j - 1] # 0)
    BY <1>10, <2>1, <2>4
  <2>5. QED
    BY <2>2, <2>3, <2>4
<1> HIDE DEF P
<1>11. 0 \in G /\ \A j \in 1..m : j - 1 \in G => j \in G
  BY <1>1, <1>9, <1>10
<1> HIDE DEF G
<1>12. \A j \in 0..m : j \in G
  BY <1>1, <1>11, Climb
<1>13. P(m)
  BY <1>1, <1>12 DEF G
<1>14. s[m] \in 1..m /\ s[m] # i
  <2>1. 1 \in 1..m /\ 2 \in 1..m
    BY <1>1
  <2>2. s[m] # 0
    BY <1>13, <2>1 DEF P
  <2>3. s[m] \in 0..m /\ s[m] # i
    BY <1>13 DEF P
  <2>4. m \in Nat
    BY <1>1
  <2>5. QED
    BY <2>2, <2>3, <2>4
<1>15. QED
  BY <1>1, <1>14 DEF s, FarthestOf, m

LEMMA LongestIsOne ==
  ASSUME NEW S, InOrder(order, S)
  PROVE  LongestFrom \in DOMAIN order
<1> DEFINE m == Len(order)
           Longer(k, i) == MaxDistance(k) < MaxDistance(i)
           Better(k, i) == IF Longer(k, i) THEN i ELSE k
           step == [i \in 1 .. m |-> [k \in 1 .. m |-> Better(k, i)]]
           Body(f) == [i \in 0 .. m |-> IF i = 0 THEN 1 ELSE Better(f[i - 1], i)]
<1>1. m \in Nat /\ m >= 2 /\ DOMAIN order = 1..m
  BY DEF InOrder
<1> HIDE DEF m, Longer
<1>2. step \in [1 .. m -> [1 .. m -> 1 .. m]] /\ 1 \in 1..m
  BY <1>1
<1>3. \A i \in 1 .. m, k \in 1 .. m : step[i][k] = Better(k, i)
  OBVIOUS
<1> HIDE DEF step
<1>4. PICK f \in [0 .. m -> 1 .. m] : Recurs(f, 1, step, m)
  BY <1>1, <1>2, Recursion
<1>5. f = Body(f)
  <2>1. \A i \in 0 .. m : i # 0 => i \in 1 .. m /\ i - 1 \in 0 .. m
    BY <1>1
  <2>2. \A i \in 0 .. m : f[i] = IF i = 0 THEN 1 ELSE step[i][f[i - 1]]
    BY <1>4, Zenon DEF Recurs
  <2>3. \A i \in 0 .. m : i # 0 => step[i][f[i - 1]] = Better(f[i - 1], i)
    BY <1>3, <2>1
  <2> HIDE DEF Better
  <2>4. \A i \in 0 .. m : f[i] = Body(f)[i]
    BY <2>2, <2>3
  <2>5. QED
    BY <2>4
<1>6. Longest = CHOOSE g : g = Body(g)
  BY DEF Longest, m, Longer
<1> HIDE DEF Body
<1> DEFINE s == Longest
<1>7. s = Body(s)
  BY <1>5, <1>6
<1> HIDE DEF s
<1>8. \A i \in 0 .. m : s[i] = IF i = 0 THEN 1 ELSE Better(s[i - 1], i)
  BY <1>7, Zenon DEF Body
<1> DEFINE G == {i \in 0..m : s[i] \in 1..m}
<1>9. 0 \in G
  <2>1. s[0] = 1 /\ 0 \in 0..m
    <3>1. 0 \in 0..m
      BY <1>1
    <3> HIDE DEF Better
    <3>2. QED
      BY <1>8, <3>1
  <2>2. QED
    BY <1>2, <2>1
<1>10. ASSUME NEW i \in 1..m, i - 1 \in G
       PROVE  i \in G
  <2>1. i \in 0..m /\ i # 0
    BY <1>1
  <2>2. s[i] = Better(s[i - 1], i)
    BY <1>8, <2>1
  <2>3. QED
    BY <1>10, <2>1, <2>2
<1> HIDE DEF G
<1>11. \A i \in 0..m : i \in G
  BY <1>1, <1>9, <1>10, Climb
<1>12. s[m] \in 1..m
  BY <1>1, <1>11 DEF G
<1>13. QED
  BY <1>1, <1>12 DEF s, LongestFrom, m

Apart == \A i, j \in DOMAIN order : i # j => Distance(order[i], order[j]) \in Nat

LEMMA SumsAreNumbers ==
  ASSUME NEW S, InOrder(order, S), Apart, NEW i \in DOMAIN order
  PROVE  SumDistance(i) \in Nat
<1> DEFINE m == Len(order)
           far == [j \in 1 .. m |-> IF j = i THEN 0 ELSE Distance(order[i], order[j])]
           step == [j \in 1 .. m |-> [k \in Nat |-> k + far[j]]]
           Body(f) == [j \in 0 .. m |->
                         IF j = 0 THEN 0
                         ELSE f[j - 1] + IF j = i THEN 0 ELSE Distance(order[i], order[j])]
<1>1. m \in Nat /\ DOMAIN order = 1..m /\ i \in 1..m
  BY DEF InOrder
<1>2. \A j \in 1..m : /\ far[j] \in Nat
                      /\ far[j] = IF j = i THEN 0 ELSE Distance(order[i], order[j])
  BY <1>1 DEF Apart
<1> HIDE DEF m, far
<1>3. step \in [1 .. m -> [Nat -> Nat]] /\ 0 \in Nat
  BY <1>2
<1>4. \A j \in 1 .. m, k \in Nat : step[j][k] = k + far[j]
  OBVIOUS
<1> HIDE DEF step
<1>5. PICK f \in [0 .. m -> Nat] : Recurs(f, 0, step, m)
  BY <1>1, <1>3, Recursion
<1>6. f = Body(f)
  <2>1. \A j \in 0 .. m : j # 0 => j \in 1 .. m /\ j - 1 \in 0 .. m
    BY <1>1
  <2>2. \A j \in 0 .. m : f[j] = IF j = 0 THEN 0 ELSE step[j][f[j - 1]]
    BY <1>5, Zenon DEF Recurs
  <2>3. \A j \in 0 .. m : j # 0 => step[j][f[j - 1]] = f[j - 1] + far[j]
    BY <1>4, <2>1
  <2>4. \A j \in 0 .. m : f[j] = Body(f)[j]
    BY <1>2, <2>1, <2>2, <2>3
  <2>5. QED
    BY <2>4
<1>7. SumDistances(i) = CHOOSE g : g = Body(g)
  BY DEF SumDistances, m
<1> HIDE DEF Body
<1> DEFINE s == SumDistances(i)
<1>8. s = Body(s)
  BY <1>6, <1>7
<1> HIDE DEF s
<1>9. \A j \in 0 .. m :
        s[j] = IF j = 0 THEN 0
               ELSE s[j - 1] + IF j = i THEN 0 ELSE Distance(order[i], order[j])
  BY <1>8, Zenon DEF Body
<1> DEFINE G == {j \in 0..m : s[j] \in Nat}
<1>10. 0 \in G
  <2>1. 0 \in 0..m
    BY <1>1
  <2>2. s[0] = 0
    BY <1>9, <2>1
  <2>3. QED
    BY <2>1, <2>2
<1>11. ASSUME NEW j \in 1..m, j - 1 \in G
       PROVE  j \in G
  <2>1. j \in 0..m /\ j # 0
    BY <1>1
  <2>2. s[j] = s[j - 1] + far[j]
    BY <1>2, <1>9, <2>1
  <2>3. QED
    BY <1>2, <1>11, <2>1, <2>2
<1> HIDE DEF G
<1>12. \A j \in 0..m : j \in G
  BY <1>1, <1>10, <1>11, Climb
<1>13. s[m] \in Nat
  BY <1>1, <1>12 DEF G
<1>14. QED
  BY <1>13 DEF s, SumDistance, m

LEMMA NearestIsOne ==
  ASSUME NEW S, InOrder(order, S), Apart, NEW T \in SUBSET DOMAIN order, T # {}
  PROVE  Nearest(T) \in T
<1> DEFINE sums == {SumDistance(i) : i \in T}
           best == {i \in T : \A j \in T : SumDistance(i) <= SumDistance(j)}
<1>1. \A i \in T : i \in Nat /\ SumDistance(i) \in Nat
  BY SumsAreNumbers DEF InOrder
<1>2. sums \in SUBSET Nat /\ sums # {}
  BY <1>1
<1>3. PICK x \in sums : \A y \in sums : x <= y
  BY <1>2, LeastNumber
<1>4. best # {} /\ best \in SUBSET Nat
  BY <1>1, <1>3
<1>5. FirstOf(best) \in best
  BY <1>4, FirstOfIn
<1>6. QED
  BY <1>5 DEF Nearest

Reorders(f) ==
  \A k \in 0..Len(order) - 2 :
    f[k] = IF k = 0 THEN <<LongestFrom, LongestTo>>
           ELSE Append(f[k - 1], Nearest(Remaining(f[k - 1])))

LEMMA ReorderingSteps ==
  ASSUME NEW S, InOrder(order, S), Apart
  PROVE  Reorders(Reordering)
<1> DEFINE m == Len(order) - 2
           base == <<LongestFrom, LongestTo>>
           D == Seq(DOMAIN order \cup {Nearest({})})
           More(s) == Append(s, Nearest(Remaining(s)))
           step == [k \in 1 .. m |-> [s \in D |-> More(s)]]
           Body(f) == [k \in 0 .. m |-> IF k = 0 THEN base ELSE More(f[k - 1])]
<1>1. m \in Nat
  BY DEF InOrder
<1>2. base \in D
  BY LongestIsOne, FarthestIsAnother DEF LongestTo
<1>3. ASSUME NEW s \in D
      PROVE  More(s) \in D
  <2>1. Remaining(s) \in SUBSET DOMAIN order
    BY DEF Remaining
  <2>2. CASE Remaining(s) = {}
    BY <2>2
  <2>3. CASE Remaining(s) # {}
    <3>1. Nearest(Remaining(s)) \in DOMAIN order
      BY <2>1, <2>3, NearestIsOne
    <3>2. QED
      BY <3>1
  <2>4. QED
    BY <2>2, <2>3
<1> HIDE DEF m, base, D, More
<1>4. step \in [1 .. m -> [D -> D]]
  BY <1>3
<1>5. \A k \in 1 .. m, s \in D : step[k][s] = More(s)
  OBVIOUS
<1> HIDE DEF step
<1>6. PICK f \in [0 .. m -> D] : Recurs(f, base, step, m)
  BY <1>1, <1>2, <1>4, Recursion
<1>7. f = Body(f)
  <2>1. \A k \in 0 .. m : k # 0 => k \in 1 .. m /\ k - 1 \in 0 .. m
    BY <1>1
  <2>2. \A k \in 0 .. m : f[k] = IF k = 0 THEN base ELSE step[k][f[k - 1]]
    BY <1>6, Zenon DEF Recurs
  <2>3. \A k \in 0 .. m : f[k] = Body(f)[k]
    BY <1>5, <2>1, <2>2
  <2>4. QED
    BY <2>3
<1>8. Reordering = CHOOSE g : g = Body(g)
  BY DEF Reordering, m, base, More
<1> HIDE DEF Body
<1> DEFINE s == Reordering
<1>9. s = Body(s)
  BY <1>7, <1>8
<1> HIDE DEF s
<1>10. \A k \in 0 .. m : s[k] = IF k = 0 THEN base ELSE More(s[k - 1])
  BY <1>9, Zenon DEF Body
<1>11. QED
  BY <1>10, Zenon DEF Reorders, s, m, base, More

LEMMA NewOrder ==
  ASSUME NEW S, InOrder(order, S), Apart
  PROVE  InOrder(Reordered, S)
<1> DEFINE n == Len(order)
           m == n - 2
           f == Reordering
           P(k) == f[k] \in Seq(DOMAIN order) /\ Once(f[k]) /\ Len(f[k]) = k + 2
           G == {k \in 0..m : P(k)}
<1>1. /\ n \in Nat /\ n >= 2 /\ m \in Nat /\ DOMAIN order = 1..n
      /\ order \in Seq(S) /\ Once(order) /\ ToSet(order) = S
  BY DEF InOrder
<1>2. \A k \in 0..m : f[k] = IF k = 0 THEN <<LongestFrom, LongestTo>>
                             ELSE Append(f[k - 1], Nearest(Remaining(f[k - 1])))
  BY ReorderingSteps DEF Reorders
<1>3. /\ LongestFrom \in DOMAIN order /\ LongestTo \in DOMAIN order /\ LongestTo # LongestFrom
  BY LongestIsOne, FarthestIsAnother DEF LongestTo
<1> HIDE DEF f, n
<1>4. P(0)
  <2>1. f[0] = <<LongestFrom, LongestTo>>
    BY <1>1, <1>2
  <2>2. QED
    BY <1>3, <2>1 DEF Once
<1>5. ASSUME NEW k \in 1..m, P(k - 1)
      PROVE  P(k)
  <2> DEFINE q == f[k - 1]
             x == Nearest(Remaining(q))
  <2>1. f[k] = Append(q, x) /\ k \in Nat /\ k <= m
    <3>1. k \in 0..m /\ k # 0 /\ k \in Nat /\ k <= m
      BY <1>1
    <3>2. QED
      BY <1>2, <3>1, Zenon
  <2>2. q \in Seq(DOMAIN order) /\ Once(q) /\ Len(q) = k - 1 + 2
    BY <1>5
  <2> HIDE DEF q
  <2>3. Remaining(q) # {}
    <3>1. IsFiniteSet(ToSet(q)) /\ Cardinality(ToSet(q)) = Len(q)
      BY <2>2, OnceLength
    <3>2. IsFiniteSet(1..n) /\ Cardinality(1..n) = n
      BY <1>1, FS_Interval
    <3>3. ToSet(q) \subseteq 1..n
      BY <1>1, <2>2 DEF ToSet
    <3>4. Len(q) # n
      <4>1. Len(q) = k - 1 + 2 /\ k \in Nat /\ k <= n - 2 /\ n \in Nat
        BY <1>1, <2>1, <2>2
      <4>2. QED
        BY <4>1
    <3>5. ToSet(q) # 1..n
      BY <3>1, <3>2, <3>4
    <3>6. QED
      BY <1>1, <3>3, <3>5 DEF Remaining, ToSet, Range
  <2>4. x \in Remaining(q)
    BY <2>3, NearestIsOne DEF Remaining
  <2> HIDE DEF x
  <2>5. x \in DOMAIN order /\ x \notin ToSet(q)
    BY <2>4 DEF Remaining, ToSet, Range
  <2>6. Append(q, x) \in Seq(DOMAIN order) /\ Once(Append(q, x))
    BY <2>2, <2>5, AppendElements
  <2>7. Len(Append(q, x)) = k + 2
    BY <2>1, <2>2
  <2>8. QED
    BY <2>1, <2>6, <2>7
<1> HIDE DEF P
<1>6. 0 \in G /\ \A k \in 1..m : k - 1 \in G => k \in G
  BY <1>1, <1>4, <1>5
<1> HIDE DEF G
<1>7. \A k \in 0..m : k \in G
  BY <1>1, <1>6, Climb
<1>8. P(m)
  BY <1>1, <1>7 DEF G
<1> DEFINE s == f[m]
           r == Reordered
<1>9. s \in Seq(1..n) /\ Once(s) /\ Len(s) = n /\ DOMAIN s = 1..n
  BY <1>1, <1>8 DEF P
<1>10. r = [k \in 1..n |-> order[s[k]]]
  BY <1>1 DEF Reordered, f, n
<1> HIDE DEF s, r
<1>11. ToSet(s) = 1..n
  <2>1. IsFiniteSet(ToSet(s)) /\ Cardinality(ToSet(s)) = n
    BY <1>9, OnceLength
  <2>2. IsFiniteSet(1..n) /\ Cardinality(1..n) = n
    BY <1>1, FS_Interval
  <2>3. ToSet(s) \in SUBSET (1..n)
    BY <1>9 DEF ToSet
  <2>4. QED
    BY <2>1, <2>2, <2>3, FS_Subset
<1>12. \A k \in 1..n : s[k] \in 1..n /\ r[k] = order[s[k]] /\ order[s[k]] \in S
  BY <1>1, <1>9, <1>10
<1>13. r \in Seq(S) /\ Len(r) = n /\ DOMAIN r = 1..n
  BY <1>1, <1>10, <1>12
<1>14. Once(r)
  <2>1. \A x, y \in 1..n : order[x] = order[y] => x = y
    BY <1>1 DEF Once
  <2>2. \A i, j \in 1..n : s[i] = s[j] => i = j
    BY <1>9 DEF Once
  <2>3. \A i, j \in 1..n : r[i] = r[j] => i = j
    BY <1>12, <2>1, <2>2
  <2>4. QED
    BY <1>13, <2>3 DEF Once
<1>15. ToSet(r) = S
  <2>1. \A x \in S : \E i \in 1..n : x = order[i]
    BY <1>1 DEF ToSet
  <2>2. \A i \in 1..n : \E k \in 1..n : i = s[k]
    BY <1>9, <1>11 DEF ToSet
  <2>3. \A x \in S : \E k \in 1..n : x = r[k]
    BY <1>12, <2>1, <2>2
  <2>4. QED
    BY <1>12, <1>13, <2>3 DEF ToSet
<1>16. QED
  BY <1>1, <1>13, <1>14, <1>15 DEF InOrder, r

\* Moving the terminal after place a to the end leaves those before it where they are.
LEMMA MovedToEnd ==
  ASSUME NEW S, NEW q, InOrder(q, S), NEW a \in 1..Len(q) - 1
  PROVE  LET x == q[a + 1]
             r == Append(Sieve(q, S \ {x}), x)
         IN InOrder(r, S) /\ Len(r) = Len(q) /\ \A j \in 1..a : r[j] = q[j]
<1> DEFINE n == Len(q)
           x == q[a + 1]
           I == {i \in DOMAIN q : q[i] \in S \ {x}}
           s == Kept(q, I)
           P(k) == /\ s[k] \in Seq(S) /\ Len(s[k]) = IF k <= a THEN k ELSE k - 1
                   /\ \A j \in 1..a : j <= k => s[k][j] = q[j]
           G == {k \in 0..n : P(k)}
<1>1. /\ q \in Seq(S) /\ Once(q) /\ ToSet(q) = S /\ n \in Nat /\ n >= 2 /\ DOMAIN q = 1..n
      /\ a \in Nat /\ a + 1 \in 1..n /\ a < n /\ a >= 1
  BY DEF InOrder
<1>2. \A i \in 1..n : q[i] \in S /\ (i \in I <=> i # a + 1)
  <2>1. \A i \in 1..n : q[i] \in S /\ (q[i] = x <=> i = a + 1)
    <3> HIDE DEF n
    <3>1. QED
      BY <1>1 DEF Once
  <2>2. QED
    BY <1>1, <2>1
<1>3. \A k \in 0..n : s[k] = IF k = 0 THEN <<>>
                             ELSE IF k \in I THEN Append(s[k - 1], q[k]) ELSE s[k - 1]
  <2>1. KeepsOn(s, q, I)
    BY <1>1, KeptSteps
  <2>2. QED
    BY <2>1, Zenon DEF KeepsOn
<1>4. Sieve(q, S \ {x}) = s[n]
  BY DEF Sieve, Keep
<1>5. /\ s[n] \in Seq(S) /\ ToSet(s[n]) = {y \in ToSet(q) : y \in S \ {x}} /\ Once(s[n])
  <2> DEFINE T == S \ {x}
  <2>1. q \in Seq(S) /\ Once(q)
    BY <1>1
  <2> HIDE DEF T, s
  <2>2. /\ Sieve(q, T) \in Seq(S) /\ ToSet(Sieve(q, T)) = {y \in ToSet(q) : y \in T}
        /\ Once(Sieve(q, T))
    BY <2>1, SieveElements
  <2>3. QED
    BY <1>4, <2>2 DEF T
<1> HIDE DEF n, I, s
<1>6. P(0)
  <2>1. s[0] = <<>> /\ 0 <= a
    <3>1. 0 \in 0..n /\ 0 <= a
      BY <1>1
    <3>2. QED
      BY <1>3, <3>1
  <2>2. \A j \in 1..a : ~(j <= 0)
    BY <1>1
  <2>3. QED
    BY <2>1, <2>2
<1>7. ASSUME NEW k \in 1..n, P(k - 1)
      PROVE  P(k)
  <2>1. /\ k \in 0..n /\ k # 0 /\ k \in Nat /\ q[k] \in S
        /\ s[k] = IF k # a + 1 THEN Append(s[k - 1], q[k]) ELSE s[k - 1]
    <3>1. k \in 0..n /\ k # 0 /\ k \in Nat
      BY <1>1
    <3>2. s[k] = IF k \in I THEN Append(s[k - 1], q[k]) ELSE s[k - 1]
      BY <1>3, <3>1, Zenon
    <3>3. QED
      BY <1>2, <3>1, <3>2
  <2> DEFINE r == s[k - 1]
  <2>2. /\ r \in Seq(S) /\ Len(r) = IF k - 1 <= a THEN k - 1 ELSE k - 1 - 1
        /\ \A j \in 1..a : j <= k - 1 => r[j] = q[j]
    BY <1>7
  <2> HIDE DEF r
  <2>3. CASE k = a + 1
    <3>1. s[k] = r /\ k - 1 = a /\ ~(k <= a)
      BY <1>1, <2>1, <2>3 DEF r
    <3>2. \A j \in 1..a : j <= k - 1
      BY <1>1, <3>1
    <3>3. QED
      BY <1>1, <2>2, <3>1, <3>2
  <2>4. CASE k # a + 1
    <3>1. s[k] = Append(r, q[k])
      BY <2>1, <2>4 DEF r
    <3>2. /\ Append(r, q[k]) \in Seq(S) /\ Len(Append(r, q[k])) = Len(r) + 1
          /\ \A j \in 1..Len(r) : Append(r, q[k])[j] = r[j]
          /\ Append(r, q[k])[Len(r) + 1] = q[k]
      BY <2>1, <2>2
    <3>3. Len(s[k]) = IF k <= a THEN k ELSE k - 1
      BY <1>1, <2>1, <2>2, <2>4, <3>1, <3>2
    <3>4. ASSUME NEW j \in 1..a, j <= k
          PROVE  s[k][j] = q[j]
      <4>1. CASE j = k
        <5>1. Len(r) + 1 = k
          BY <1>1, <2>1, <2>2, <4>1
        <5>2. QED
          BY <3>1, <3>2, <4>1, <5>1
      <4>2. CASE j # k
        <5>1. j <= k - 1 /\ j \in 1..Len(r)
          BY <1>1, <2>1, <2>2, <2>4, <3>4, <4>2
        <5>2. QED
          BY <2>2, <3>1, <3>2, <5>1
      <4>3. QED
        BY <4>1, <4>2
    <3>5. QED
      BY <3>1, <3>2, <3>3, <3>4
  <2>5. QED
    BY <2>3, <2>4
<1> HIDE DEF P
<1>8. 0 \in G /\ \A k \in 1..n : k - 1 \in G => k \in G
  BY <1>1, <1>6, <1>7
<1> HIDE DEF G
<1>9. \A k \in 0..n : k \in G
  BY <1>1, <1>8, Climb
<1>10. P(n)
  BY <1>1, <1>9 DEF G
<1>11. Len(s[n]) = n - 1 /\ \A j \in 1..a : s[n][j] = q[j]
  BY <1>1, <1>10 DEF P
<1> DEFINE r == Append(s[n], x)
<1>12. x \in S /\ x \notin ToSet(s[n])
  BY <1>1, <1>2, <1>5
<1>13. r \in Seq(S) /\ ToSet(r) = S /\ Once(r)
  <2>1. r \in Seq(S) /\ ToSet(r) = ToSet(s[n]) \cup {x} /\ Once(r)
    BY <1>5, <1>12, AppendElements
  <2>2. QED
    BY <1>1, <1>5, <1>12, <2>1
<1>14. Len(r) = n
  BY <1>1, <1>5, <1>11
<1>15. \A j \in 1..a : r[j] = q[j]
  <2>1. \A j \in 1..a : j \in 1..Len(s[n])
    BY <1>1, <1>11
  <2>2. QED
    BY <1>5, <1>11, <2>1
<1>16. InOrder(r, S)
  BY <1>1, <1>13, <1>14 DEF InOrder
<1>17. QED
  BY <1>4, <1>14, <1>15, <1>16 DEF n

-----------------------------------------------------------------------------
(* The invariant: the order has all terminals, the next one to bridge is   *)
(* past the first two, and the topology is a tree that has grown around    *)
(* the path that seeded it.                                                *)
Chosen == graph \in Graphs /\ routes = Routes[graph] /\ request \in Requests
Fresh == nodes = <<>> /\ links = <<>> /\ reentry = MAX_REENTRY_NUM
Bridging == /\ reentry \in 1..MAX_REENTRY_NUM
            /\ \E i \in 2..Len(order) : order[i] = current
Shaped == Once(nodes) /\ Once(links) /\ TreeOf(ToSet(nodes), ToSet(links))
Seeded == Core(order[1], order[2], ToSet(nodes), ToSet(links))

Inv ==
  /\ Chosen /\ InOrder(order, Terminals)
  /\ nodes \in Seq(Nodes) /\ links \in Seq(AllLinks)
  /\ pc = "prestage" => Fresh
  /\ pc = "bridge" => Bridging
  /\ LoopFree /\ nodes # <<>> => Shaped
  /\ LoopFree /\ nodes # <<>> /\ pc = "bridge" => Seeded

\* What the path search finds.
LEMMA FoundPaths ==
  ASSUME Chosen, NEW s \in Nodes, NEW t \in Terminals, NEW i \in DOMAIN KSP(s, t)
  PROVE  LET p == KSP(s, t)[i]
         IN /\ p \in Seq(AllLinks) /\ Joined(p) /\ IsWalk(p, s, t)
            /\ LoopFree => IsLoopFree(p)
<1>1. <<s, t>> \in Nodes \X (Nodes \ Bridges)
  BY BridgeAssumption DEF Chosen, Terminals
<1>2. /\ routes \in [Nodes \X (Nodes \ Bridges) -> Seq(Seq(AllLinks))]
      /\ \A e \in Nodes \X (Nodes \ Bridges) : \A j \in DOMAIN routes[e] :
           IsWalk(routes[e][j], e[1], e[2])
  BY BridgeAssumption DEF Chosen
<1>3. DOMAIN routes = Nodes \X (Nodes \ Bridges) /\ routes[<<s, t>>] \in Seq(Seq(AllLinks))
  BY <1>1, <1>2
<1>4. i \in DOMAIN routes[<<s, t>>]
  BY DEF KSP
<1>5. routes[<<s, t>>][i] \in Seq(AllLinks)
  BY <1>3, <1>4
<1>6. IsWalk(routes[<<s, t>>][i], s, t)
  BY <1>1, <1>2, <1>4
<1>7. LoopFree => IsLoopFree(routes[<<s, t>>][i])
  BY <1>1, <1>3, <1>4 DEF LoopFree
<1>8. QED
  BY <1>5, <1>6, <1>7 DEF KSP, IsWalk, Joined

LEMMA TerminalsAreNodes ==
  ASSUME Chosen
  PROVE  Terminals \subseteq Nodes \ Bridges /\ Bridges \subseteq Nodes
BY BridgeAssumption DEF Chosen, Terminals

LEMMA InitInv == Init => Inv
<1> SUFFICES ASSUME Init PROVE Inv
  OBVIOUS
<1>1. Chosen /\ Fresh /\ pc = "prestage" /\ order = Sieve(NodeOrder, Terminals)
  BY DEF Init, Chosen, Fresh
<1>2. Terminals \subseteq Nodes
  BY <1>1, TerminalsAreNodes
<1>3. NodeOrder \in Seq(Nodes) /\ Once(NodeOrder) /\ ToSet(NodeOrder) = Nodes
  BY BridgeAssumption DEF IsInjective, Once, ToSet, Nodes, Range
<1>4. /\ order \in Seq(Nodes) /\ Once(order)
      /\ ToSet(order) = {x \in ToSet(NodeOrder) : x \in Terminals}
  BY <1>1, <1>3, SieveElements
<1>5. ToSet(order) = Terminals
  BY <1>2, <1>3, <1>4
<1>6. Len(order) \in Nat /\ DOMAIN order = 1..Len(order)
  BY <1>4
<1>7. order \in Seq(Terminals)
  <2>1. \A i \in 1..Len(order) : order[i] \in Terminals
    BY <1>5, <1>6 DEF ToSet
  <2>2. order \in [1..Len(order) -> Terminals]
    BY <1>4, <2>1
  <2>3. QED
    BY <1>6, <2>2
<1>8. Len(order) >= 2
  <2>1. PICK s \in Terminals, t \in Terminals : s # t
    BY <1>1, BridgeAssumption DEF Chosen, Terminals
  <2>2. PICK i \in 1..Len(order), j \in 1..Len(order) : order[i] = s /\ order[j] = t
    BY <1>5, <1>6 DEF ToSet
  <2>3. i # j
    BY <2>1, <2>2
  <2>4. QED
    BY <1>6, <2>3
<1>9. <<>> \in Seq(Nodes) /\ <<>> \in Seq(AllLinks)
  OBVIOUS
<1>10. InOrder(order, Terminals)
  BY <1>4, <1>5, <1>7, <1>8 DEF InOrder
<1>11. QED
  BY <1>1, <1>9, <1>10 DEF Inv, Fresh

\* The place of the terminal that was bridged last.
LEMMA AtPlace ==
  ASSUME InOrder(order, Terminals), NEW i \in 1..Len(order), order[i] = current
  PROVE  At = i
<1>1. i \in DOMAIN order /\ \A j \in DOMAIN order : order[j] = current => j = i
  BY DEF InOrder, Once
<1>2. QED
  BY <1>1 DEF At

LEMMA BridgingAt ==
  ASSUME Inv, pc = "bridge"
  PROVE  At \in 2..Len(order) /\ order[At] = current /\ Len(order) \in Nat
<1>1. PICK i \in 2..Len(order) : order[i] = current
  BY DEF Inv, Bridging
<1>2. Len(order) \in Nat /\ InOrder(order, Terminals)
  BY DEF Inv, InOrder
<1>3. i \in 1..Len(order)
  BY <1>2
<1>4. At = i
  BY <1>1, <1>2, <1>3, AtPlace
<1>5. QED
  BY <1>1, <1>2, <1>4

LEMMA SeedStep ==
  ASSUME Inv, SeedBridgeWithLPH
  PROVE  Inv'
<1> DEFINE a == order'[1]
           z == order'[2]
           good == {i \in DOMAIN KSP(a, z) :
                      VerifyTEConstraints(KSP(a, z)[i], request[a], request[z]) # {}}
<1>1. /\ pc = "prestage" /\ Connected /\ order' = Reordered /\ current' = z /\ pc' = "bridge"
      /\ Fresh /\ Chosen /\ Chosen' /\ reentry' = reentry /\ Terminals' = Terminals
      /\ LoopFree' <=> LoopFree
      /\ InOrder(order, Terminals)
      /\ IF good = {} THEN UNCHANGED smt ELSE LoadPath(KSP(a, z)[FirstOf(good)])
  BY DEF SeedBridgeWithLPH, Inv, input, Chosen, Terminals, LoopFree
<1>2. Apart
  <2> SUFFICES ASSUME NEW i \in DOMAIN order, NEW j \in DOMAIN order, i # j
               PROVE  Distance(order[i], order[j]) \in Nat
    BY DEF Apart
  <2>1. order[i] \in Terminals /\ order[j] \in Terminals /\ order[i] # order[j]
    BY <1>1 DEF InOrder, Once
  <2>2. order[i] \in Nodes /\ KSP(order[i], order[j]) # <<>>
    BY <1>1, <2>1, TerminalsAreNodes DEF Connected
  <2>3. <<order[i], order[j]>> \in Nodes \X (Nodes \ Bridges)
    BY <1>1, <2>1, TerminalsAreNodes
  <2>4. KSP(order[i], order[j]) \in Seq(Seq(AllLinks))
    BY <1>1, <2>3, BridgeAssumption DEF Chosen, KSP
  <2>5. KSP(order[i], order[j])[1] \in Seq(AllLinks)
    BY <2>2, <2>4
  <2>6. QED
    BY <2>5 DEF Distance
<1>3. InOrder(order', Terminals)
  BY <1>1, <1>2, NewOrder
<1>4. /\ a \in Terminals /\ z \in Terminals /\ a # z /\ 2 \in 2..Len(order') /\ order'[2] = current'
  BY <1>1, <1>3 DEF InOrder, Once
<1>5. Bridging'
  BY <1>1, <1>4 DEF Bridging, Fresh, MAX_REENTRY_NUM
<1>6. CASE good = {}
  <2>1. nodes' = <<>> /\ links' = <<>>
    BY <1>1, <1>6 DEF smt, Fresh
  <2>2. QED
    BY <1>1, <1>3, <1>5, <2>1 DEF Inv
<1>7. CASE good # {}
  <2> DEFINE i == FirstOf(good)
             p == KSP(a, z)[i]
             m == Len(p)
  <2>1. a \in Nodes
    BY <1>1, <1>4, TerminalsAreNodes
  <2>2. <<a, z>> \in Nodes \X (Nodes \ Bridges)
    BY <1>1, <1>4, TerminalsAreNodes
  <2>3. KSP(a, z) \in Seq(Seq(AllLinks))
    BY <1>1, <2>2, BridgeAssumption DEF Chosen, KSP
  <2>4. good \in SUBSET Nat
    BY <2>3
  <2>5. i \in DOMAIN KSP(a, z)
    <3>1. i \in good
      BY <1>7, <2>4, FirstOfIn
    <3>2. QED
      BY <3>1
  <2>6. LoadPath(p)
    BY <1>1, <1>7
  <2> HIDE DEF i, a, z, good
  <2>7. /\ p \in Seq(AllLinks) /\ Joined(p) /\ IsWalk(p, a, z)
        /\ LoopFree => IsLoopFree(p)
    BY <1>1, <1>4, <2>1, <2>5, FoundPaths
  <2> HIDE DEF p
  <2>8. nodes' = LoadedNodes(<<>>, p)[m] /\ links' = LoadedLinks(<<>>, p)[m]
    BY <1>1, <2>6 DEF LoadPath, Fresh
  <2>9. /\ links' \in Seq(AllLinks) /\ ToSet(links') = ToSet(<<>>) \cup Ways(p, m)
        /\ nodes' \in Seq(Nodes) /\ ToSet(nodes') = ToSet(<<>>) \cup {p[1][1]} \cup Ends(p, m)
        /\ Once(<<>>) => Once(links') /\ Once(nodes')
    <3>1. <<>> \in Seq(AllLinks) /\ <<>> \in Seq(Nodes)
      OBVIOUS
    <3>2. p # <<>> /\ \A j \in 1..Len(p) - 1 : p[j][2] = p[j + 1][1]
      BY <2>7 DEF Joined
    <3>3. QED
      BY <2>7, <2>8, <3>1, <3>2, LoadedElements
  <2>10. Once(<<>>) /\ ToSet(<<>>) = {}
    BY DEF Once, ToSet
  <2>11. p[1][1] = a /\ p[m][2] = z
    BY <2>7 DEF IsWalk
  <2>12. ToSet(links') = {} \cup Ways(p, m) /\ ToSet(nodes') = {a} \cup Ends(p, m)
    BY <2>9, <2>10, <2>11
  <2>13. ASSUME LoopFree
         PROVE  Shaped' /\ Seeded'
    <3>1. IsLoopFree(p)
      BY <2>7, <2>13
    <3>2. \A j \in DOMAIN p : p[j][2] \notin {a}
      BY <2>11, <3>1 DEF IsLoopFree
    <3>3. TreeOf({a} \cup Ends(p, m), {} \cup Ways(p, m))
      BY <2>7, <2>11, <3>1, <3>2, SingleNode, GrowTree
    <3>4. Core(a, z, {a} \cup Ends(p, m), Ways(p, m))
      BY <2>7, <2>11, <3>1, SeedCore
    <3>5. Ways(p, m) = {} \cup Ways(p, m)
      OBVIOUS
    <3>6. QED
      BY <2>9, <2>10, <2>12, <3>3, <3>4, <3>5 DEF Shaped, Seeded, a, z
  <2>14. QED
    BY <1>1, <1>3, <1>5, <2>9, <2>13 DEF Inv
<1>8. QED
  BY <1>6, <1>7

\* The path that is bridged: one from a bridge of the topology that meets it nowhere else.
LEMMA BridgedPath ==
  ASSUME Inv, Bridge
  PROVE  \E b \in ToSet(nodes) \cap Bridges : \E i \in DOMAIN KSP(b, order[At + 1]) :
           LET p == KSP(b, order[At + 1])[i]
           IN LoadPath(p) /\ \A j \in DOMAIN p : p[j][2] # b => p[j][2] \notin ToSet(nodes)
<1> DEFINE t == order[At + 1]
           good(b) == {i \in DOMAIN KSP(b, t) : VerifyBridgePath(b, t, KSP(b, t)[i])}
           goods == {b \in Bridges : good(b) # {}}
           having == Sieve(BridgeNodes, goods)
           ps == BridgeTerminalWithPDH(t)
           path(i) == KSP(having[i], t)[FirstOf(good(having[i]))]
           least == {i \in DOMAIN ps : \A j \in DOMAIN ps : Len(ps[i]) <= Len(ps[j])}
<1>1. /\ pc = "bridge" /\ At < Len(order) /\ ps # <<>> /\ LoadPath(Cheapest(ps))
  BY DEF Bridge
<1>2. t \in Terminals
  <2>1. At \in 2..Len(order) /\ Len(order) \in Nat
    BY <1>1, BridgingAt
  <2>2. At + 1 \in 1..Len(order)
    BY <1>1, <2>1
  <2>3. QED
    BY <2>2 DEF Inv, InOrder
<1> HIDE DEF t
<1>3. /\ having \in Seq(Nodes)
      /\ \A i \in DOMAIN having : having[i] \in ToSet(nodes) \cap Bridges /\ good(having[i]) # {}
  <2>1. BridgeNodes \in Seq(Nodes) /\ ToSet(BridgeNodes) = {x \in ToSet(nodes) : x \in Bridges}
    BY SieveElements DEF Inv, BridgeNodes
  <2>2. having \in Seq(Nodes) /\ ToSet(having) = {x \in ToSet(BridgeNodes) : x \in goods}
    BY <2>1, SieveElements
  <2> HIDE DEF having
  <2>3. \A i \in DOMAIN having : having[i] \in ToSet(having)
    BY DEF ToSet
  <2>4. QED
    BY <2>1, <2>2, <2>3
<1>4. ps = [i \in DOMAIN having |-> path(i)]
  BY DEF BridgeTerminalWithPDH
<1> HIDE DEF having, ps
<1>5. ASSUME NEW i \in DOMAIN having
      PROVE  /\ FirstOf(good(having[i])) \in good(having[i])
             /\ path(i) \in Seq(AllLinks)
  <2>1. having[i] \in Nodes /\ Chosen
    BY <1>3 DEF Inv
  <2>2. <<having[i], t>> \in Nodes \X (Nodes \ Bridges)
    BY <1>2, <2>1, TerminalsAreNodes
  <2>3. KSP(having[i], t) \in Seq(Seq(AllLinks))
    BY <2>1, <2>2, BridgeAssumption DEF Chosen, KSP
  <2>4. good(having[i]) \in SUBSET Nat /\ good(having[i]) # {}
    BY <1>3, <2>3
  <2>5. FirstOf(good(having[i])) \in good(having[i])
    <3> DEFINE g == good(having[i])
    <3>1. g \in SUBSET Nat /\ g # {}
      BY <2>4
    <3> HIDE DEF g
    <3>2. FirstOf(g) \in g
      BY <3>1, FirstOfIn
    <3>3. QED
      BY <3>2 DEF g
  <2>6. QED
    BY <2>3, <2>5
<1>6. DOMAIN ps = DOMAIN having /\ \A i \in DOMAIN having : ps[i] = path(i)
  BY <1>4
<1>7. DOMAIN having = 1..Len(having) /\ Len(having) \in Nat
  BY <1>3
<1>8. Len(having) # 0
  <2> SUFFICES ASSUME Len(having) = 0
               PROVE  FALSE
    OBVIOUS
  <2>1. DOMAIN having = {}
    BY <1>7
  <2>2. ps = <<>>
    BY <1>4, <2>1
  <2>3. QED
    BY <1>1, <2>2
<1>9. FirstOf(least) \in DOMAIN having
  <2> DEFINE lens == {Len(ps[i]) : i \in DOMAIN having}
  <2>1. \A i \in DOMAIN having : Len(ps[i]) \in Nat
    <3>1. \A i \in DOMAIN having : ps[i] \in Seq(AllLinks)
      BY <1>5, <1>6
    <3>2. QED
      BY <3>1
  <2>2. 1 \in DOMAIN having
    BY <1>7, <1>8
  <2>3. lens \in SUBSET Nat /\ lens # {}
    BY <2>1, <2>2
  <2>4. PICK x \in lens : \A y \in lens : x <= y
    BY <2>3, LeastNumber
  <2>5. PICK i \in DOMAIN having : x = Len(ps[i])
    BY <2>4
  <2>6. i \in least
    BY <1>6, <2>4, <2>5
  <2>7. least \in SUBSET Nat /\ least # {}
    BY <1>6, <1>7, <2>6
  <2> HIDE DEF least
  <2>8. FirstOf(least) \in least
    BY <2>7, FirstOfIn
  <2>9. QED
    BY <1>6, <2>8 DEF least
<1>10. Cheapest(ps) = path(FirstOf(least))
  BY <1>6, <1>9 DEF Cheapest
<1> DEFINE c == FirstOf(least)
           b == having[c]
           i == FirstOf(good(b))
           p == KSP(b, t)[i]
<1> HIDE DEF least
<1>11. b \in ToSet(nodes) \cap Bridges /\ i \in DOMAIN KSP(b, t) /\ ~Touches(b, p)
  BY <1>3, <1>5, <1>9 DEF VerifyBridgePath
<1>12. LoadPath(p)
  BY <1>1, <1>10
<1> HIDE DEF b, i
<1>13. \A j \in DOMAIN p : p[j][2] # b => p[j][2] \notin ToSet(nodes)
  <2> DEFINE r == p
  <2>1. ~Touches(b, r)
    BY <1>11
  <2> HIDE DEF r
  <2>2. \A j \in DOMAIN r : r[j][2] # b => ~Contains(nodes, r[j][2])
    BY <2>1 DEF Touches, InSmt
  <2>3. \A x : x \in ToSet(nodes) => Contains(nodes, x)
    BY DEF Contains, ToSet
  <2>4. QED
    BY <2>2, <2>3 DEF r
<1>14. QED
  BY <1>11, <1>12, <1>13 DEF t

\* A list of links in which a node has its one link and no other.
LEMMA SameLocal ==
  ASSUME NEW ls \in Seq(AllLinks), NEW ks \in Seq(AllLinks), Once(ks), NEW n,
         Hangs(n, ls), LocalLinks(ls, n)[1] \in ToSet(ks),
         \A k \in ToSet(ks) : k[1] = n => k = LocalLinks(ls, n)[1]
  PROVE  LocalLinks(ks, n) = LocalLinks(ls, n)
<1> DEFINE p == LocalLinks(ls, n)
           q == LocalLinks(ks, n)
           l == p[1]
<1>1. p \in Seq(AllLinks) /\ Len(p) = 1 /\ l[1] = n
  BY LocalElements DEF Hangs
<1>2. q \in Seq(AllLinks) /\ Once(q) /\ ToSet(q) = {k \in ToSet(ks) : k[1] = n}
  BY LocalElements
<1> HIDE DEF p, q
<1>3. ToSet(q) = {l}
  BY <1>1, <1>2 DEF p
<1>4. Len(q) = 1
  BY <1>2, <1>3, OnceLength, FS_Singleton
<1>5. q[1] = l
  <2>1. 1 \in DOMAIN q
    BY <1>2, <1>4
  <2>2. q[1] \in ToSet(q)
    BY <2>1 DEF ToSet
  <2>3. QED
    BY <1>3, <2>2
<1>6. q = p
  BY <1>1, <1>2, <1>4, <1>5
<1>7. QED
  BY <1>6 DEF p, q

LEMMA BridgeStep ==
  ASSUME Inv, Bridge
  PROVE  Inv' /\ Progresses /\ (LoopFree => KeepsOthers)
<1> DEFINE t == order[At + 1]
           N == ToSet(nodes)
           L == ToSet(links)
<1>1. /\ pc = "bridge" /\ At < Len(order) /\ order' = order /\ current' = t
      /\ reentry' = MAX_REENTRY_NUM /\ Chosen /\ Chosen' /\ Terminals' = Terminals
      /\ LoopFree' <=> LoopFree
      /\ InOrder(order, Terminals) /\ InOrder(order, Terminals)'
      /\ nodes \in Seq(Nodes) /\ links \in Seq(AllLinks)
      /\ pc' \in {"finalize", "bridge"}
  BY DEF Bridge, Inv, input, Chosen, Terminals, LoopFree
<1>2. At \in 2..Len(order) /\ Len(order) \in Nat /\ order[At] = current
  BY <1>1, BridgingAt
<1>3. At + 1 \in 2..Len(order) /\ At + 1 \in 1..Len(order)
  BY <1>1, <1>2
<1>4. At' = At + 1
  <2>1. /\ InOrder(order', Terminals') /\ At + 1 \in 1..Len(order')
        /\ order'[At + 1] = current'
    BY <1>1, <1>3
  <2>2. /\ At + 1 \in DOMAIN order'
        /\ \A j \in DOMAIN order' : order'[j] = current' => j = At + 1
    BY <2>1 DEF InOrder, Once
  <2>3. QED
    BY <2>2 DEF At
<1>5. Progresses
  BY <1>2, <1>4 DEF Progresses
<1>6. Bridging'
  BY <1>1, <1>3 DEF Bridging, MAX_REENTRY_NUM
<1>7. PICK b \in N \cap Bridges :
        \E i \in DOMAIN KSP(b, t) :
          /\ LoadPath(KSP(b, t)[i])
          /\ \A j \in DOMAIN KSP(b, t)[i] :
               KSP(b, t)[i][j][2] # b => KSP(b, t)[i][j][2] \notin N
  BY BridgedPath
<1>8. PICK i \in DOMAIN KSP(b, t) :
        /\ LoadPath(KSP(b, t)[i])
        /\ \A j \in DOMAIN KSP(b, t)[i] :
             KSP(b, t)[i][j][2] # b => KSP(b, t)[i][j][2] \notin N
  BY <1>7
<1>9. t \in Terminals /\ b \in Nodes
  BY <1>1, <1>3, <1>8, TerminalsAreNodes DEF InOrder
<1> DEFINE p == KSP(b, t)[i]
           m == Len(p)
<1>10. p \in Seq(AllLinks) /\ Joined(p) /\ IsWalk(p, b, t) /\ (LoopFree => IsLoopFree(p))
  BY <1>1, <1>8, <1>9, FoundPaths
<1>11. LoadPath(p) /\ \A j \in DOMAIN p : p[j][2] # b => p[j][2] \notin N
  BY <1>8
<1> HIDE DEF p, t
<1>12. links' = LoadedLinks(links, p)[m] /\ nodes' = LoadedNodes(nodes, p)[m]
  BY <1>11 DEF LoadPath
<1>13. p[1][1] = b /\ b \in N
  BY <1>8, <1>10 DEF IsWalk
<1>14. /\ links' \in Seq(AllLinks) /\ ToSet(links') = L \cup Ways(p, m)
       /\ nodes' \in Seq(Nodes) /\ ToSet(nodes') = N \cup {p[1][1]} \cup Ends(p, m)
       /\ Once(links) => Once(links')
       /\ Once(nodes) => Once(nodes')
  <2>1. p # <<>> /\ \A j \in 1..Len(p) - 1 : p[j][2] = p[j + 1][1]
    BY <1>10 DEF Joined
  <2>2. QED
    BY <1>1, <1>10, <1>12, <2>1, LoadedElements
<1>15. ToSet(nodes') = N \cup Ends(p, m)
  BY <1>13, <1>14
<1>16. nodes # <<>>
  BY <1>13 DEF ToSet
<1>17. ASSUME LoopFree
       PROVE  /\ Shaped /\ Seeded
              /\ \A j \in DOMAIN p : p[j][2] \notin N
              /\ \A k \in Ways(p, m) : k[1] = b \/ k[1] \notin N
  <2>1. Shaped /\ Seeded
    BY <1>1, <1>16, <1>17 DEF Inv
  <2>2. \A j \in DOMAIN p : p[j][2] \notin N
    BY <1>10, <1>11, <1>13, <1>17 DEF IsLoopFree
  <2>3. m \in Nat /\ DOMAIN p = 1..m
    BY <1>10
  <2>4. ASSUME NEW k \in Ways(p, m)
        PROVE  k[1] = b \/ k[1] \notin N
    <3>1. CASE \E j \in 1..m : k = p[j]
      <4>1. PICK j \in 1..m : k = p[j]
        BY <3>1
      <4>2. j # 1 => j - 1 \in 1..m /\ p[j][1] = p[j - 1][2]
        BY <1>10, PathSteps
      <4>3. QED
        BY <1>13, <2>2, <2>3, <4>1, <4>2
    <3>2. CASE \E j \in 1..m : k = Opposite(p[j])
      <4>1. PICK j \in 1..m : k = Opposite(p[j])
        BY <3>2
      <4>2. p[j] \in AllLinks
        BY <1>10, <2>3
      <4>3. k[1] = p[j][2]
        BY <4>1, <4>2, Pairs
      <4>4. QED
        BY <2>2, <2>3, <4>3
    <3>3. QED
      BY <3>1, <3>2 DEF Ways
  <2>5. QED
    BY <2>1, <2>2, <2>4
<1>18. ASSUME LoopFree
       PROVE  Shaped'
  <2>1. TreeOf(N \cup Ends(p, m), L \cup Ways(p, m))
    BY <1>10, <1>13, <1>17, <1>18, GrowTree DEF Shaped
  <2>2. QED
    BY <1>14, <1>15, <1>17, <1>18, <2>1 DEF Shaped
<1>19. b \notin Terminals
  BY <1>1, <1>8, TerminalsAreNodes
<1>20. ASSUME LoopFree
       PROVE  Seeded'
  <2>1. 1 \in 1..Len(order) /\ 2 \in 1..Len(order)
    BY <1>2
  <2>2. order[1] \in Terminals /\ order[2] \in Terminals
    BY <1>1, <2>1 DEF InOrder
  <2> DEFINE a == order[1]
             z == order[2]
  <2>3. Core(a, z, N, L) /\ a \in N /\ z \in N
    BY <1>17, <1>20 DEF Seeded, Core
  <2> HIDE DEF a, z
  <2>4. \A k \in (L \cup Ways(p, m)) \ L : k[1] \notin {a, z}
    BY <1>17, <1>19, <1>20, <2>2, <2>3 DEF a, z
  <2>5. Core(a, z, N \cup Ends(p, m), L \cup Ways(p, m))
    <3> DEFINE M == N \cup Ends(p, m)
               J == L \cup Ways(p, m)
    <3>1. N \subseteq M /\ L \subseteq J
      OBVIOUS
    <3>2. \A k \in J \ L : k[1] \notin {a, z}
      BY <2>4
    <3> HIDE DEF M, J
    <3>3. Core(a, z, M, J)
      BY <2>3, <3>1, <3>2, CoreGrows
    <3>4. QED
      BY <3>3 DEF M, J
  <2>6. QED
    BY <1>1, <1>14, <1>15, <2>5 DEF Seeded, a, z
<1>21. Inv'
  BY <1>1, <1>6, <1>14, <1>18, <1>20 DEF Inv
<1>22. ASSUME LoopFree
       PROVE  KeepsOthers
  <2> SUFFICES ASSUME NEW j \in 1..At - 2, Hangs(order[j], links)
               PROVE  LocalLinks(links, order[j]) = LocalLinks(links', order[j])
    BY DEF KeepsOthers
  <2> DEFINE n == order[j]
             l == LocalLinks(links, n)[1]
  <2>1. n \in Terminals
    <3>1. j \in 1..Len(order)
      BY <1>2
    <3>2. QED
      BY <1>1, <3>1 DEF InOrder
  <2>2. /\ l \in L /\ l[1] = n /\ \A k \in L : k[1] = n => k = l
    BY <1>1, LocalElements DEF Hangs
  <2>3. n \in N
    BY <1>17, <1>22, <2>2 DEF Shaped, TreeOf
  <2>4. \A k \in ToSet(links') : k[1] = n => k = l
    BY <1>14, <1>17, <1>19, <1>22, <2>1, <2>2, <2>3
  <2>5. Once(links') /\ l \in ToSet(links')
    BY <1>14, <1>18, <1>22, <2>2 DEF Shaped
  <2>6. QED
    BY <1>1, <1>14, <2>4, <2>5, SameLocal
<1>23. QED
  BY <1>5, <1>21, <1>22

\* What a crankback leaves of the topology.
Left ==
  LET first == BackoffFromTerminal(order[At], nodes, links)
      second == BackoffFromTerminal(order[At - 1], first.nodes, first.links)
  IN CASE BackoffCount = 0 -> [nodes |-> nodes, links |-> links]
       [] BackoffCount = 1 -> first
       [] OTHER -> second

LEMMA LeftOfTree ==
  ASSUME Inv, pc = "bridge"
  PROVE  /\ Left.nodes \in Seq(Nodes) /\ Left.links \in Seq(AllLinks)
         /\ LoopFree /\ nodes # <<>> =>
              /\ Once(Left.nodes) /\ Once(Left.links)
              /\ TreeOf(ToSet(Left.nodes), ToSet(Left.links))
              /\ Core(order[1], order[2], ToSet(Left.nodes), ToSet(Left.links))
              /\ \A j \in 1..At - 2 : \A l :
                   Only(l, ToSet(links)) /\ l[1] = order[j] => Only(l, ToSet(Left.links))
<1> DEFINE u == order[At]
           v == order[At - 1]
           a == order[1]
           z == order[2]
           first == BackoffFromTerminal(u, nodes, links)
           second == BackoffFromTerminal(v, first.nodes, first.links)
<1>1. At \in 2..Len(order) /\ Len(order) \in Nat
  BY BridgingAt
<1>2. InOrder(order, Terminals) /\ Chosen /\ nodes \in Seq(Nodes) /\ links \in Seq(AllLinks)
  BY DEF Inv
<1>3. At \in 1..Len(order) /\ At - 1 \in 1..Len(order) /\ 1 \in 1..Len(order) /\ 2 \in 1..Len(order)
  BY <1>1
<1>4. \A i, j \in 1..Len(order) : /\ order[i] \in Nodes
                                  /\ order[i] = order[j] => i = j
  BY <1>2, TerminalsAreNodes DEF InOrder, Once
<1>5. u \in Nodes /\ v \in Nodes /\ a # z
  BY <1>3, <1>4
<1>6. At >= 3 => u \notin {a, z}
  BY <1>1, <1>3, <1>4
<1>7. At >= 4 => v \notin {a, z}
  BY <1>1, <1>3, <1>4
<1>8. \A j \in 1..At - 2 : order[j] # u /\ order[j] # v
  <2>1. \A j \in 1..At - 2 : j \in 1..Len(order) /\ j # At /\ j # At - 1
    BY <1>1
  <2>2. QED
    BY <1>3, <1>4, <2>1
<1>9. /\ At = 2 => BackoffCount = 0
      /\ At = 3 => BackoffCount = 1
      /\ At >= 4 => BackoffCount # 0 /\ BackoffCount # 1
  <2>1. /\ At - 1 < 2 <=> At = 2
        /\ At - 1 = 2 <=> At = 3
    BY <1>1
  <2>2. QED
    BY <1>1, <2>1 DEF BackoffCount, BACKOFF_NUM
<1>10. Left = IF At = 2 THEN [nodes |-> nodes, links |-> links] ELSE IF At = 3 THEN first ELSE second
  <2>1. At = 2 \/ At = 3 \/ At >= 4
    BY <1>1
  <2>2. QED
    BY <1>9, <2>1 DEF Left
<1> HIDE DEF u, v, first, second
<1>11. first \in States
  BY <1>2, <1>5, BackoffType DEF first
<1>12. second \in States
  <2>1. first.nodes \in Seq(Nodes) /\ first.links \in Seq(AllLinks)
    BY <1>11 DEF States
  <2>2. QED
    BY <1>5, <2>1, BackoffType DEF second
<1>13. Left.nodes \in Seq(Nodes) /\ Left.links \in Seq(AllLinks)
  BY <1>2, <1>10, <1>11, <1>12 DEF States
<1>14. ASSUME LoopFree, nodes # <<>>
       PROVE  /\ Once(Left.nodes) /\ Once(Left.links)
              /\ TreeOf(ToSet(Left.nodes), ToSet(Left.links))
              /\ Core(a, z, ToSet(Left.nodes), ToSet(Left.links))
              /\ \A j \in 1..At - 2 : \A l :
                   Only(l, ToSet(links)) /\ l[1] = order[j] => Only(l, ToSet(Left.links))
  <2>1. /\ Once(nodes) /\ Once(links) /\ TreeOf(ToSet(nodes), ToSet(links))
        /\ Core(a, z, ToSet(nodes), ToSet(links))
    BY <1>14 DEF Inv, Shaped, Seeded
  <2> HIDE DEF a, z
  <2>2. CASE At = 2
    <3>1. Left.nodes = nodes /\ Left.links = links
      BY <1>10, <2>2
    <3>2. QED
      BY <2>1, <3>1
  <2>3. ASSUME At >= 3
        PROVE  /\ Grown(first, a, z)
               /\ \A l : Only(l, ToSet(links)) /\ l[1] # u => Only(l, ToSet(first.links))
    <3>1. u \notin {a, z}
      BY <1>6, <2>3
    <3> DEFINE s == [at |-> u, nodes |-> nodes, links |-> links]
    <3>2. s \in States /\ s.nodes = nodes /\ s.links = links
      BY <1>2, <1>5 DEF States
    <3>3. Grown(s, a, z)
      BY <2>1, <3>2 DEF Grown
    <3>4. QED
      BY <1>5, <3>1, <3>3, BackoffKeeps DEF first
  <2>4. CASE At = 3
    <3>1. Left = first
      BY <1>10, <2>4
    <3>2. Grown(first, a, z)
          /\ \A l : Only(l, ToSet(links)) /\ l[1] # u => Only(l, ToSet(first.links))
      BY <2>3, <2>4
    <3>3. QED
      BY <1>8, <3>1, <3>2 DEF Grown
  <2>5. CASE At >= 4
    <3>1. Left = second
      BY <1>10, <2>5
    <3>2. Grown(first, a, z)
          /\ \A l : Only(l, ToSet(links)) /\ l[1] # u => Only(l, ToSet(first.links))
      BY <1>1, <2>3, <2>5
    <3>3. v \notin {a, z}
      BY <1>7, <2>5
    <3> DEFINE s == [at |-> v, nodes |-> first.nodes, links |-> first.links]
    <3>4. s \in States /\ s.nodes = first.nodes /\ s.links = first.links
      BY <1>5, <1>11 DEF States
    <3>5. Grown(s, a, z)
      BY <3>2, <3>4 DEF Grown
    <3>6. /\ Grown(second, a, z)
          /\ \A l : Only(l, ToSet(first.links)) /\ l[1] # v => Only(l, ToSet(second.links))
      BY <1>5, <3>3, <3>5, BackoffKeeps DEF second
    <3>7. QED
      BY <1>8, <3>1, <3>2, <3>6 DEF Grown
  <2>6. At = 2 \/ At = 3 \/ At >= 4
    BY <1>1
  <2>7. QED
    BY <2>2, <2>4, <2>5, <2>6
<1>15. QED
  BY <1>13, <1>14

LEMMA BackoffStep ==
  ASSUME Inv, BackoffAndDisturb
  PROVE  Inv' /\ Progresses /\ (LoopFree => KeepsOthers)
<1>1. /\ pc = "bridge" /\ BridgeNodes # <<>> /\ At < Len(order)
      /\ Chosen /\ Chosen' /\ Terminals' = Terminals /\ (LoopFree' <=> LoopFree)
      /\ InOrder(order, Terminals) /\ nodes \in Seq(Nodes) /\ links \in Seq(AllLinks)
      /\ \/ pc' = "crashed" /\ UNCHANGED <<smt, progress>>
         \/ /\ nodes' = Left.nodes /\ links' = Left.links
            /\ order' = NextToEnd /\ reentry' = reentry - 1 /\ current' = current
            /\ pc' = IF reentry' = 0 THEN "failed" ELSE "bridge"
  BY DEF BackoffAndDisturb, NoWay, Inv, input, Chosen, Terminals, LoopFree, Left
<1>2. CASE pc' = "crashed" /\ UNCHANGED <<smt, progress>>
  <2>1. /\ nodes' = nodes /\ links' = links /\ order' = order
    BY <1>2 DEF smt, progress
  <2>2. Inv'
    BY <1>1, <1>2, <2>1 DEF Inv, Shaped
  <2>3. Progresses
    BY <1>2 DEF Progresses
  <2>4. KeepsOthers
    BY <2>1 DEF KeepsOthers
  <2>5. QED
    BY <2>2, <2>3, <2>4
<1>3. CASE /\ nodes' = Left.nodes /\ links' = Left.links
           /\ order' = NextToEnd /\ reentry' = reentry - 1 /\ current' = current
           /\ pc' = IF reentry' = 0 THEN "failed" ELSE "bridge"
  <2>1. At \in 2..Len(order) /\ Len(order) \in Nat /\ order[At] = current
    BY <1>1, BridgingAt
  <2>2. /\ Left.nodes \in Seq(Nodes) /\ Left.links \in Seq(AllLinks)
        /\ LoopFree /\ nodes # <<>> =>
             /\ Once(Left.nodes) /\ Once(Left.links)
             /\ TreeOf(ToSet(Left.nodes), ToSet(Left.links))
             /\ Core(order[1], order[2], ToSet(Left.nodes), ToSet(Left.links))
             /\ \A j \in 1..At - 2 : \A l :
                  Only(l, ToSet(links)) /\ l[1] = order[j] => Only(l, ToSet(Left.links))
    BY <1>1, LeftOfTree
  <2>3. nodes # <<>>
    <3>1. ToSet(BridgeNodes) \subseteq ToSet(nodes) /\ BridgeNodes \in Seq(Nodes)
      BY <1>1, SieveElements DEF BridgeNodes
    <3>2. BridgeNodes[1] \in ToSet(BridgeNodes)
      BY <1>1, <3>1 DEF ToSet
    <3>3. QED
      BY <3>1, <3>2 DEF ToSet
  <2>4. /\ InOrder(order', Terminals) /\ Len(order') = Len(order)
        /\ \A j \in 1..At : order'[j] = order[j]
    <3>1. At \in 1..Len(order) - 1
      BY <1>1, <2>1
    <3>2. order' = Append(Sieve(order, Terminals \ {order[At + 1]}), order[At + 1])
      BY <1>3 DEF NextToEnd
    <3> DEFINE i == At
    <3>3. /\ i \in 1..Len(order) - 1 /\ InOrder(order, Terminals)
          /\ order' = Append(Sieve(order, Terminals \ {order[i + 1]}), order[i + 1])
      BY <1>1, <3>1, <3>2
    <3> HIDE DEF i
    <3>4. /\ InOrder(order', Terminals) /\ Len(order') = Len(order)
          /\ \A j \in 1..i : order'[j] = order[j]
      BY <3>3, MovedToEnd
    <3>5. QED
      BY <3>4 DEF i
  <2>5. /\ order'[1] = order[1] /\ order'[2] = order[2] /\ order'[At] = current
        /\ At \in 2..Len(order') /\ At \in 1..Len(order')
    BY <1>3, <2>1, <2>4
  <2>6. At' = At
    <3> DEFINE i == At
    <3>1. i \in 1..Len(order') /\ order'[i] = current'
      BY <1>3, <2>5
    <3> HIDE DEF i
    <3>2. i \in DOMAIN order' /\ \A j \in DOMAIN order' : order'[j] = current' => j = i
      BY <2>4, <3>1 DEF InOrder, Once
    <3>3. At' = i
      BY <3>2 DEF At
    <3>4. QED
      BY <3>3 DEF i
  <2>7. reentry \in 1..MAX_REENTRY_NUM
    BY <1>1 DEF Inv, Bridging
  <2>8. pc' = "bridge" => reentry' \in 1..MAX_REENTRY_NUM /\ reentry' < reentry /\ reentry' > 0
    BY <1>3, <2>7 DEF MAX_REENTRY_NUM
  <2>9. Progresses
    BY <2>6, <2>8 DEF Progresses
  <2>10. pc' = "bridge" => Bridging'
    BY <1>3, <2>5, <2>8 DEF Bridging
  <2>11. ASSUME LoopFree
         PROVE  Shaped' /\ Seeded'
    BY <1>3, <2>2, <2>3, <2>5, <2>11 DEF Shaped, Seeded
  <2>12. Inv'
    BY <1>1, <1>3, <2>2, <2>4, <2>10, <2>11 DEF Inv
  <2>13. ASSUME LoopFree
         PROVE  KeepsOthers
    <3> SUFFICES ASSUME NEW j \in 1..At - 2, Hangs(order[j], links)
                 PROVE  LocalLinks(links, order[j]) = LocalLinks(links', order[j])
      BY DEF KeepsOthers
    <3> DEFINE n == order[j]
               l == LocalLinks(links, n)[1]
    <3>1. l[1] = n /\ Only(l, ToSet(links))
      BY <1>1, LocalElements DEF Hangs, Only
    <3>2. Only(l, ToSet(links'))
      BY <1>3, <2>2, <2>3, <2>13, <3>1
    <3>3. l \in ToSet(links') /\ \A k \in ToSet(links') : k[1] = n => k = l
      BY <3>1, <3>2 DEF Only
    <3>4. links' \in Seq(AllLinks) /\ Once(links')
      BY <1>3, <2>2, <2>3, <2>13
    <3>5. QED
      BY <1>1, <3>3, <3>4, SameLocal
  <2>14. QED
    BY <2>9, <2>12, <2>13
<1>4. QED
  BY <1>1, <1>2, <1>3

LEMMA OtherSteps ==
  ASSUME Inv, Next, ~SeedBridgeWithLPH, ~Bridge, ~BackoffAndDisturb
  PROVE  /\ Inv'
         /\ pc = "bridge" => pc' # "bridge"
         /\ links' = links /\ order' = order /\ current' = current
<1>1. /\ UNCHANGED <<input, progress, smt>>
      /\ pc' \notin {"prestage", "bridge"} \/ pc' = pc
      /\ pc = "bridge" => pc' # "bridge"
  BY DEF Next, Disconnected, NoBridgeNodes, NoMoreTerminal, SearchThrows, NothingLeftToDisturb,
         Finalize, Suggest, Suggested, Return, Stopped, Fail, NoWay, vars, final
<1>2. /\ graph' = graph /\ routes' = routes /\ request' = request /\ order' = order
      /\ current' = current /\ reentry' = reentry /\ nodes' = nodes /\ links' = links
  BY <1>1 DEF input, progress, smt
<1>3. QED
  BY <1>1, <1>2 DEF Inv, Chosen, Terminals, Fresh, Bridging, Shaped, Seeded, LoopFree

LEMMA StepInv == Inv /\ [Next]_vars => Inv'
<1> SUFFICES ASSUME Inv, [Next]_vars PROVE Inv'
  OBVIOUS
<1>1. CASE UNCHANGED vars
  BY <1>1 DEF vars, input, progress, smt, Inv, Chosen, Terminals, Fresh, Bridging, Shaped,
              Seeded, LoopFree
<1>2. CASE SeedBridgeWithLPH
  BY <1>2, SeedStep
<1>3. CASE Bridge
  BY <1>3, BridgeStep
<1>4. CASE BackoffAndDisturb
  BY <1>4, BackoffStep
<1>5. CASE Next /\ ~SeedBridgeWithLPH /\ ~Bridge /\ ~BackoffAndDisturb
  BY <1>5, OtherSteps
<1>6. QED
  BY <1>1, <1>2, <1>3, <1>4, <1>5

(* As long as the search finds loop-free paths, the service topology is a  *)
(* tree: LoadPath, Bridge and BackoffFromTerminal of mpvb_actions.cc.      *)
THEOREM TopologyIsTree == Spec => []IsTree
<1>1. Inv => IsTree
  <2> SUFFICES ASSUME Inv, LoopFree, nodes # <<>>
               PROVE  Tree
    BY DEF IsTree
  <2>1. Once(nodes) /\ Once(links) /\ TreeOf(ToSet(nodes), ToSet(links))
    BY DEF Inv, Shaped
  <2>2. nodes \in Seq(Nodes) /\ links \in Seq(AllLinks)
    BY DEF Inv
  <2>3. Range(nodes) = ToSet(nodes) /\ Range(links) = ToSet(links)
    BY DEF Range, ToSet
  <2>4. IsInjective(nodes) /\ IsInjective(links)
    BY <2>1 DEF IsInjective, Once
  <2>5. nodes[1] \in ToSet(nodes)
    BY <2>2 DEF ToSet
  <2>6. LeadsToAll(nodes[1], Range(nodes), Range(links))
    BY <2>1, <2>3, <2>5 DEF LeadsToAll, TreeOf, Closed
  <2>7. Len(links) = 2 * (Len(nodes) - 1)
    BY <2>1, <2>2, OnceLength DEF TreeOf
  <2>8. QED
    BY <2>1, <2>3, <2>4, <2>6, <2>7 DEF Tree, TreeOf
<1>2. QED
  BY <1>1, InitInv, StepInv, PTL DEF Spec

(* Bridging and cranking back come to an end, and a crankback keeps the    *)
(* terminals before the last two: BackoffAndDisturb of mpvb_actions.cc.    *)
THEOREM CrankbacksEnd == Spec => CrankbackEnds
<1>1. Inv /\ [Next]_vars => [pc = "bridge" => Progresses /\ (LoopFree => KeepsOthers)]_vars
  <2> SUFFICES ASSUME Inv, Next, pc = "bridge"
               PROVE  Progresses /\ (LoopFree => KeepsOthers)
    OBVIOUS
  <2>1. CASE Bridge
    BY <2>1, BridgeStep
  <2>2. CASE BackoffAndDisturb
    BY <2>2, BackoffStep
  <2>3. CASE ~SeedBridgeWithLPH /\ ~Bridge /\ ~BackoffAndDisturb
    BY <2>3, OtherSteps DEF Progresses, KeepsOthers
  <2>4. ~SeedBridgeWithLPH
    BY DEF SeedBridgeWithLPH
  <2>5. QED
    BY <2>1, <2>2, <2>3, <2>4
<1>2. QED
  BY <1>1, InitInv, StepInv, PTL DEF Spec, CrankbackEnds

-----------------------------------------------------------------------------
(* The path search of ComputeKSP, for every topology, source, destination and K. *)

\* The least number of a function is at some place, and first at one of them.
LEMMA FirstLeastPlace ==
  ASSUME NEW n \in Nat, n > 0, NEW costs \in [1 .. n -> Nat]
  PROVE  FirstLeast(costs) \in 1 .. n
<1> DEFINE V == {costs[i] : i \in 1 .. n}
<1>1. 1 \in 1 .. n /\ V \in SUBSET Nat /\ V # {}
  OBVIOUS
<1>2. PICK v \in V : \A y \in V : v <= y
  <2> HIDE DEF V
  <2>1. QED
    BY <1>1, LeastNumber
<1> DEFINE I == {i \in 1 .. n : costs[i] = v}
<1>3. I \in SUBSET Nat /\ I # {}
  BY <1>2
<1>4. PICK i \in I : \A j \in I : i <= j
  <2> HIDE DEF I
  <2>1. QED
    BY <1>3, LeastNumber
<1>5. i \in 1 .. n /\ costs[i] = v
  BY <1>4
<1>6. \A j \in 1 .. n : costs[i] <= costs[j]
  BY <1>2, <1>5
<1>7. \A j \in 1 .. i - 1 : costs[j] > costs[i]
  <2> SUFFICES ASSUME NEW j \in 1 .. i - 1
               PROVE  costs[j] > costs[i]
    OBVIOUS
  <2>1. j \in 1 .. n /\ ~(i <= j)
    BY <1>5
  <2>2. j \notin I
    BY <1>4, <2>1
  <2>3. costs[j] # costs[i]
    BY <1>5, <2>1, <2>2
  <2>4. costs[i] <= costs[j] /\ costs[i] \in Nat /\ costs[j] \in Nat
    BY <1>5, <1>6, <2>1
  <2>5. QED
    BY <2>3, <2>4
<1>8. DOMAIN costs = 1 .. n
  OBVIOUS
<1>9. QED
  BY <1>5, <1>6, <1>7, <1>8 DEF FirstLeast

\* The cost of a path is a sum of metrics.
LEMMA CostOfPath ==
  ASSUME metric \in [Linked -> Nat], NEW p \in Seq(Linked)
  PROVE  CalculatePathCost(p) \in Nat
<1> DEFINE m == Len(p)
           step == [n \in 1 .. m |-> [c \in Nat |-> c + metric[p[n]]]]
           Body(f) == [i \in 0 .. m |-> IF i = 0 THEN 0 ELSE f[i - 1] + metric[p[i]]]
           F == CHOOSE f : f = Body(f)
<1>1. m \in Nat /\ \A n \in 1 .. m : metric[p[n]] \in Nat
  OBVIOUS
<1>2. step \in [1 .. m -> [Nat -> Nat]]
  BY <1>1
<1>3. \A n \in 1 .. m, c \in Nat : step[n][c] = c + metric[p[n]]
  OBVIOUS
<1>4. CalculatePathCost(p) = F[m]
  BY DEF CalculatePathCost
<1> HIDE DEF step, m
<1>5. PICK f \in [0 .. m -> Nat] : Recurs(f, 0, step, m)
  BY <1>1, <1>2, Recursion
<1>6. f = Body(f)
  <2>1. \A n \in 0 .. m : n # 0 => n \in 1 .. m /\ n - 1 \in 0 .. m
    BY <1>1
  <2>2. \A n \in 0 .. m : f[n] = IF n = 0 THEN 0 ELSE step[n][f[n - 1]]
    BY <1>5, Zenon DEF Recurs
  <2>3. \A n \in 0 .. m : f[n] = Body(f)[n]
    BY <1>3, <2>1, <2>2
  <2>4. QED
    BY <2>3
<1> HIDE DEF Body
<1>7. F = Body(F)
  BY <1>6
<1> HIDE DEF F
<1> DEFINE G == {n \in 0 .. m : F[n] \in Nat}
<1>8. \A n \in 0 .. m : F[n] = IF n = 0 THEN 0 ELSE F[n - 1] + metric[p[n]]
  BY <1>7, Zenon DEF Body
<1>9. 0 \in G
  <2>1. 0 \in 0 .. m
    BY <1>1
  <2>2. F[0] = 0
    BY <1>8, <2>1, Zenon
  <2>3. QED
    BY <2>1, <2>2
<1>10. ASSUME NEW n \in 1 .. m, n - 1 \in G
       PROVE  n \in G
  <2>1. n \in 0 .. m /\ n # 0
    BY <1>1
  <2>2. F[n] = F[n - 1] + metric[p[n]]
    BY <1>8, <2>1, Zenon
  <2>3. F[n - 1] \in Nat /\ metric[p[n]] \in Nat
    BY <1>1, <1>10
  <2>4. F[n] \in Nat
    BY <2>2, <2>3
  <2>5. QED
    BY <2>1, <2>4
<1> HIDE DEF G
<1>11. \A n \in 0 .. m : n \in G
  BY <1>1, <1>9, <1>10, Climb
<1>12. m \in G
  BY <1>1, <1>11
<1>13. QED
  BY <1>4, <1>12 DEF G

\* The nodes that each hop adds to a path.
LEMMA ExpandedSteps ==
  ASSUME SearchAssumption, NEW p \in Seq(TLinks)
  PROVE  /\ \A n \in 0 .. Len(p) : Expanded(p)[n] \in Seq(TNodes)
         /\ Expanded(p)[0] = <<Src>>
         /\ \A n \in 1 .. Len(p) : Expanded(p)[n] = Expanded(p)[n - 1] \o Hop(p, n)
         /\ \A n \in 1 .. Len(p) : Hop(p, n) \in Seq(TNodes) /\ Hop(p, n) # <<>>
                                   /\ Hop(p, n)[1] = LocalEnd[p[n]]
<1> DEFINE m == Len(p)
           step == [n \in 1 .. m |-> [s \in Seq(TNodes) |-> s \o Hop(p, n)]]
           Body(f) == [i \in 0 .. m |-> IF i = 0 THEN <<Src>> ELSE f[i - 1] \o Hop(p, i)]
<1>1. /\ m \in Nat /\ <<Src>> \in Seq(TNodes)
      /\ \A n \in 1 .. m : p[n] \in TLinks /\ LocalEnd[p[n]] \in TNodes /\ RemoteEnd[p[n]] \in TNodes
  BY SearchAssumption DEF SearchAssumption
<1>2. \A n \in 1 .. m : /\ Hop(p, n) \in Seq(TNodes) /\ Hop(p, n) # <<>>
                        /\ Hop(p, n)[1] = LocalEnd[p[n]]
  BY <1>1 DEF Hop
<1>3. step \in [1 .. m -> [Seq(TNodes) -> Seq(TNodes)]]
  BY <1>2
<1>4. \A n \in 1 .. m, s \in Seq(TNodes) : step[n][s] = s \o Hop(p, n)
  OBVIOUS
<1>5. Expanded(p) = CHOOSE f : f = Body(f)
  BY DEF Expanded
<1> HIDE DEF step, m
<1>6. PICK f \in [0 .. m -> Seq(TNodes)] : Recurs(f, <<Src>>, step, m)
  BY <1>1, <1>3, Recursion
<1>7. f = Body(f)
  <2>1. \A n \in 0 .. m : n # 0 => n \in 1 .. m /\ n - 1 \in 0 .. m
    BY <1>1
  <2>2. \A n \in 0 .. m : f[n] = IF n = 0 THEN <<Src>> ELSE step[n][f[n - 1]]
    BY <1>6, Zenon DEF Recurs
  <2>3. \A n \in 0 .. m : f[n] = Body(f)[n]
    BY <1>4, <2>1, <2>2
  <2>4. QED
    BY <2>3
<1> HIDE DEF Body
<1> DEFINE F == Expanded(p)
<1>8. F = Body(F)
  BY <1>5, <1>7
<1> HIDE DEF F
<1> DEFINE G == {n \in 0 .. m : F[n] \in Seq(TNodes)}
<1>9. \A n \in 0 .. m : F[n] = IF n = 0 THEN <<Src>> ELSE F[n - 1] \o Hop(p, n)
  BY <1>8, Zenon DEF Body
<1>10. 0 \in 0 .. m /\ \A n \in 1 .. m : n \in 0 .. m /\ n # 0
  BY <1>1
<1>11. F[0] = <<Src>>
  BY <1>9, <1>10, Zenon
<1>12. \A n \in 1 .. m : F[n] = F[n - 1] \o Hop(p, n)
  BY <1>9, <1>10, Zenon
<1>13. 0 \in G
  BY <1>1, <1>10, <1>11
<1>14. ASSUME NEW n \in 1 .. m, n - 1 \in G
       PROVE  n \in G
  <2>1. F[n - 1] \in Seq(TNodes) /\ Hop(p, n) \in Seq(TNodes)
    BY <1>2, <1>14
  <2>2. F[n - 1] \o Hop(p, n) \in Seq(TNodes)
    BY <2>1
  <2>3. QED
    BY <1>12, <1>10, <2>2
<1> HIDE DEF G
<1>15. \A n \in 0 .. m : n \in G
  BY <1>1, <1>13, <1>14, Climb
<1>16. QED
  BY <1>2, <1>12, <1>15, <1>11 DEF G, F, m

-----------------------------------------------------------------------------
\* Where the local end of each link of a path is among the nodes: further on for a later link.
Place(p, i) == Len(Expanded(p)[i - 1]) + 1

LEMMA PlacesInOrder ==
  ASSUME SearchAssumption, NEW p \in Seq(TLinks)
  PROVE  /\ \A i \in 1 .. Len(p) :
              /\ Place(p, i) \in DOMAIN ExpandWithRemoteLinks(p)
              /\ ExpandWithRemoteLinks(p)[Place(p, i)] = LocalEnd[p[i]]
         /\ \A i, j \in 1 .. Len(p) : i < j => Place(p, i) < Place(p, j)
<1> DEFINE m == Len(p)
           F == Expanded(p)
           Good(n) == \A i \in 1 .. n : /\ Place(p, i) \in 1 .. Len(F[n])
                                        /\ F[n][Place(p, i)] = LocalEnd[p[i]]
           G == {n \in 0 .. m : Good(n)}
<1>1. /\ m \in Nat /\ \A n \in 0 .. m : F[n] \in Seq(TNodes)
      /\ \A n \in 1 .. m : /\ F[n] = F[n - 1] \o Hop(p, n)
                           /\ Hop(p, n) \in Seq(TNodes) /\ Hop(p, n) # <<>>
                           /\ Hop(p, n)[1] = LocalEnd[p[n]]
  BY ExpandedSteps
<1> HIDE DEF F, m
<1>2. ASSUME NEW n \in 1 .. m
      PROVE  /\ n - 1 \in 0 .. m /\ n \in 0 .. m
             /\ Len(F[n - 1]) \in Nat /\ Len(F[n]) \in Nat
             /\ Len(F[n]) > Len(F[n - 1])
             /\ \A a \in 1 .. Len(F[n - 1]) : F[n][a] = F[n - 1][a]
             /\ F[n][Len(F[n - 1]) + 1] = LocalEnd[p[n]]
  <2> DEFINE s == F[n - 1]
             h == Hop(p, n)
  <2>1. n - 1 \in 0 .. m /\ n \in 0 .. m
    BY <1>1
  <2>2. /\ s \in Seq(TNodes) /\ h \in Seq(TNodes) /\ h # <<>> /\ F[n] = s \o h
        /\ h[1] = LocalEnd[p[n]]
    BY <1>1, <2>1
  <2> HIDE DEF s, h
  <2>3. /\ Len(s) \in Nat /\ Len(h) \in Nat /\ Len(h) > 0 /\ Len(s \o h) = Len(s) + Len(h)
        /\ \A a \in 1 .. Len(s) : (s \o h)[a] = s[a]
        /\ (s \o h)[Len(s) + 1] = h[1]
    BY <2>2
  <2>4. QED
    BY <2>1, <2>2, <2>3 DEF s
<1>3. \A n \in 1 .. m : Place(p, n) = Len(F[n - 1]) + 1
  BY DEF Place, F
<1>4. 0 \in G
  BY <1>1
<1>5. ASSUME NEW n \in 1 .. m, n - 1 \in G
      PROVE  n \in G
  <2>1. \A i \in 1 .. n : i = n \/ i \in 1 .. n - 1
    OBVIOUS
  <2>2. Place(p, n) \in 1 .. Len(F[n]) /\ F[n][Place(p, n)] = LocalEnd[p[n]]
    <3>1. Place(p, n) = Len(F[n - 1]) + 1
      BY <1>3
    <3>2. Len(F[n - 1]) \in Nat /\ Len(F[n]) \in Nat /\ Len(F[n]) > Len(F[n - 1])
      BY <1>2
    <3>3. F[n][Len(F[n - 1]) + 1] = LocalEnd[p[n]]
      BY <1>2
    <3>4. Len(F[n - 1]) + 1 \in 1 .. Len(F[n])
      BY <3>2
    <3>5. QED
      BY <3>1, <3>3, <3>4
  <2>3. \A i \in 1 .. n - 1 : /\ Place(p, i) \in 1 .. Len(F[n - 1])
                              /\ F[n - 1][Place(p, i)] = LocalEnd[p[i]]
    BY <1>5
  <2>4. \A i \in 1 .. n - 1 : /\ Place(p, i) \in 1 .. Len(F[n])
                              /\ F[n][Place(p, i)] = LocalEnd[p[i]]
    BY <1>2, <2>3
  <2>5. QED
    BY <1>2, <2>1, <2>2, <2>4
<1>6. \A n \in 0 .. m : Good(n)
  <2> HIDE DEF Good
  <2>1. \A n \in 1 .. m : n - 1 \in G => n \in G
    BY <1>5
  <2> HIDE DEF G
  <2>2. \A n \in 0 .. m : n \in G
    BY <1>1, <1>4, <2>1, Climb
  <2>3. QED
    BY <2>2 DEF G
<1>7. \A i, j \in 1 .. m : i < j => Place(p, i) < Place(p, j)
  <2> SUFFICES ASSUME NEW i \in 1 .. m, NEW j \in 1 .. m, i < j
               PROVE  Place(p, i) < Place(p, j)
    OBVIOUS
  <2>1. j - 1 \in 0 .. m /\ i \in 1 .. j - 1
    BY <1>1
  <2>2. Place(p, i) \in 1 .. Len(F[j - 1])
    BY <1>6, <2>1
  <2>3. Place(p, j) = Len(F[j - 1]) + 1 /\ Len(F[j - 1]) \in Nat
    BY <1>2, <1>3
  <2>4. QED
    BY <2>2, <2>3
<1>8. ASSUME NEW i \in 1 .. m
      PROVE  /\ Place(p, i) \in DOMAIN ExpandWithRemoteLinks(p)
             /\ ExpandWithRemoteLinks(p)[Place(p, i)] = LocalEnd[p[i]]
  <2> DEFINE s == F[m]
  <2>1. m \in 0 .. m
    BY <1>1
  <2>2. s \in Seq(TNodes) /\ Place(p, i) \in 1 .. Len(s) /\ s[Place(p, i)] = LocalEnd[p[i]]
    BY <1>1, <1>6, <2>1
  <2>3. ExpandWithRemoteLinks(p) = Append(s, Dst) /\ Dst \in TNodes
    BY SearchAssumption DEF ExpandWithRemoteLinks, F, m, SearchAssumption
  <2> HIDE DEF s
  <2>4. QED
    BY <2>2, <2>3
<1>9. QED
  BY <1>7, <1>8 DEF m

\* What joins and passes VerifyLoopFree comes to no node twice.
LEMMA VerifiedOnce ==
  ASSUME SearchAssumption, NEW p \in Seq(TLinks), VerifyLoopFree(p),
         \A i \in 1 .. Len(p) - 1 : RemoteEnd[p[i]] = LocalEnd[p[i + 1]],
         NEW i \in 1 .. Len(p), NEW j \in 1 .. Len(p), i < j
  PROVE  LocalEnd[p[i]] # LocalEnd[p[j]]
<1> DEFINE e == ExpandWithRemoteLinks(p)
<1>1. /\ Place(p, i) \in DOMAIN e /\ Place(p, j) \in DOMAIN e
      /\ e[Place(p, i)] = LocalEnd[p[i]] /\ e[Place(p, j)] = LocalEnd[p[j]]
      /\ Place(p, i) < Place(p, j)
  BY PlacesInOrder
<1>2. \A a, b \in DOMAIN e : b >= a + 2 => e[a] # e[b]
  BY DEF VerifyLoopFree
<1>3. i \in Nat /\ j \in Nat /\ Len(p) \in Nat
  OBVIOUS
<1>4. CASE j = i + 1
  <2>1. i \in 1 .. Len(p) - 1 /\ p[i] \in TLinks
    BY <1>3, <1>4
  <2>2. RemoteEnd[p[i]] = LocalEnd[p[j]]
    BY <1>4, <2>1
  <2>3. QED
    BY <2>1, <2>2, SearchAssumption DEF SearchAssumption
<1>5. CASE j > i + 1
  <2>1. i + 1 \in 1 .. Len(p) /\ i < i + 1 /\ i + 1 < j
    BY <1>3, <1>5
  <2>2. Place(p, i) < Place(p, i + 1) /\ Place(p, i + 1) < Place(p, j)
    BY <2>1, PlacesInOrder
  <2>3. \A k \in 1 .. Len(p) : Place(p, k) \in Nat
    <3> TAKE k \in 1 .. Len(p)
    <3>1. k - 1 \in 0 .. Len(p)
      BY <1>3
    <3>2. Expanded(p)[k - 1] \in Seq(TNodes)
      BY <3>1, ExpandedSteps
    <3>3. QED
      BY <3>2 DEF Place
  <2>4. Place(p, j) >= Place(p, i) + 2
    BY <2>1, <2>2, <2>3
  <2> HIDE DEF e
  <2>5. QED
    BY <1>1, <1>2, <2>4
<1>6. QED
  BY <1>3, <1>4, <1>5

-----------------------------------------------------------------------------
\* What a topology is, without the other types.
Graph == Linked \subseteq TLinks /\ metric \in [Linked -> Nat]

\* The links that a search may take from a node, each once.
LEMMA OpenLinksOf ==
  ASSUME SearchAssumption, Graph, NEW n
  PROVE  /\ OpenLinks(n) \in Seq(Linked)
         /\ ToSet(OpenLinks(n)) = {l \in Linked : LocalEnd[l] = n /\ Open(l)}
         /\ Once(OpenLinks(n))
<1> DEFINE S == {l \in Linked : LocalEnd[l] = n}
           T == {l \in Linked : Open(l)}
           g == Sieve(Order, S)
           o == Sieve(g, T)
<1>1. Order \in Seq(TLinks) /\ ToSet(Order) = TLinks /\ Once(Order)
  <2>1. Order \in Seq(TLinks) /\ Range(Order) = TLinks /\ IsInjective(Order)
    BY SearchAssumption DEF SearchAssumption
  <2>2. Once(Order)
    BY <2>1 DEF IsInjective, Once
  <2>3. QED
    BY <2>1, <2>2 DEF Range, ToSet
<1> HIDE DEF S, T
<1>2. g \in Seq(TLinks) /\ ToSet(g) = {l \in TLinks : l \in S} /\ Once(g)
  BY <1>1, SieveElements
<1> HIDE DEF g
<1>3. o \in Seq(TLinks) /\ ToSet(o) = {l \in ToSet(g) : l \in T} /\ Once(o)
  BY <1>2, SieveElements
<1>4. OpenLinks(n) = o
  BY DEF OpenLinks, GetLocalLinks, S, T, g
<1> HIDE DEF o
<1>5. ToSet(o) = {l \in Linked : LocalEnd[l] = n /\ Open(l)}
  BY <1>2, <1>3 DEF S, T, Graph
<1>6. o \in Seq(Linked)
  BY <1>3, <1>5 DEF ToSet
<1>7. QED
  BY <1>3, <1>4, <1>5, <1>6

\* Of the links that lead to a node, some are kept, the first one at least.
LEMMA CheaperOnes ==
  ASSUME SearchAssumption, Graph, NEW s \in Seq(Linked), Once(s), NEW n
  PROVE  /\ Cheaper(s, n) \in Seq(Linked)
         /\ Once(Cheaper(s, n))
         /\ \A l \in ToSet(Cheaper(s, n)) : l \in ToSet(s) /\ RemoteEnd[l] = n
         /\ (\E l \in ToSet(s) : RemoteEnd[l] = n) => Cheaper(s, n) # <<>>
<1> DEFINE S == {l \in Linked : RemoteEnd[l] = n}
           t == Sieve(s, S)
           I == {i \in DOMAIN t : \A j \in 1..i - 1 : metric[t[j]] > metric[t[i]]}
           c == Keep(t, I)
<1>1. t \in Seq(Linked) /\ ToSet(t) = {l \in ToSet(s) : l \in S} /\ Once(t)
  BY SieveElements
<1>2. Cheaper(s, n) = c
  BY DEF Cheaper
<1>3. t # <<>> => 1 \in DOMAIN t \cap I
  BY <1>1
<1>4. ToSet(s) \subseteq Linked
  BY DEF ToSet
<1> HIDE DEF t, I
<1>5. c \in Seq(Linked) /\ ToSet(c) = {t[i] : i \in DOMAIN t \cap I} /\ Once(c)
  BY <1>1, KeepElements
<1> HIDE DEF c
<1>6. \A l \in ToSet(c) : l \in ToSet(s) /\ RemoteEnd[l] = n
  <2>1. {t[i] : i \in DOMAIN t \cap I} \subseteq ToSet(t)
    BY DEF ToSet
  <2>2. QED
    BY <1>1, <1>5, <2>1
<1>7. ASSUME \E l \in ToSet(s) : RemoteEnd[l] = n
      PROVE  c # <<>>
  <2>1. t # <<>>
    <3>1. ToSet(t) # {}
      BY <1>1, <1>4, <1>7
    <3>2. QED
      BY <3>1 DEF ToSet
  <2>2. ToSet(c) # {}
    BY <1>3, <1>5, <2>1
  <2>3. QED
    BY <2>2 DEF ToSet
<1>8. QED
  BY <1>2, <1>5, <1>6, <1>7

\* Without parallel links only one leads from one node to another.
LEMMA OneLeads ==
  ASSUME Graph, Simple, NEW c \in Seq(Linked), Once(c), c # <<>>,
         \A l, k \in ToSet(c) : LocalEnd[l] = LocalEnd[k] /\ RemoteEnd[l] = RemoteEnd[k]
  PROVE  Len(c) = 1
<1>1. Len(c) \in Nat /\ Len(c) # 0 /\ DOMAIN c = 1 .. Len(c)
  OBVIOUS
<1>2. ASSUME Len(c) > 1
      PROVE  FALSE
  <2>1. 1 \in DOMAIN c /\ 2 \in DOMAIN c
    BY <1>1, <1>2
  <2>2. c[1] \in Linked /\ c[2] \in Linked /\ c[1] \in ToSet(c) /\ c[2] \in ToSet(c)
    BY <2>1 DEF ToSet
  <2>3. c[1] = c[2]
    BY <2>2 DEF Simple
  <2>4. QED
    BY <2>1, <2>3 DEF Once
<1>3. QED
  BY <1>1, <1>2

\* The links of a head node that improve the way to a node.
LEMMA ImprovingOnes ==
  ASSUME SearchAssumption, Graph, NEW h
  PROVE  /\ Improving(h) \in Seq(Linked) /\ Once(Improving(h))
         /\ \A l \in ToSet(Improving(h)) :
              /\ l \in Linked /\ LocalEnd[l] = h
              /\ RemoteEnd[l] \notin visitedNodes \cup {h}
              /\ pathCost[RemoteEnd[l]] > pathCost[h] + metric[l]
<1> DEFINE o == OpenLinks(h)
           S == {l \in Linked : /\ RemoteEnd[l] \notin visitedNodes \cup {h}
                                /\ pathCost[RemoteEnd[l]] > pathCost[h] + metric[l]}
<1>1. o \in Seq(Linked) /\ Once(o) /\ ToSet(o) = {l \in Linked : LocalEnd[l] = h /\ Open(l)}
  BY OpenLinksOf
<1>2. Improving(h) = Sieve(o, S)
  BY DEF Improving
<1> HIDE DEF o, S
<1>3. /\ Sieve(o, S) \in Seq(Linked) /\ Once(Sieve(o, S))
      /\ ToSet(Sieve(o, S)) = {l \in ToSet(o) : l \in S}
  BY <1>1, SieveElements
<1>4. QED
  BY <1>1, <1>2, <1>3 DEF S

\* The nodes that links lead to.
LEMMA HeadsOf ==
  ASSUME SearchAssumption, Graph, NEW s \in Seq(Linked)
  PROVE  /\ Heads(s) \in Seq(TNodes)
         /\ \A n \in ToSet(Heads(s)) : \E l \in ToSet(s) : RemoteEnd[l] = n
<1> DEFINE ends == [i \in DOMAIN s |-> RemoteEnd[s[i]]]
           I == {i \in DOMAIN ends : \A j \in 1..i - 1 : ends[j] # ends[i]}
<1>1. ends \in Seq(TNodes) /\ DOMAIN ends = DOMAIN s
  <2>1. \A i \in 1 .. Len(s) : RemoteEnd[s[i]] \in TNodes
    BY SearchAssumption DEF SearchAssumption, Graph
  <2>2. QED
    BY <2>1
<1>2. Heads(s) = Keep(ends, I)
  BY DEF Heads
<1>3. \A i \in DOMAIN ends : ends[i] = RemoteEnd[s[i]] /\ s[i] \in ToSet(s)
  BY DEF ToSet
<1> HIDE DEF ends, I
<1>4. Keep(ends, I) \in Seq(TNodes) /\ ToSet(Keep(ends, I)) = {ends[i] : i \in DOMAIN ends \cap I}
  BY <1>1, KeepElements
<1>5. QED
  BY <1>2, <1>3, <1>4

\* Where a candidate deviates.
LEMMA DeviationPlace ==
  ASSUME NEW p, p.links \in Seq(Linked),
         \E i \in DOMAIN p.links : LocalEnd[p.links[i]] = p.deviation
  PROVE  DeviationIndex(p) \in DOMAIN p.links
<1> DEFINE I == {i \in DOMAIN p.links : LocalEnd[p.links[i]] = p.deviation}
<1>1. I \in SUBSET Nat /\ I # {}
  OBVIOUS
<1>2. PICK i \in I : \A j \in I : i <= j
  <2> HIDE DEF I
  <2>1. QED
    BY <1>1, LeastNumber
<1>3. \A j \in 1 .. i - 1 : j \in DOMAIN p.links /\ ~(i <= j)
  BY <1>2
<1>4. QED
  BY <1>2, <1>3 DEF DeviationIndex

\* Sorting keeps the paths.
LEMMA SortedOnes ==
  ASSUME NEW X, NEW s \in Seq(X), NEW r \in Sorted(s)
  PROVE  r \in Seq(X) /\ ToSet(r) \subseteq ToSet(s)
<1>1. PICK f \in Bijection(DOMAIN s, DOMAIN s) : r = [i \in DOMAIN s |-> s[f[i]]]
  BY DEF Sorted
<1>2. f \in [DOMAIN s -> DOMAIN s]
  BY DEF Bijection, Injection
<1>3. DOMAIN s = 1 .. Len(s) /\ Len(s) \in Nat
  OBVIOUS
<1>4. \A i \in DOMAIN s : f[i] \in DOMAIN s /\ s[f[i]] \in X /\ s[f[i]] \in ToSet(s)
  BY <1>2 DEF ToSet
<1>5. QED
  BY <1>1, <1>3, <1>4 DEF ToSet

-----------------------------------------------------------------------------
\* A search runs from the source, or from where the head path is branched from.
Searching == phase \in {"source", "settle", "found", "failed"}

StartInv ==
  /\ Searching /\ counter = 0 => start = Src
  /\ Searching /\ counter > 0 => /\ spur \in DOMAIN headpath.links
                                 /\ start = LocalEnd[headpath.links[spur]]

\* The path to a node begins where the search does, and does not pass through the
\* destination as long as that is not settled, the path to the destination never.
Avoids(p) == \A i \in DOMAIN p : LocalEnd[p[i]] # Dst

PathInv ==
  phase \in {"settle", "found", "failed"} =>
    \A n \in TNodes : pathTo[n] # <<>> =>
      /\ LocalEnd[pathTo[n][1]] = start
      /\ n = Dst \/ Dst \notin visitedNodes => Avoids(pathTo[n])
      /\ Simple => Leads(pathTo[n], start) /\ RemoteEnd[Last(pathTo[n])] = n

\* To what waits in the queue there is a path.
QueueInv ==
  /\ phase = "settle" => reachable # <<>> /\ \A n \in ToSet(reachable) : pathTo[n] # <<>>
  /\ phase = "found" => pathTo[Dst] # <<>>

\* What a search brings leads from the source to the destination, but may come back to a
\* node; and it passes through its deviation node.
Walk(p) ==
  /\ p # <<>> /\ LocalEnd[p[1]] = Src /\ Avoids(p)
  /\ Simple => Leads(p, Src) /\ RemoteEnd[Last(p)] = Dst

Branchable(p) ==
  Walk(p.links) /\ \E i \in DOMAIN p.links : LocalEnd[p.links[i]] = p.deviation

CandidateInv == \A p \in ToSet(candidates) \cup ToSet(ksp) : Branchable(p)

HeadInv == (Searching \/ phase = "branch") /\ counter > 0 => Branchable(headpath) /\ counter < K

\* A round adds one path at most.
CountInv ==
  /\ Len(ksp) <= counter
  /\ phase = "candidate" => counter > 0 /\ (counter > 1 => Len(ksp) < counter)
  /\ phase = "branch" => counter > 0

SearchInv ==
  /\ SearchTypeOK /\ StartInv /\ PathInv /\ QueueInv
  /\ CandidateInv /\ HeadInv /\ CountInv /\ RoutesOnly

-----------------------------------------------------------------------------
\* What is said of paths does not change with a step.
LEMMA SameGraph ==
  ASSUME metric' = metric
  PROVE  /\ Linked' = Linked /\ (Simple' <=> Simple) /\ Candidate' = Candidate
         /\ \A p : (Walk(p)' <=> Walk(p)) /\ (Branchable(p)' <=> Branchable(p))
<1>1. Linked' = Linked /\ (Simple' <=> Simple)
  BY DEF Linked, Simple
<1>2. \A p : Walk(p)' <=> Walk(p)
  BY <1>1 DEF Walk, Avoids, Leads
<1>3. \A p : Branchable(p)' <=> Branchable(p)
  BY <1>2 DEF Branchable
<1>4. QED
  BY <1>1, <1>2, <1>3 DEF Candidate

LEMMA InfiniteCost == INF \in Nat /\ INF > 1
  BY SMT DEF INF

LEMMA TypedGraph ==
  ASSUME SearchTypeOK
  PROVE  Graph /\ INF \in Nat /\ INF > 1
  BY InfiniteCost DEF SearchTypeOK, Graph

\* A path with one more link.
LEMMA LongerPath ==
  ASSUME NEW p \in Seq(Linked), NEW l \in Linked, p # <<>>
  PROVE  /\ Append(p, l) \in Seq(Linked) /\ Append(p, l) # <<>>
         /\ Append(p, l)[1] = p[1]
         /\ Last(Append(p, l)) = l
         /\ Avoids(p) /\ LocalEnd[l] # Dst => Avoids(Append(p, l))
         /\ \A n : Leads(p, n) /\ RemoteEnd[Last(p)] = LocalEnd[l] => Leads(Append(p, l), n)
<1> DEFINE q == Append(p, l)
           m == Len(p)
<1>1. /\ m \in Nat /\ m > 0 /\ DOMAIN p = 1 .. m
      /\ q \in Seq(Linked) /\ Len(q) = m + 1 /\ DOMAIN q = 1 .. m + 1
      /\ \A i \in 1 .. m : q[i] = p[i]
      /\ q[m + 1] = l /\ Last(p) = p[m] /\ Last(q) = l /\ q # <<>>
  BY DEF Last
<1> HIDE DEF q, m
<1>2. \A i \in 1 .. m + 1 : i \in 1 .. m \/ i = m + 1
  BY <1>1
<1>3. Avoids(p) /\ LocalEnd[l] # Dst => Avoids(q)
  BY <1>1, <1>2 DEF Avoids
<1>4. ASSUME NEW n, Leads(p, n), RemoteEnd[Last(p)] = LocalEnd[l]
      PROVE  Leads(q, n)
  <2>1. q # <<>> /\ LocalEnd[q[1]] = n
    BY <1>1, <1>4 DEF Leads
  <2>2. ASSUME NEW i \in 1 .. (m + 1) - 1
        PROVE  RemoteEnd[q[i]] = LocalEnd[q[i + 1]]
    <3>1. CASE i = m
      BY <1>1, <1>4, <3>1
    <3>2. CASE i # m
      <4>1. i \in 1 .. m - 1 /\ i \in 1 .. m /\ i + 1 \in 1 .. m
        BY <1>1, <3>2
      <4>2. RemoteEnd[p[i]] = LocalEnd[p[i + 1]]
        BY <1>4, <4>1 DEF Leads, m
      <4>3. QED
        BY <1>1, <4>1, <4>2
    <3>3. QED
      BY <3>1, <3>2
  <2>3. QED
    BY <1>1, <2>1, <2>2 DEF Leads
<1>5. 1 \in 1 .. m
  BY <1>1
<1>6. QED
  BY <1>1, <1>3, <1>4, <1>5 DEF q

\* A path that leaves another one at a link k, from its local end.
LEMMA BranchedPath ==
  ASSUME NEW p \in Seq(Linked), NEW k \in DOMAIN p, NEW r \in Seq(Linked), r # <<>>,
         LocalEnd[r[1]] = LocalEnd[p[k]]
  PROVE  LET q == SubSeq(p, 1, k - 1) \o r
         IN /\ q \in Seq(Linked) /\ q # <<>> /\ Last(q) = Last(r)
            /\ k \in DOMAIN q /\ LocalEnd[q[k]] = LocalEnd[p[k]]
            /\ LocalEnd[q[1]] = LocalEnd[p[1]]
            /\ Avoids(p) /\ Avoids(r) => Avoids(q)
            /\ \A n : Leads(p, n) /\ Leads(r, LocalEnd[p[k]]) => Leads(q, n)
<1> DEFINE s == SubSeq(p, 1, k - 1)
           q == s \o r
           m == Len(r)
<1>1. /\ k \in Nat /\ k > 0 /\ k <= Len(p) /\ Len(p) \in Nat /\ DOMAIN p = 1 .. Len(p)
      /\ m \in Nat /\ m > 0 /\ DOMAIN r = 1 .. m
  OBVIOUS
<1>2. s \in Seq(Linked) /\ Len(s) = k - 1 /\ \A i \in 1 .. k - 1 : s[i] = p[i]
  <2>1. \A i \in 1 .. k - 1 : i \in 1 .. Len(p)
    BY <1>1
  <2>2. QED
    BY <1>1, <2>1, SubSeqProperties
<1> HIDE DEF s, m
<1>3. /\ q \in Seq(Linked) /\ Len(q) = (k - 1) + m /\ DOMAIN q = 1 .. (k - 1) + m
      /\ \A i \in 1 .. (k - 1) + m : q[i] = IF i <= k - 1 THEN s[i] ELSE r[i - (k - 1)]
  <2>1. /\ q \in Seq(Linked) /\ Len(q) = Len(s) + Len(r)
        /\ \A i \in 1 .. Len(s) + Len(r) : q[i] = IF i <= Len(s) THEN s[i] ELSE r[i - Len(s)]
    BY <1>2, ConcatProperties
  <2>2. QED
    BY <1>2, <2>1 DEF m
<1> HIDE DEF q
<1>4. \A i \in 1 .. k - 1 : q[i] = p[i] /\ i \in DOMAIN q /\ i \in DOMAIN p
  BY <1>1, <1>2, <1>3
<1>5. \A j \in 1 .. m : q[(k - 1) + j] = r[j] /\ (k - 1) + j \in DOMAIN q
  <2> TAKE j \in 1 .. m
  <2>1. (k - 1) + j \in 1 .. (k - 1) + m /\ ~((k - 1) + j <= k - 1)
    BY <1>1
  <2>2. ((k - 1) + j) - (k - 1) = j
    BY <1>1
  <2>3. QED
    BY <1>3, <2>1, <2>2
<1>6. \A i \in DOMAIN q : i \in 1 .. k - 1 \/ \E j \in 1 .. m : i = (k - 1) + j
  <2> TAKE i \in DOMAIN q
  <2>1. CASE i <= k - 1
    BY <1>1, <1>3, <2>1
  <2>2. CASE i > k - 1
    <3>1. i - (k - 1) \in 1 .. m /\ i = (k - 1) + (i - (k - 1))
      BY <1>1, <1>3, <2>2
    <3>2. QED
      BY <3>1
  <2>3. QED
    BY <1>1, <1>3, <2>1, <2>2
<1>7. q[k] = r[1] /\ k \in DOMAIN q
  <2>1. (k - 1) + 1 = k /\ 1 \in 1 .. m
    BY <1>1
  <2>2. QED
    BY <1>5, <2>1
<1>8. LocalEnd[q[1]] = LocalEnd[p[1]]
  <2>1. CASE k = 1
    BY <1>7, <2>1
  <2>2. CASE k # 1
    <3>1. 1 \in 1 .. k - 1
      BY <1>1, <2>2
    <3>2. QED
      BY <1>4, <3>1
  <2>3. QED
    BY <2>1, <2>2
<1>9. q # <<>> /\ Last(q) = Last(r)
  <2>1. m \in 1 .. m /\ Len(q) = (k - 1) + m /\ Len(q) > 0
    BY <1>1, <1>3
  <2>2. q[Len(q)] = r[Len(r)]
    BY <1>5, <2>1 DEF m
  <2>3. QED
    BY <2>1, <2>2 DEF Last
<1>10. ASSUME Avoids(p), Avoids(r)
       PROVE  Avoids(q)
  <2>1. ASSUME NEW i \in DOMAIN q
        PROVE  LocalEnd[q[i]] # Dst
    <3>1. CASE i \in 1 .. k - 1
      BY <1>4, <1>10, <3>1 DEF Avoids
    <3>2. CASE \E j \in 1 .. m : i = (k - 1) + j
      <4>1. PICK j \in 1 .. m : i = (k - 1) + j
        BY <3>2
      <4>2. q[i] = r[j] /\ j \in DOMAIN r
        BY <1>1, <1>5, <4>1
      <4>3. QED
        BY <1>10, <4>2 DEF Avoids
    <3>3. QED
      BY <1>6, <3>1, <3>2
  <2>2. QED
    BY <2>1 DEF Avoids
<1>11. ASSUME NEW n, Leads(p, n), Leads(r, LocalEnd[p[k]])
       PROVE  Leads(q, n)
  <2>1. ASSUME NEW i \in 1 .. Len(q) - 1
        PROVE  RemoteEnd[q[i]] = LocalEnd[q[i + 1]]
    <3>1. i \in DOMAIN q /\ i \in Nat /\ i > 0
      BY <1>1, <1>3
    <3>2. CASE i \in 1 .. k - 1
      <4>1. i \in 1 .. Len(p) - 1 /\ (i + 1 = k \/ i + 1 \in 1 .. k - 1)
        BY <1>1, <3>1, <3>2
      <4>2. RemoteEnd[p[i]] = LocalEnd[p[i + 1]]
        BY <1>11, <4>1 DEF Leads
      <4>3. LocalEnd[q[i + 1]] = LocalEnd[p[i + 1]]
        BY <1>4, <1>7, <4>1
      <4>4. QED
        BY <1>4, <3>2, <4>2, <4>3
    <3>3. CASE \E j \in 1 .. m : i = (k - 1) + j
      <4>1. PICK j \in 1 .. m : i = (k - 1) + j
        BY <3>3
      <4>2. j \in 1 .. m - 1 /\ j + 1 \in 1 .. m /\ i + 1 = (k - 1) + (j + 1)
        BY <1>1, <1>3, <4>1
      <4>3. RemoteEnd[r[j]] = LocalEnd[r[j + 1]]
        BY <1>11, <4>2 DEF Leads, m
      <4>4. q[i] = r[j] /\ q[i + 1] = r[j + 1]
        BY <1>5, <4>1, <4>2
      <4>5. QED
        BY <4>3, <4>4
    <3>4. QED
      BY <1>6, <3>1, <3>2, <3>3
  <2>2. QED
    BY <1>8, <1>9, <1>11, <2>1 DEF Leads
<1>12. QED
  BY <1>3, <1>7, <1>8, <1>9, <1>10, <1>11 DEF q, s

-----------------------------------------------------------------------------
\* The steps of the search.
LEMMA RelaxSourceStep ==
  ASSUME SearchAssumption, SearchInv, RelaxSource
  PROVE  SearchInv'
<1> DEFINE open == OpenLinks(start)
<1>1. metric' = metric /\ phase = "source" /\ Graph /\ INF \in Nat /\ INF > 1
  BY TypedGraph DEF SearchInv, RelaxSource
<1>2. /\ open \in Seq(Linked) /\ Once(open)
      /\ ToSet(open) = {l \in Linked : LocalEnd[l] = start /\ Open(l)}
  BY <1>1, OpenLinksOf
<1>3. /\ visitedNodes' = {start}
      /\ reachable' = [i \in DOMAIN open |-> RemoteEnd[open[i]]]
      /\ pathTo' = [n \in TNodes |-> Cheaper(open, n)]
      /\ pathCost' = [n \in TNodes |-> IF pathTo'[n] = <<>> THEN INF ELSE metric[Last(pathTo'[n])]]
      /\ phase' = IF open = <<>> THEN "failed" ELSE "settle"
      /\ UNCHANGED <<start, filteroff, paths, spur, result>>
  BY DEF RelaxSource
<1> HIDE DEF open
<1>4. \A n \in TNodes : /\ pathTo'[n] \in Seq(Linked) /\ Once(pathTo'[n])
                        /\ \A l \in ToSet(pathTo'[n]) :
                             l \in Linked /\ LocalEnd[l] = start /\ RemoteEnd[l] = n
                        /\ (\E l \in ToSet(open) : RemoteEnd[l] = n) => pathTo'[n] # <<>>
  BY <1>1, <1>2, <1>3, CheaperOnes
<1>5. \A n \in TNodes : pathTo'[n] # <<>> =>
         /\ 1 \in DOMAIN pathTo'[n] /\ \A i \in DOMAIN pathTo'[n] : pathTo'[n][i] \in ToSet(pathTo'[n])
         /\ Last(pathTo'[n]) \in ToSet(pathTo'[n])
  BY <1>4 DEF Last, ToSet
<1>6. start \in TNodes /\ start # Dst
  <2>1. start \in TNodes /\ Src # Dst /\ counter \in 0 .. K /\ K \in Nat
    BY SearchAssumption DEF SearchInv, SearchTypeOK, SearchAssumption
  <2>2. CASE counter = 0
    BY <1>1, <2>1, <2>2 DEF SearchInv, StartInv, Searching
  <2>3. CASE counter > 0
    BY <1>1, <2>1, <2>3 DEF SearchInv, StartInv, HeadInv, Searching, Branchable, Walk, Avoids
  <2>4. QED
    BY <2>1, <2>2, <2>3
<1>7. SearchTypeOK'
  <2>1. reachable' \in Seq(TNodes)
    <3>1. \A i \in 1 .. Len(open) : RemoteEnd[open[i]] \in TNodes
      BY <1>1, <1>2, SearchAssumption DEF SearchAssumption, Graph
    <3>2. DOMAIN open = 1 .. Len(open) /\ Len(open) \in Nat
      BY <1>2
    <3>3. reachable' = [i \in 1 .. Len(open) |-> RemoteEnd[open[i]]]
      BY <1>3, <3>2
    <3>4. QED
      BY <3>1, <3>2, <3>3
  <2>2. pathTo' \in [TNodes -> Seq(Linked)]
    BY <1>3, <1>4
  <2>3. pathCost' \in [TNodes -> 1 .. INF]
    <3>1. \A n \in TNodes : pathTo'[n] # <<>> => metric[Last(pathTo'[n])] \in 1 .. INF - 1
      BY <1>4, <1>5 DEF SearchInv, SearchTypeOK
    <3>2. \A n \in TNodes : pathTo'[n] # <<>> => metric[Last(pathTo'[n])] \in 1 .. INF
      BY <1>1, <3>1
    <3>3. QED
      BY <1>1, <1>3, <3>2
  <2>4. visitedNodes' \subseteq TNodes /\ phase' \in {"failed", "settle"}
    BY <1>3, <1>6
  <2>5. QED
    BY <1>1, <1>3, <2>1, <2>2, <2>3, <2>4, SameGraph
       DEF SearchInv, SearchTypeOK, filteroff, paths, result
<1>8. StartInv'
  BY <1>1, <1>3 DEF SearchInv, StartInv, Searching, paths
<1>9. PathInv'
  <2> SUFFICES ASSUME NEW n \in TNodes, pathTo'[n] # <<>>
               PROVE  /\ LocalEnd[pathTo'[n][1]] = start
                      /\ Avoids(pathTo'[n])
                      /\ Simple => Leads(pathTo'[n], start) /\ RemoteEnd[Last(pathTo'[n])] = n
    BY <1>1, <1>3, SameGraph DEF PathInv, Leads, Avoids
  <2>1. LocalEnd[pathTo'[n][1]] = start /\ RemoteEnd[Last(pathTo'[n])] = n
    BY <1>4, <1>5
  <2>2. Avoids(pathTo'[n])
    BY <1>4, <1>5, <1>6 DEF Avoids
  <2>3. Simple => Leads(pathTo'[n], start)
    <3> DEFINE c == pathTo'[n]
    <3>1. /\ c \in Seq(Linked) /\ Once(c) /\ c # <<>>
          /\ \A l \in ToSet(c) : LocalEnd[l] = start /\ RemoteEnd[l] = n
      BY <1>4
    <3> HIDE DEF c
    <3>2. \A l, k \in ToSet(c) : LocalEnd[l] = LocalEnd[k] /\ RemoteEnd[l] = RemoteEnd[k]
      BY <3>1
    <3>3. Simple => Len(c) = 1
      BY <1>1, <3>1, <3>2, OneLeads
    <3>4. LocalEnd[c[1]] = start
      BY <2>1 DEF c
    <3>5. Len(c) = 1 => \A a \in 1 .. Len(c) - 1 : RemoteEnd[c[a]] = LocalEnd[c[a + 1]]
      OBVIOUS
    <3>6. Simple => Leads(c, start)
      BY <3>1, <3>3, <3>4, <3>5 DEF Leads
    <3>7. QED
      BY <3>6 DEF c
  <2>4. QED
    BY <2>1, <2>2, <2>3
<1>10. QueueInv'
  <2>1. phase' = "settle" => reachable' # <<>>
    BY <1>2, <1>3
  <2>2. ASSUME NEW n \in ToSet(reachable')
        PROVE  pathTo'[n] # <<>>
    <3>1. PICK i \in DOMAIN open : n = RemoteEnd[open[i]]
      BY <1>3 DEF ToSet
    <3>2. open[i] \in ToSet(open) /\ open[i] \in Linked
      BY <1>2 DEF ToSet
    <3>3. n \in TNodes
      BY <1>1, <3>1, <3>2, SearchAssumption DEF SearchAssumption, Graph
    <3>4. QED
      BY <1>4, <3>1, <3>2, <3>3
  <2>3. phase' # "found"
    BY <1>3
  <2>4. QED
    BY <2>1, <2>2, <2>3 DEF QueueInv
<1>11. CandidateInv' /\ HeadInv' /\ CountInv' /\ RoutesOnly'
  BY <1>1, <1>3, SameGraph
     DEF SearchInv, CandidateInv, HeadInv, CountInv, RoutesOnly, IsRoute, Leads, Searching, paths, result
<1>12. QED
  BY <1>7, <1>8, <1>9, <1>10, <1>11 DEF SearchInv

LEMMA SettleStep ==
  ASSUME SearchAssumption, SearchInv, Settle
  PROVE  SearchInv'
<1> DEFINE costs == [j \in DOMAIN reachable |-> pathCost[reachable[j]]]
           i == FirstLeast(costs)
           h == reachable[i]
           rest == RemoveAt(reachable, i)
           closer == Improving(h)
           new == Sieve(Heads(closer), TNodes \ ToSet(rest))
           better == ToSet(Heads(closer))
           best(n) == Last(Cheaper(closer, n))
<1>1. metric' = metric /\ phase = "settle" /\ Graph /\ INF \in Nat /\ INF > 1
  BY TypedGraph DEF SearchInv, Settle
<1>2. /\ reachable \in Seq(TNodes) /\ reachable # <<>>
      /\ pathCost \in [TNodes -> 1 .. INF] /\ pathTo \in [TNodes -> Seq(Linked)]
      /\ start \in TNodes /\ visitedNodes \subseteq TNodes
      /\ \A n \in ToSet(reachable) : pathTo[n] # <<>>
  BY <1>1 DEF SearchInv, SearchTypeOK, QueueInv
<1>3. i \in DOMAIN reachable
  <2>1. Len(reachable) \in Nat /\ Len(reachable) > 0 /\ costs \in [1 .. Len(reachable) -> Nat]
    <3>1. /\ Len(reachable) \in Nat /\ Len(reachable) > 0
          /\ DOMAIN reachable = 1 .. Len(reachable)
      BY <1>2
    <3>2. \A j \in 1 .. Len(reachable) : reachable[j] \in TNodes
      BY <1>2
    <3>3. \A j \in 1 .. Len(reachable) : pathCost[reachable[j]] \in Nat
      BY <1>1, <1>2, <3>2, SMTT(30)
    <3>4. QED
      BY <3>1, <3>3
  <2> HIDE DEF costs
  <2>2. FirstLeast(costs) \in 1 .. Len(reachable)
    BY <2>1, FirstLeastPlace
  <2>3. QED
    BY <1>2, <2>2
<1>4. /\ visitedNodes' = visitedNodes \cup {h}
      /\ IF IsDestination(h)
         THEN phase' = "found" /\ reachable' = rest /\ pathCost' = pathCost /\ pathTo' = pathTo
         ELSE /\ pathTo' = [n \in TNodes |-> IF n \in better THEN Append(pathTo[h], best(n)) ELSE pathTo[n]]
              /\ pathCost' = [n \in TNodes |-> IF n \in better THEN pathCost[h] + metric[best(n)]
                                                               ELSE pathCost[n]]
              /\ reachable' = rest \o new
              /\ phase' = IF reachable' = <<>> THEN "failed" ELSE "settle"
      /\ UNCHANGED <<start, filteroff, paths, spur, result>>
  BY DEF Settle
<1> HIDE DEF i, costs
<1>5. h \in TNodes /\ h \in ToSet(reachable) /\ pathTo[h] # <<>>
  BY <1>2, <1>3, SMTT(30) DEF ToSet
<1>6. rest \in Seq(TNodes) /\ ToSet(rest) \subseteq ToSet(reachable)
  <2>1. /\ rest \in Seq(TNodes)
        /\ \A a \in DOMAIN rest : \E b \in DOMAIN reachable : rest[a] = reachable[b]
    BY <1>2, <1>3, RemoveAtElements
  <2> HIDE DEF rest
  <2>2. QED
    BY <2>1 DEF ToSet
<1> HIDE DEF h, rest
<1>7. /\ closer \in Seq(Linked) /\ Once(closer)
      /\ \A l \in ToSet(closer) : /\ l \in Linked /\ LocalEnd[l] = h
                                 /\ RemoteEnd[l] \notin visitedNodes \cup {h}
                                 /\ pathCost[RemoteEnd[l]] > pathCost[h] + metric[l]
  BY <1>1, ImprovingOnes
<1> HIDE DEF closer
<1>8. Heads(closer) \in Seq(TNodes) /\ \A n \in better : \E l \in ToSet(closer) : RemoteEnd[l] = n
  BY <1>1, <1>7, HeadsOf
<1>9. new \in Seq(TNodes) /\ ToSet(new) \subseteq better
  BY <1>8, SieveElements
<1> HIDE DEF better, new
<1>10. ASSUME NEW n \in better
       PROVE  /\ best(n) \in Linked /\ LocalEnd[best(n)] = h /\ RemoteEnd[best(n)] = n
              /\ n \notin visitedNodes \cup {h}
              /\ pathCost[n] > pathCost[h] + metric[best(n)]
  <2>1. /\ Cheaper(closer, n) \in Seq(Linked) /\ Cheaper(closer, n) # <<>>
        /\ \A l \in ToSet(Cheaper(closer, n)) : l \in ToSet(closer) /\ RemoteEnd[l] = n
    BY <1>1, <1>7, <1>8, CheaperOnes
  <2>2. Last(Cheaper(closer, n)) \in ToSet(Cheaper(closer, n))
    BY <2>1 DEF Last, ToSet
  <2>3. QED
    BY <1>7, <2>1, <2>2
<1> HIDE DEF best
<1>11. \A n \in better : n \in TNodes
  BY <1>1, <1>10, SearchAssumption DEF SearchAssumption, Graph
<1>12. pathTo' \in [TNodes -> Seq(Linked)] /\ pathCost' \in [TNodes -> 1 .. INF]
  <2>1. CASE IsDestination(h)
    BY <1>2, <1>4, <2>1
  <2>2. CASE ~IsDestination(h)
    <3>1. \A n \in better : Append(pathTo[h], best(n)) \in Seq(Linked)
      BY <1>2, <1>5, <1>10
    <3>2. \A n \in better : pathCost[h] + metric[best(n)] \in 1 .. INF
      <4> TAKE n \in better
      <4>1. metric[best(n)] \in 1 .. INF - 1 /\ pathCost[h] \in 1 .. INF /\ pathCost[n] \in 1 .. INF
        BY <1>2, <1>5, <1>10, <1>11 DEF SearchInv, SearchTypeOK
      <4>2. pathCost[n] > pathCost[h] + metric[best(n)]
        BY <1>10
      <4>3. QED
        BY <1>1, <4>1, <4>2
    <3>3. pathTo' \in [TNodes -> Seq(Linked)]
      <4>1. \A n \in TNodes :
               (IF n \in better THEN Append(pathTo[h], best(n)) ELSE pathTo[n]) \in Seq(Linked)
        BY <1>2, <3>1
      <4>2. pathTo' = [n \in TNodes |-> IF n \in better THEN Append(pathTo[h], best(n)) ELSE pathTo[n]]
        BY <1>4, <2>2
      <4>3. QED
        BY <4>1, <4>2
    <3>4. pathCost' \in [TNodes -> 1 .. INF]
      <4>1. \A n \in TNodes :
               (IF n \in better THEN pathCost[h] + metric[best(n)] ELSE pathCost[n]) \in 1 .. INF
        BY <1>2, <3>2
      <4>2. QED
        BY <1>4, <2>2, <4>1
    <3>5. QED
      BY <3>3, <3>4
  <2>3. QED
    BY <2>1, <2>2
<1>13. SearchTypeOK'
  <2>1. reachable' \in Seq(TNodes)
    <3>1. rest \o new \in Seq(TNodes)
      BY <1>6, <1>9
    <3>2. reachable' = rest \/ reachable' = rest \o new
      BY <1>4
    <3>3. QED
      BY <1>6, <3>1, <3>2
  <2>2. visitedNodes' \subseteq TNodes /\ phase' \in {"found", "failed", "settle"}
    BY <1>2, <1>4, <1>5
  <2>3. QED
    BY <1>1, <1>4, <1>12, <2>1, <2>2, SameGraph
       DEF SearchInv, SearchTypeOK, filteroff, paths, result
<1>14. StartInv'
  BY <1>1, <1>4 DEF SearchInv, StartInv, Searching, paths
<1>15. \A n \in TNodes : pathTo[n] # <<>> =>
          /\ LocalEnd[pathTo[n][1]] = start
          /\ n = Dst \/ Dst \notin visitedNodes => Avoids(pathTo[n])
          /\ Simple => Leads(pathTo[n], start) /\ RemoteEnd[Last(pathTo[n])] = n
  BY <1>1 DEF SearchInv, PathInv
<1>16. PathInv'
  <2> SUFFICES ASSUME NEW n \in TNodes, pathTo'[n] # <<>>
               PROVE  /\ LocalEnd[pathTo'[n][1]] = start
                      /\ n = Dst \/ Dst \notin visitedNodes' => Avoids(pathTo'[n])
                      /\ Simple => Leads(pathTo'[n], start) /\ RemoteEnd[Last(pathTo'[n])] = n
    BY <1>1, <1>4, SameGraph DEF PathInv, Leads, Avoids
  <2>1. CASE pathTo'[n] = pathTo[n]
    BY <1>4, <1>15, <2>1
  <2>2. CASE n \in better /\ ~IsDestination(h)
    <3>1. pathTo'[n] = Append(pathTo[h], best(n))
      BY <1>4, <2>2
    <3>2. pathTo[h] \in Seq(Linked) /\ pathTo[h] # <<>> /\ best(n) \in Linked
      BY <1>2, <1>5, <1>10, <2>2
    <3>3. LocalEnd[best(n)] = h /\ RemoteEnd[best(n)] = n /\ n \notin visitedNodes \cup {h}
      BY <1>10, <2>2
    <3>4. n = Dst \/ Dst \notin visitedNodes' => Avoids(pathTo[h]) /\ h # Dst
      BY <1>4, <1>5, <1>15, <3>2, <3>3
    <3>5. QED
      BY <1>5, <1>15, <3>1, <3>2, <3>3, <3>4, LongerPath
  <2>3. QED
    BY <1>4, <2>1, <2>2
<1>17. QueueInv'
  <2>1. CASE IsDestination(h)
    BY <1>4, <1>5, <2>1 DEF QueueInv, IsDestination
  <2>2. CASE ~IsDestination(h)
    <3>1. phase' = "settle" => reachable' # <<>>
      BY <1>4, <2>2
    <3>2. phase' # "found"
      BY <1>4, <2>2
    <3>3. ToSet(reachable') \subseteq ToSet(reachable) \cup better
      <4>1. ToSet(rest \o new) = ToSet(rest) \cup ToSet(new)
        BY <1>6, <1>9, JoinElements
      <4>2. QED
        BY <1>4, <1>6, <1>9, <2>2, <4>1
    <3>4. \A n \in better : pathTo'[n] # <<>>
      <4> TAKE n \in better
      <4>1. pathTo'[n] = Append(pathTo[h], best(n))
        BY <1>4, <1>11, <2>2
      <4>2. pathTo[h] \in Seq(Linked) /\ pathTo[h] # <<>> /\ best(n) \in Linked
        BY <1>2, <1>5, <1>10
      <4>3. QED
        BY <4>1, <4>2, LongerPath
    <3>5. \A n \in ToSet(reachable) : n \in TNodes
      BY <1>2 DEF ToSet
    <3>6. \A n \in ToSet(reachable) : n \notin better => pathTo'[n] # <<>>
      BY <1>2, <1>4, <2>2, <3>5
    <3>7. QED
      BY <3>1, <3>2, <3>3, <3>4, <3>6 DEF QueueInv
  <2>3. QED
    BY <2>1, <2>2
<1>18. CandidateInv' /\ HeadInv' /\ CountInv' /\ RoutesOnly'
  BY <1>1, <1>4, SameGraph
     DEF SearchInv, CandidateInv, HeadInv, CountInv, RoutesOnly, IsRoute, Leads, Searching, paths, result
<1>19. QED
  BY <1>13, <1>14, <1>16, <1>17, <1>18 DEF SearchInv

LEMMA FirstPathStep ==
  ASSUME SearchAssumption, SearchInv, FirstPath
  PROVE  SearchInv'
<1> DEFINE p == Path(pathTo[Dst], pathCost[Dst], Src, <<>>)
<1>1. metric' = metric /\ phase = "found" /\ counter = 0 /\ Graph /\ INF \in Nat
  BY TypedGraph DEF SearchInv, FirstPath
<1>2. /\ candidates' = <<p>> /\ ksp' = <<p>> /\ counter' = 1 /\ phase' = "candidate"
      /\ UNCHANGED <<search, filteroff, headpath, spur, result>>
  BY DEF FirstPath
<1>3. Src \in TNodes /\ Dst \in TNodes /\ K \in Nat /\ K > 0
  BY SearchAssumption DEF SearchAssumption
<1>4. pathTo[Dst] \in Seq(Linked) /\ pathCost[Dst] \in Nat
  BY <1>1, <1>3 DEF SearchInv, SearchTypeOK
<1>5. p \in Candidate /\ p.links = pathTo[Dst] /\ p.deviation = Src
  BY <1>3, <1>4 DEF Path, Candidate
<1>6. Branchable(p)
  <2>1. pathTo[Dst] # <<>> /\ start = Src
    BY <1>1 DEF SearchInv, QueueInv, StartInv, Searching
  <2>2. /\ LocalEnd[pathTo[Dst][1]] = Src /\ Avoids(pathTo[Dst])
        /\ Simple => Leads(pathTo[Dst], Src) /\ RemoteEnd[Last(pathTo[Dst])] = Dst
    BY <1>1, <1>3, <2>1 DEF SearchInv, PathInv
  <2>3. 1 \in DOMAIN pathTo[Dst]
    BY <1>4, <2>1
  <2>4. QED
    BY <1>5, <2>1, <2>2, <2>3 DEF Branchable, Walk
<1> HIDE DEF p
<1>7. candidates' \in Seq(Candidate) /\ Len(candidates') = 1 /\ ToSet(candidates') = {p}
  BY <1>2, <1>5 DEF ToSet
<1>8. ksp' = candidates'
  BY <1>2
<1>9. SearchTypeOK'
  <2>1. Len(ksp) = 0 /\ checked = 0
    BY <1>1 DEF SearchInv, CountInv, SearchTypeOK
  <2>2. checked' \in 0 .. Len(ksp') /\ counter' \in 0 .. K /\ Len(ksp') <= K
    BY <1>2, <1>3, <1>7, <1>8, <2>1 DEF result
  <2>3. QED
    BY <1>1, <1>2, <1>7, <1>8, <2>2, SameGraph DEF SearchInv, SearchTypeOK, search, filteroff, result
<1>10. StartInv' /\ PathInv' /\ QueueInv' /\ HeadInv'
  BY <1>2 DEF StartInv, PathInv, QueueInv, HeadInv, Searching
<1>11. CandidateInv'
  BY <1>1, <1>6, <1>7, <1>8, SameGraph DEF CandidateInv
<1>12. CountInv'
  BY <1>2, <1>7, <1>8 DEF CountInv
<1>13. RoutesOnly'
  BY <1>1, <1>2, SameGraph DEF SearchInv, RoutesOnly, IsRoute, Leads, result
<1>14. QED
  BY <1>9, <1>10, <1>11, <1>12, <1>13 DEF SearchInv

LEMMA NoFirstPathStep ==
  ASSUME SearchAssumption, SearchInv, NoFirstPath
  PROVE  SearchInv'
<1>1. /\ metric' = metric /\ phase' = "thrown" /\ counter = 0
      /\ UNCHANGED <<search, filteroff, paths, spur, result>>
  BY DEF NoFirstPath
<1>2. SearchTypeOK'
  BY <1>1, SameGraph DEF SearchInv, SearchTypeOK, search, filteroff, paths, result
<1>3. StartInv' /\ PathInv' /\ QueueInv' /\ HeadInv'
  BY <1>1 DEF StartInv, PathInv, QueueInv, HeadInv, Searching
<1>4. CandidateInv' /\ CountInv' /\ RoutesOnly'
  BY <1>1, SameGraph DEF SearchInv, CandidateInv, CountInv, RoutesOnly, IsRoute, Leads, paths, result
<1>5. QED
  BY <1>2, <1>3, <1>4 DEF SearchInv

\* Rounds of branching: a candidate is taken out of the list.
LEMMA NextCandidateStep ==
  ASSUME SearchAssumption, SearchInv, NextCandidate
  PROVE  SearchInv'
<1> DEFINE costs == [j \in DOMAIN candidates |-> candidates[j].cost]
           i == LeastCost
           p == candidates[i]
<1>1. /\ metric' = metric /\ phase = "candidate" /\ candidates # <<>> /\ counter <= K
      /\ candidates' = RemoveAt(candidates, i)
      /\ ksp' = IF counter > 1 THEN Append(ksp, p) ELSE ksp
      /\ \/ phase' = "verify" /\ UNCHANGED <<headpath, spur, filteroff>>
         \/ /\ counter # K /\ phase' = "branch"
            /\ headpath' = p /\ spur' = DeviationIndex(p)
            /\ nodesOff' = nodesOff \cup RootNodes(p)
            /\ linksOff' = linksOff \cup LinksOf(RootNodes(p))
      /\ UNCHANGED <<search, counter, result>>
  BY DEF NextCandidate, Enough
<1>2. candidates \in Seq(Candidate) /\ ksp \in Seq(Candidate) /\ counter \in Nat /\ K \in Nat
  BY SearchAssumption DEF SearchInv, SearchTypeOK, SearchAssumption
<1>3. i \in DOMAIN candidates
  <2>1. Len(candidates) \in Nat /\ Len(candidates) > 0 /\ costs \in [1 .. Len(candidates) -> Nat]
    <3>1. /\ Len(candidates) \in Nat /\ Len(candidates) > 0
          /\ DOMAIN candidates = 1 .. Len(candidates)
      BY <1>1, <1>2
    <3>2. \A j \in 1 .. Len(candidates) : candidates[j] \in Candidate
      BY <1>2
    <3>3. \A j \in 1 .. Len(candidates) : candidates[j].cost \in Nat
      BY <3>2 DEF Candidate
    <3>4. QED
      BY <3>1, <3>3
  <2>2. i = FirstLeast(costs)
    BY DEF LeastCost
  <2> HIDE DEF costs
  <2>3. FirstLeast(costs) \in 1 .. Len(candidates)
    BY <2>1, FirstLeastPlace
  <2>4. QED
    BY <1>2, <2>2, <2>3
<1> HIDE DEF i
<1>4. p \in Candidate /\ p \in ToSet(candidates) /\ Branchable(p)
  BY <1>2, <1>3 DEF SearchInv, CandidateInv, ToSet
<1>5. candidates' \in Seq(Candidate) /\ ToSet(candidates') \subseteq ToSet(candidates)
  <2>1. /\ candidates' \in Seq(Candidate)
        /\ \A a \in DOMAIN candidates' : \E b \in DOMAIN candidates : candidates'[a] = candidates[b]
    BY <1>1, <1>2, <1>3, RemoveAtElements
  <2>2. QED
    BY <2>1 DEF ToSet
<1> HIDE DEF p
<1>6. /\ ksp' \in Seq(Candidate) /\ ToSet(ksp') \subseteq ToSet(ksp) \cup {p}
      /\ Len(ksp') <= counter /\ Len(ksp) <= Len(ksp') /\ Len(ksp') \in Nat
  <2>1. CASE counter > 1
    <3>1. ksp' = Append(ksp, p) /\ Len(ksp) < counter
      BY <1>1, <2>1 DEF SearchInv, CountInv
    <3>2. /\ Append(ksp, p) \in Seq(Candidate) /\ Len(Append(ksp, p)) = Len(ksp) + 1
          /\ Len(ksp) \in Nat
      BY <1>2, <1>4
    <3>3. ToSet(Append(ksp, p)) = ToSet(ksp) \cup {p}
      BY <1>2, <1>4, AppendElements
    <3>4. QED
      BY <1>2, <3>1, <3>2, <3>3
  <2>2. CASE ~(counter > 1)
    BY <1>1, <1>2, <2>2 DEF SearchInv, CountInv
  <2>3. QED
    BY <2>1, <2>2
<1>7. DeviationIndex(p) \in DOMAIN p.links
  <2>1. p.links \in Seq(Linked)
    BY <1>4 DEF Candidate
  <2>2. QED
    BY <1>4, <2>1, DeviationPlace DEF Branchable
<1>8. RootNodes(p) \subseteq TNodes /\ LinksOf(RootNodes(p)) \subseteq Linked
  <2>1. p.links \in Seq(Linked) /\ Linked \subseteq TLinks
    BY <1>4 DEF Candidate, SearchInv, SearchTypeOK
  <2>2. DOMAIN p.links = 1 .. Len(p.links) /\ Len(p.links) \in Nat
    BY <2>1
  <2>3. \A a \in 1 .. DeviationIndex(p) - 1 : p.links[a] \in TLinks
    BY <1>7, <2>1, <2>2
  <2>4. QED
    BY <2>3, SearchAssumption DEF RootNodes, LinksOf, SearchAssumption
<1>9. SearchTypeOK'
  <2>1. /\ nodesOff' \subseteq TNodes /\ linksOff' \subseteq Linked
        /\ headpath' \in Candidate /\ spur' \in 1 .. Len(headpath'.links) + 1
    <3>1. CASE UNCHANGED <<headpath, spur, filteroff>>
      BY <3>1 DEF SearchInv, SearchTypeOK, filteroff
    <3>2. CASE /\ headpath' = p /\ spur' = DeviationIndex(p)
               /\ nodesOff' = nodesOff \cup RootNodes(p)
               /\ linksOff' = linksOff \cup LinksOf(RootNodes(p))
      <4>1. p.links \in Seq(Linked)
        BY <1>4 DEF Candidate
      <4>2. DeviationIndex(p) \in 1 .. Len(p.links) + 1
        BY <1>7, <4>1
      <4>3. QED
        BY <1>4, <1>8, <3>2, <4>2 DEF SearchInv, SearchTypeOK
    <3>3. QED
      BY <1>1, <3>1, <3>2
  <2>2. checked' \in 0 .. Len(ksp') /\ Len(ksp') <= K /\ phase' \in {"verify", "branch"}
    <3>1. checked \in 0 .. Len(ksp) /\ Len(ksp) \in Nat /\ checked' = checked
      BY <1>1, <1>2 DEF SearchInv, SearchTypeOK, result
    <3>2. QED
      BY <1>1, <1>2, <1>6, <3>1
  <2>3. QED
    BY <1>1, <1>5, <1>6, <2>1, <2>2, SameGraph DEF SearchInv, SearchTypeOK, search, result
<1>10. StartInv' /\ PathInv' /\ QueueInv'
  BY <1>1 DEF StartInv, PathInv, QueueInv, Searching
<1>11. CandidateInv'
  BY <1>1, <1>4, <1>5, <1>6, SameGraph DEF SearchInv, CandidateInv
<1>12. HeadInv'
  BY <1>1, <1>2, <1>4, SameGraph DEF HeadInv, Searching
<1>13. CountInv'
  BY <1>1, <1>6 DEF SearchInv, CountInv
<1>14. RoutesOnly'
  BY <1>1, SameGraph DEF SearchInv, RoutesOnly, IsRoute, Leads, result
<1>15. QED
  BY <1>9, <1>10, <1>11, <1>12, <1>13, <1>14 DEF SearchInv

LEMMA NoCandidateStep ==
  ASSUME SearchAssumption, SearchInv, NoCandidate
  PROVE  SearchInv'
<1>1. /\ metric' = metric /\ phase' = "verify"
      /\ UNCHANGED <<search, filteroff, paths, spur, result>>
  BY DEF NoCandidate
<1>2. SearchTypeOK'
  BY <1>1, SameGraph DEF SearchInv, SearchTypeOK, search, filteroff, paths, result
<1>3. StartInv' /\ PathInv' /\ QueueInv' /\ HeadInv'
  BY <1>1 DEF StartInv, PathInv, QueueInv, HeadInv, Searching
<1>4. CandidateInv' /\ CountInv' /\ RoutesOnly'
  BY <1>1, SameGraph DEF SearchInv, CandidateInv, CountInv, RoutesOnly, IsRoute, Leads, paths, result
<1>5. QED
  BY <1>2, <1>3, <1>4 DEF SearchInv

\* A search for each link of the candidate: it starts, and ends with a path or without one.
LEMMA BranchStep ==
  ASSUME SearchAssumption, SearchInv, Branch
  PROVE  SearchInv'
<1>1. /\ metric' = metric /\ phase = "branch" /\ phase' = "source" /\ spur <= Len(headpath.links)
      /\ linksOff' = linksOff \cup Blocked
      /\ start' = LocalEnd[headpath.links[spur]]
      /\ UNCHANGED <<visitedNodes, reachable, pathCost, pathTo, nodesOff, paths, spur, result>>
  BY DEF Branch
<1>2. counter > 0 /\ counter \in Nat
  BY <1>1 DEF SearchInv, SearchTypeOK, CountInv
<1>3. /\ headpath.links \in Seq(Linked) /\ headpath.masked \in Seq(Linked)
      /\ spur \in DOMAIN headpath.links /\ Linked \subseteq TLinks
  <2>1. headpath \in Candidate /\ spur \in 1 .. Len(headpath.links) + 1 /\ Linked \subseteq TLinks
    BY DEF SearchInv, SearchTypeOK
  <2>2. headpath.links \in Seq(Linked) /\ headpath.masked \in Seq(Linked)
    BY <2>1 DEF Candidate
  <2>3. Len(headpath.links) \in Nat /\ DOMAIN headpath.links = 1 .. Len(headpath.links)
    BY <2>2
  <2>4. QED
    BY <1>1, <2>1, <2>2, <2>3
<1>4. Blocked \subseteq Linked /\ start' \in TNodes
  <2>1. headpath.links[spur] \in Linked
    BY <1>3
  <2>2. Range(headpath.masked) \subseteq Linked
    BY <1>3 DEF Range
  <2>3. QED
    BY <1>1, <1>3, <2>1, <2>2, SearchAssumption DEF Blocked, SearchAssumption
<1>5. SearchTypeOK'
  BY <1>1, <1>4, SameGraph DEF SearchInv, SearchTypeOK, paths, result
<1>6. StartInv'
  BY <1>1, <1>2, <1>3 DEF StartInv, paths
<1>7. PathInv' /\ QueueInv'
  BY <1>1 DEF PathInv, QueueInv
<1>8. CandidateInv' /\ HeadInv' /\ CountInv' /\ RoutesOnly'
  BY <1>1, SameGraph
     DEF SearchInv, CandidateInv, HeadInv, CountInv, RoutesOnly, IsRoute, Leads, paths, result
<1>9. QED
  BY <1>5, <1>6, <1>7, <1>8 DEF SearchInv

LEMMA AddCandidateStep ==
  ASSUME SearchAssumption, SearchInv, AddCandidate
  PROVE  SearchInv'
<1> DEFINE h == headpath.links
           q == SubSeq(h, 1, spur - 1) \o pathTo[Dst]
           p == Path(q, CalculatePathCost(q), Deviation, Append(headpath.masked, h[spur]))
<1>1. /\ metric' = metric /\ phase \in {"found", "failed"} /\ phase' = "branch" /\ counter > 0
      /\ candidates' = IF pathTo[Dst] = <<>> THEN candidates ELSE Append(candidates, p)
      /\ linksOff' = linksOff \ {h[spur]} /\ spur' = spur + 1
      /\ UNCHANGED <<search, nodesOff, ksp, counter, headpath, result>>
  BY DEF AddCandidate
<1>2. /\ Dst \in TNodes /\ Src \in TNodes /\ Graph /\ INF \in Nat
      /\ counter \in Nat /\ K \in Nat /\ pathTo[Dst] \in Seq(Linked)
      /\ headpath \in Candidate /\ candidates \in Seq(Candidate)
  <2>1. SearchTypeOK /\ Graph /\ INF \in Nat
    BY TypedGraph DEF SearchInv
  <2>2. Dst \in TNodes /\ Src \in TNodes /\ K \in Nat
    BY SearchAssumption DEF SearchAssumption
  <2>3. QED
    BY <2>1, <2>2 DEF SearchTypeOK
<1>3. h \in Seq(Linked) /\ headpath.masked \in Seq(Linked)
  BY <1>2 DEF Candidate
<1>4. /\ Branchable(headpath) /\ counter < K
      /\ spur \in DOMAIN h /\ start = LocalEnd[h[spur]]
  BY <1>1 DEF SearchInv, HeadInv, StartInv, Searching
<1>5. h[spur] \in Linked /\ LocalEnd[h[spur]] \in TNodes
  BY <1>2, <1>3, <1>4, SearchAssumption DEF Graph, SearchAssumption
<1>6. Deviation = LocalEnd[h[spur]]
  BY <1>4 DEF Deviation, Branchable, Walk
<1> HIDE DEF q
<1>7. ASSUME pathTo[Dst] # <<>>
      PROVE  p \in Candidate /\ Branchable(p)
  <2>1. /\ LocalEnd[pathTo[Dst][1]] = LocalEnd[h[spur]] /\ Avoids(pathTo[Dst])
        /\ Simple => /\ Leads(pathTo[Dst], LocalEnd[h[spur]])
                     /\ RemoteEnd[Last(pathTo[Dst])] = Dst
    BY <1>1, <1>2, <1>4, <1>7 DEF SearchInv, PathInv
  <2>2. /\ q \in Seq(Linked) /\ q # <<>> /\ Last(q) = Last(pathTo[Dst])
        /\ spur \in DOMAIN q /\ LocalEnd[q[spur]] = LocalEnd[h[spur]]
        /\ LocalEnd[q[1]] = LocalEnd[h[1]]
        /\ Avoids(h) /\ Avoids(pathTo[Dst]) => Avoids(q)
        /\ \A n : Leads(h, n) /\ Leads(pathTo[Dst], LocalEnd[h[spur]]) => Leads(q, n)
    <3> HIDE DEF h
    <3>1. QED
      BY <1>2, <1>3, <1>4, <1>7, <2>1, BranchedPath DEF q
  <2>3. Walk(q)
    BY <1>4, <2>1, <2>2 DEF Walk, Branchable
  <2>4. CalculatePathCost(q) \in Nat
    BY <1>2, <2>2, CostOfPath DEF Graph
  <2>5. Append(headpath.masked, h[spur]) \in Seq(Linked)
    BY <1>3, <1>5
  <2>6. p \in Candidate
    BY <1>5, <1>6, <2>2, <2>4, <2>5 DEF Path, Candidate
  <2>7. p.links = q /\ p.deviation = LocalEnd[h[spur]]
    BY <1>6 DEF Path
  <2>8. Branchable(p)
    BY <2>2, <2>3, <2>7 DEF Branchable
  <2>9. QED
    BY <2>6, <2>8
<1> HIDE DEF p
<1>8. /\ candidates' \in Seq(Candidate)
      /\ \A r \in ToSet(candidates') : r \in ToSet(candidates) \/ Branchable(r)
  <2>1. CASE pathTo[Dst] = <<>>
    BY <1>1, <1>2, <2>1
  <2>2. CASE pathTo[Dst] # <<>>
    <3>1. /\ Append(candidates, p) \in Seq(Candidate)
          /\ ToSet(Append(candidates, p)) = ToSet(candidates) \cup {p}
      BY <1>2, <1>7, <2>2, AppendElements
    <3>2. QED
      BY <1>1, <1>7, <2>2, <3>1
  <2>3. QED
    BY <2>1, <2>2
<1>9. SearchTypeOK'
  <2>1. spur' \in 1 .. Len(headpath'.links) + 1
    BY <1>1, <1>3, <1>4
  <2>2. QED
    BY <1>1, <1>8, <2>1, SameGraph DEF SearchInv, SearchTypeOK, search, result
<1>10. StartInv' /\ PathInv' /\ QueueInv'
  BY <1>1 DEF StartInv, PathInv, QueueInv, Searching
<1>11. CandidateInv'
  BY <1>1, <1>8, SameGraph DEF SearchInv, CandidateInv
<1>12. HeadInv' /\ CountInv'
  BY <1>1, <1>4, SameGraph DEF SearchInv, HeadInv, CountInv
<1>13. RoutesOnly'
  BY <1>1, SameGraph DEF SearchInv, RoutesOnly, IsRoute, Leads, result
<1>14. QED
  BY <1>9, <1>10, <1>11, <1>12, <1>13 DEF SearchInv

LEMMA EndBranchesStep ==
  ASSUME SearchAssumption, SearchInv, EndBranches
  PROVE  SearchInv'
<1>1. /\ metric' = metric /\ phase = "branch" /\ phase' = "candidate" /\ counter' = counter + 1
      /\ UNCHANGED <<search, filteroff, candidates, ksp, headpath, spur, result>>
  BY DEF EndBranches
<1>2. counter > 0 /\ counter \in Nat /\ K \in Nat /\ counter < K /\ Len(ksp) \in Nat
  BY <1>1, SearchAssumption
     DEF SearchInv, SearchTypeOK, CountInv, HeadInv, SearchAssumption
<1>3. SearchTypeOK'
  <2>1. counter' \in 0 .. K
    BY <1>1, <1>2
  <2>2. QED
    BY <1>1, <2>1, SameGraph DEF SearchInv, SearchTypeOK, search, filteroff, result
<1>4. StartInv' /\ PathInv' /\ QueueInv' /\ HeadInv'
  BY <1>1 DEF StartInv, PathInv, QueueInv, HeadInv, Searching
<1>5. CountInv'
  BY <1>1, <1>2 DEF SearchInv, CountInv
<1>6. CandidateInv' /\ RoutesOnly'
  BY <1>1, SameGraph DEF SearchInv, CandidateInv, RoutesOnly, IsRoute, Leads, result
<1>7. QED
  BY <1>3, <1>4, <1>5, <1>6 DEF SearchInv

\* What VerifyLoopFree lets through is a route, and stays one when the paths are sorted.
LEMMA VerifyStep ==
  ASSUME SearchAssumption, SearchInv, Verify
  PROVE  SearchInv'
<1> DEFINE p == ksp[checked + 1]
<1>1. /\ metric' = metric /\ phase = "verify" /\ checked < Len(ksp) /\ checked' = checked + 1
      /\ \/ feasible' = feasible
         \/ VerifyLoopFree(p.links) /\ feasible' = Append(feasible, p)
      /\ UNCHANGED <<phase, search, filteroff, paths, spur>>
  BY DEF Verify
<1>2. /\ ksp \in Seq(Candidate) /\ feasible \in Seq(Candidate)
      /\ checked \in 0 .. Len(ksp) /\ Linked \subseteq TLinks
  BY DEF SearchInv, SearchTypeOK
<1>3. checked + 1 \in DOMAIN ksp
  BY <1>1, <1>2
<1>4. p \in Candidate /\ p \in ToSet(ksp)
  BY <1>2, <1>3 DEF ToSet
<1> HIDE DEF p
<1>5. Walk(p.links) /\ p.links \in Seq(TLinks)
  <2>1. p.links \in Seq(Linked)
    BY <1>4 DEF Candidate
  <2>2. QED
    BY <1>2, <1>4, <2>1 DEF SearchInv, CandidateInv, Branchable
<1>6. VerifyLoopFree(p.links) /\ Simple => IsRoute(p.links)
  <2> DEFINE r == p.links
  <2> SUFFICES ASSUME VerifyLoopFree(r), Simple
               PROVE  IsRoute(r)
    OBVIOUS
  <2>1. Leads(r, Src) /\ RemoteEnd[Last(r)] = Dst /\ Avoids(r) /\ r \in Seq(TLinks)
    BY <1>5 DEF Walk
  <2> HIDE DEF r
  <2>2. DOMAIN r = 1 .. Len(r) /\ Len(r) \in Nat
    BY <2>1
  <2>3. \A i \in 1 .. Len(r) - 1 : RemoteEnd[r[i]] = LocalEnd[r[i + 1]]
    BY <2>1 DEF Leads
  <2>4. \A i, j \in 1 .. Len(r) : i < j => LocalEnd[r[i]] # LocalEnd[r[j]]
    BY <2>1, <2>3, VerifiedOnce
  <2>5. \A i, j \in DOMAIN r : LocalEnd[r[i]] = LocalEnd[r[j]] => i = j
    <3> TAKE i, j \in DOMAIN r
    <3>1. i < j \/ j < i \/ i = j
      BY <2>2
    <3>2. QED
      BY <2>2, <2>4, <3>1
  <2>6. QED
    BY <2>1, <2>5 DEF IsRoute, Avoids
<1>7. feasible' \in Seq(Candidate) /\ RoutesOnly'
  <2>1. CASE feasible' = feasible
    BY <1>1, <1>2, <2>1, SameGraph DEF SearchInv, RoutesOnly, IsRoute, Leads
  <2>2. CASE VerifyLoopFree(p.links) /\ feasible' = Append(feasible, p)
    <3>1. feasible' \in Seq(Candidate) /\ ToSet(feasible') = ToSet(feasible) \cup {p}
      BY <1>2, <1>4, <2>2, AppendElements
    <3>2. Simple => \A r \in ToSet(feasible') : IsRoute(r.links)
      BY <1>6, <2>2, <3>1 DEF SearchInv, RoutesOnly
    <3>3. QED
      BY <1>1, <3>1, <3>2, SameGraph DEF RoutesOnly, IsRoute, Leads
  <2>3. QED
    BY <1>1, <2>1, <2>2
<1>8. SearchTypeOK'
  <2>1. checked' \in 0 .. Len(ksp)
    BY <1>1, <1>2
  <2>2. QED
    BY <1>1, <1>7, <2>1, SameGraph DEF SearchInv, SearchTypeOK, search, filteroff, paths
<1>9. StartInv' /\ PathInv' /\ QueueInv' /\ HeadInv' /\ CountInv'
  BY <1>1 DEF SearchInv, StartInv, PathInv, QueueInv, HeadInv, CountInv, Searching, paths
<1>10. CandidateInv'
  BY <1>1, SameGraph DEF SearchInv, CandidateInv, paths
<1>11. QED
  BY <1>7, <1>8, <1>9, <1>10 DEF SearchInv

LEMMA FinishStep ==
  ASSUME SearchAssumption, SearchInv, Finish
  PROVE  SearchInv'
<1>1. /\ metric' = metric /\ phase' \in {"thrown", "done"} /\ feasible' \in Sorted(feasible)
      /\ UNCHANGED <<search, filteroff, paths, spur, checked>>
  BY DEF Finish
<1>2. feasible' \in Seq(Candidate) /\ ToSet(feasible') \subseteq ToSet(feasible)
  <2>1. feasible \in Seq(Candidate)
    BY DEF SearchInv, SearchTypeOK
  <2>2. QED
    BY <1>1, <2>1, SortedOnes
<1>3. SearchTypeOK'
  BY <1>1, <1>2, SameGraph DEF SearchInv, SearchTypeOK, search, filteroff, paths
<1>4. StartInv' /\ PathInv' /\ QueueInv' /\ HeadInv'
  BY <1>1 DEF StartInv, PathInv, QueueInv, HeadInv, Searching
<1>5. CandidateInv' /\ CountInv'
  BY <1>1, SameGraph DEF SearchInv, CandidateInv, CountInv, paths
<1>6. RoutesOnly'
  BY <1>1, <1>2, SameGraph DEF SearchInv, RoutesOnly, IsRoute, Leads
<1>7. QED
  BY <1>3, <1>4, <1>5, <1>6 DEF SearchInv

LEMMA SearchEndedStep ==
  ASSUME SearchInv, UNCHANGED searchVars
  PROVE  SearchInv'
<1>1. /\ metric' = metric /\ phase' = phase
      /\ UNCHANGED <<search, filteroff, paths, spur, result>>
  BY DEF searchVars
<1>2. SearchTypeOK'
  BY <1>1, SameGraph DEF SearchInv, SearchTypeOK, search, filteroff, paths, result
<1>3. StartInv' /\ QueueInv' /\ CountInv'
  BY <1>1 DEF SearchInv, StartInv, QueueInv, CountInv, Searching, search, paths
<1>4. PathInv'
  BY <1>1, SameGraph DEF SearchInv, PathInv, Leads, Avoids, search
<1>5. CandidateInv' /\ HeadInv' /\ RoutesOnly'
  BY <1>1, SameGraph
     DEF SearchInv, CandidateInv, HeadInv, RoutesOnly, IsRoute, Leads, Searching, paths, result
<1>6. QED
  BY <1>2, <1>3, <1>4, <1>5 DEF SearchInv

LEMMA SearchInitInv ==
  ASSUME SearchAssumption, SearchInit
  PROVE  SearchInv
<1>1. INF \in Nat /\ INF > 1
  BY InfiniteCost
<1>2. /\ Src \in TNodes /\ Dst \in TNodes /\ K \in Nat /\ K > 0
      /\ Linked \subseteq TLinks /\ metric \in [Linked -> 1 .. INF - 1]
  BY SearchAssumption DEF SearchInit, SearchAssumption, Linked
<1>3. SearchTypeOK
  <2>1. headpath \in Candidate /\ headpath.links = <<>>
    BY <1>1, <1>2 DEF SearchInit, NoPath, Path, Candidate
  <2>2. spur \in 1 .. Len(headpath.links) + 1
    BY <2>1 DEF SearchInit
  <2>3. /\ candidates = <<>> /\ ksp = <<>> /\ feasible = <<>> /\ reachable = <<>>
        /\ checked = 0 /\ counter = 0
    BY DEF SearchInit
  <2>4. /\ candidates \in Seq(Candidate) /\ ksp \in Seq(Candidate) /\ feasible \in Seq(Candidate)
        /\ reachable \in Seq(TNodes) /\ Len(ksp) = 0
    BY <2>3
  <2>5. counter \in 0 .. K /\ Len(ksp) <= K /\ checked \in 0 .. Len(ksp)
    BY <1>2, <2>3, <2>4
  <2>6. pathCost \in [TNodes -> 1 .. INF] /\ pathTo \in [TNodes -> Seq(Linked)]
    BY <1>1 DEF SearchInit
  <2>7. QED
    BY <1>2, <2>1, <2>2, <2>4, <2>5, <2>6 DEF SearchInit, SearchTypeOK
<1>4. StartInv /\ PathInv /\ QueueInv /\ HeadInv /\ CountInv
  BY DEF SearchInit, StartInv, PathInv, QueueInv, HeadInv, CountInv, Searching
<1>5. CandidateInv /\ RoutesOnly
  BY DEF SearchInit, CandidateInv, RoutesOnly, ToSet
<1>6. QED
  BY <1>3, <1>4, <1>5 DEF SearchInv

LEMMA SearchInvariance == SearchSpec => []SearchInv
<1>1. SearchInit => SearchInv
  BY SearchInitInv, SearchAssumption
<1>2. SearchInv /\ [SearchNext]_searchVars => SearchInv'
  <2> SUFFICES ASSUME SearchInv, [SearchNext]_searchVars
               PROVE  SearchInv'
    OBVIOUS
  <2> USE SearchAssumption
  <2>1. CASE RelaxSource
    BY <2>1, RelaxSourceStep
  <2>2. CASE Settle
    BY <2>2, SettleStep
  <2>3. CASE FirstPath
    BY <2>3, FirstPathStep
  <2>4. CASE NoFirstPath
    BY <2>4, NoFirstPathStep
  <2>5. CASE NextCandidate
    BY <2>5, NextCandidateStep
  <2>6. CASE NoCandidate
    BY <2>6, NoCandidateStep
  <2>7. CASE Branch
    BY <2>7, BranchStep
  <2>8. CASE AddCandidate
    BY <2>8, AddCandidateStep
  <2>9. CASE EndBranches
    BY <2>9, EndBranchesStep
  <2>10. CASE Verify
    BY <2>10, VerifyStep
  <2>11. CASE Finish
    BY <2>11, FinishStep
  <2>12. CASE Ended \/ UNCHANGED searchVars
    BY <2>12, SearchEndedStep DEF Ended
  <2>13. QED
    BY <2>1, <2>2, <2>3, <2>4, <2>5, <2>6, <2>7, <2>8, <2>9, <2>10, <2>11, <2>12 DEF SearchNext
<1>3. QED
  BY <1>1, <1>2, PTL DEF SearchSpec

\* Every variable of the search has its type: there are never more than K rounds and K paths,
\* and what is branched from, masked or filtered is a link or a node of this topology.
THEOREM SearchTypes == SearchSpec => []SearchTypeOK
<1>1. SearchInv => SearchTypeOK
  BY DEF SearchInv
<1>2. QED
  BY <1>1, SearchInvariance, PTL

\* Where no links run in parallel, every path that Action_ComputeKSP hands out leads from the
\* source to the destination and comes to no node twice: what the search returns joins, and
\* VerifyLoopFree catches every walk that comes back to a node.
THEOREM HandsOutRoutes == SearchSpec => []RoutesOnly
<1>1. SearchInv => RoutesOnly
  BY DEF SearchInv
<1>2. QED
  BY <1>1, SearchInvariance, PTL
=============================================================================

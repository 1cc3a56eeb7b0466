------------------------ MODULE WorkflowData_proofs ------------------------
(***************************************************************************)
(* For any links, routes and capabilities and any number of paths, the     *)
(* dependencies of hops have no loop, at any point of their computation    *)
(* and of their merging, and getVlanFrom is set where it has to be; they   *)
(* order whole aggregates; and merging drops none of them.                 *)
(***************************************************************************)
EXTENDS WorkflowData, FiniteSetTheorems, FunctionTheorems, TLAPS

\* The first two passes stay on the route.
IndexInv == phase \in {"produce", "order"} => i <= Len(route[cur])

\* A hop depends on hops of other aggregates only: never on itself.
CrossInv == \A p \in Paths : \A e \in rel[p] : Aggregate[e[1]] # Aggregate[e[2]]

\* The first pass checks no loops: it needs none, as the hop it comes to has not
\* been related to any other hop yet.
Seen(p, n) == {route[p][m] : m \in 1..n}
FreshInv ==
    phase = "produce" =>
        /\ \A e \in rel[cur] : e[1] \in Seen(cur, i) /\ e[2] \in Seen(cur, i)
        /\ \A p \in Paths : p > cur => rel[p] = {}
LaterInv ==
    phase \in {"order", "share"} => \A p \in Paths : p > cur => rel[p] = {}

IInv == TypeOK /\ IndexInv /\ CrossInv /\ FreshInv /\ LaterInv /\ LoopFree /\ VlanFromLowers

\* The paths that are not merged relate their own hops only, the one that is merged into
\* others never again.
HopsOf(p) == {route[p][n] : n \in 1..Len(route[p])}
OnRoute == \A p \in left : \A e \in rel[p] : e[1] \in HopsOf(p) /\ e[2] \in HopsOf(p)
StageInv ==
    /\ phase \in {"produce", "order", "share", "choose"} => left = Paths
    /\ phase \in {"next", "merge"} => base \notin left
    /\ phase = "merge" => /\ cur \in left /\ i <= Len(route[cur]) + 1
                          /\ Seen(cur, i - 1) \subseteq members

\* A pair of a path is decided on when the later of its hops is merged, and what is
\* decided holds on: no pair is ever taken out.
Kept(e) == e \in rel[base] \/ e[1] \in Reach(rel[base], e[2])
KeptInv ==
    /\ phase \in {"next", "merge", "done"} => \A p \in Paths \ left : \A e \in rel[p] : Kept(e)
    /\ phase = "merge" => \A e \in rel[cur] :
          e[1] \in Seen(cur, i - 1) /\ e[2] \in Seen(cur, i - 1) => Kept(e)

DropInv == OnRoute /\ StageInv /\ KeptInv

\* The boundaries the second pass has come by.
PairsInv == phase = "share" => /\ i < j /\ j <= Len(route[cur]) + 1
                               /\ j = Len(route[cur]) + 1 => i = Len(route[cur])
BoundaryInv ==
    \A p \in Paths : \A n \in 1..(Len(route[p]) - 1) :
        Ordered(p) \/ (p = cur /\ (phase = "share" \/ (phase = "order" /\ n < i))) =>
            BoundaryOrdered(p, n)

\* Who depends on a hop does so since before step 4b, or was given it by another hop of
\* the aggregate; and every pair of hops with the first one which that step has come by
\* has the dependency in common.
Has(r, u, l) == <<u, l>> \in r \/ u \in Reach(r, l)
Passed(m, n) == \/ m < n /\ (m < i \/ (m = i /\ n < j))
                \/ n < m /\ (n < i \/ (n = i /\ m < j))
Origin(r, u, l, m) ==
    /\ Aggregate[route[cur][m]] = Aggregate[l]
    /\ <<u, route[cur][m]>> \in r
    /\ \A n \in 1..Len(route[cur]) :
          Aggregate[route[cur][n]] = Aggregate[l] /\ Passed(m, n) => Has(r, u, route[cur][n])
ShareInv ==
    /\ phase = "share" => \A e \in rel[cur] :
          \E m \in 1..Len(route[cur]) : Origin(rel[cur], e[1], e[2], m)
    /\ \A p \in Paths : phase = "choose" \/ (phase \in {"produce", "order", "share"} /\ p < cur) =>
          Shared(p)

OrderInv == PairsInv /\ BoundaryInv /\ ShareInv

-----------------------------------------------------------------------------
\* Reach holds the lowers of x and is closed.
LEMMA ReachClosed ==
  ASSUME NEW r, r \subseteq Hops \X Hops, NEW x \in Hops
  PROVE  /\ \A z \in Hops : <<x, z>> \in r => z \in Reach(r, x)
         /\ \A y \in Reach(r, x), z \in Hops : <<y, z>> \in r => z \in Reach(r, x)
<1>1. ASSUME NEW z \in Hops, <<x, z>> \in r
      PROVE  z \in Reach(r, x)
  BY <1>1 DEF Reach
<1>2. ASSUME NEW y \in Reach(r, x), NEW z \in Hops, <<y, z>> \in r
      PROVE  z \in Reach(r, x)
  <2>1. SUFFICES ASSUME NEW S \in SUBSET Hops,
                        \A e \in r : e[1] = x => e[2] \in S,
                        ClosedBelow(r, S)
                 PROVE  z \in S
    BY DEF Reach
  <2>2. y \in S
    BY <1>2, <2>1 DEF Reach
  <2>3. <<y, z>>[1] = y /\ <<y, z>>[2] = z
    OBVIOUS
  <2>4. QED
    BY <1>2, <2>1, <2>2, <2>3 DEF ClosedBelow
<1>3. QED
  BY <1>1, <1>2

\* Making all of A depend on all of B closes no loop if nobody of A is below B.
LEMMA AddPairs ==
  ASSUME NEW r, r \subseteq Hops \X Hops, WellFounded(r),
         NEW A \in SUBSET Hops, NEW B \in SUBSET Hops,
         \A a \in A, b \in B : a # b /\ a \notin Reach(r, b)
  PROVE  WellFounded(r \cup (A \X B))
<1> DEFINE Below == {y \in Hops : y \in B \/ \E b \in B : y \in Reach(r, b)}
<1>1. SUFFICES ASSUME NEW S \in SUBSET Hops, S # {}
               PROVE  \E h \in S : \A l \in S : <<h, l>> \notin r \cup (A \X B)
  BY DEF WellFounded
<1>2. CASE S \cap Below = {}
  <2>1. PICK h \in S : \A l \in S : <<h, l>> \notin r
    BY <1>1 DEF WellFounded
  <2>2. ASSUME NEW l \in S
        PROVE  <<h, l>> \notin A \X B
    BY <1>2, <2>2
  <2>3. QED
    BY <2>1, <2>2
<1>3. CASE S \cap Below # {}
  <2>1. PICK h \in S \cap Below : \A l \in S \cap Below : <<h, l>> \notin r
    <3>1. S \cap Below \in SUBSET Hops
      OBVIOUS
    <3> HIDE DEF Below
    <3>2. QED
      BY <1>3, <3>1 DEF WellFounded
  <2>2. ASSUME NEW l \in S, <<h, l>> \in r
        PROVE  FALSE
    <3>1. h \in Hops /\ l \in Hops
      OBVIOUS
    <3>2. CASE h \in B
      <4>1. l \in Reach(r, h)
        BY <2>2, <3>1, ReachClosed
      <4>2. QED
        BY <2>1, <2>2, <3>1, <3>2, <4>1
    <3>3. CASE \E b \in B : h \in Reach(r, b)
      <4>1. PICK b \in B : h \in Reach(r, b)
        BY <3>3
      <4>2. l \in Reach(r, b)
        BY <2>2, <3>1, <4>1, ReachClosed
      <4>3. QED
        BY <2>1, <2>2, <3>1, <4>2
    <3>4. QED
      BY <3>2, <3>3
  <2>3. h \notin A
    OBVIOUS
  <2>4. QED
    BY <2>1, <2>2, <2>3
<1>4. QED
  BY <1>2, <1>3

\* The same for one pair.
LEMMA AddPair ==
  ASSUME NEW r, r \subseteq Hops \X Hops, WellFounded(r),
         NEW u \in Hops, NEW l \in Hops, u # l, u \notin Reach(r, l)
  PROVE  WellFounded(r \cup {<<u, l>>})
<1>1. {<<u, l>>} = {u} \X {l}
  OBVIOUS
<1>2. WellFounded(r \cup ({u} \X {l}))
  <2>1. \A a \in {u}, b \in {l} : a # b /\ a \notin Reach(r, b)
    OBVIOUS
  <2>2. {u} \in SUBSET Hops /\ {l} \in SUBSET Hops
    OBVIOUS
  <2>3. QED
    BY <2>1, <2>2, AddPairs
<1>3. QED
  BY <1>1, <1>2

\* A hop that is in no pair has nothing below it and is below nobody.
LEMMA Unrelated ==
  ASSUME NEW r, r \subseteq Hops \X Hops, NEW x \in Hops, NEW y \in Hops,
         \A e \in r : e[1] # x /\ e[2] # x
  PROVE  y \notin Reach(r, x) /\ x \notin Reach(r, y)
<1>1. y \notin Reach(r, x)
  <2>1. {} \in SUBSET Hops /\ ClosedBelow(r, {}) /\ \A e \in r : e[1] = x => e[2] \in {}
    BY DEF ClosedBelow
  <2>2. QED
    BY <2>1 DEF Reach
<1>2. x \notin Reach(r, y)
  <2> DEFINE S == Hops \ {x}
  <2>1. S \in SUBSET Hops /\ ClosedBelow(r, S) /\ \A e \in r : e[1] = y => e[2] \in S
    BY DEF ClosedBelow
  <2>2. x \notin S
    OBVIOUS
  <2> HIDE DEF S
  <2>3. QED
    BY <2>1, <2>2 DEF Reach
<1>3. QED
  BY <1>1, <1>2

-----------------------------------------------------------------------------
\* The hops of a route, and the step from one to the next.
LEMMA RouteHops ==
  ASSUME TypeOK, NEW p \in Paths
  PROVE  /\ Len(route[p]) \in Nat /\ Len(route[p]) >= 1
         /\ \A m \in 1..Len(route[p]) : route[p][m] \in Hops
         /\ \A m, n \in 1..Len(route[p]) : route[p][m] = route[p][n] => m = n
<1>1. route[p] \in Routes
  BY DEF TypeOK
<1>2. QED
  BY <1>1, WorkflowAssumption

\* New pairs E of one path p, if its own relation with E is as it should be.
LEMMA RelateKeeps ==
  ASSUME IInv, NEW p \in Paths, NEW E \in SUBSET (Hops \X Hops), Relate(p, E),
         \A e \in E : Aggregate[e[1]] # Aggregate[e[2]],
         WellFounded(rel[p] \cup E)
  PROVE  /\ rel' \in [Paths -> SUBSET (Hops \X Hops)]
         /\ vlanFrom' \in [Paths -> SUBSET Hops]
         /\ CrossInv' /\ LoopFree' /\ VlanFromLowers'
         /\ rel'[p] = rel[p] \cup E
         /\ \A q \in Paths : q # p => rel'[q] = rel[q]
<1>1. /\ rel'[p] = rel[p] \cup E
      /\ vlanFrom'[p] = vlanFrom[p] \cup {e[1] : e \in E}
      /\ \A q \in Paths : q # p => rel'[q] = rel[q] /\ vlanFrom'[q] = vlanFrom[q]
  BY DEF Relate, IInv, TypeOK
<1>2. rel' \in [Paths -> SUBSET (Hops \X Hops)] /\ vlanFrom' \in [Paths -> SUBSET Hops]
  <2>1. {e[1] : e \in E} \subseteq Hops
    OBVIOUS
  <2>2. QED
    BY <2>1 DEF Relate, IInv, TypeOK
<1>3. CrossInv'
  BY <1>1 DEF CrossInv, IInv
<1>4. LoopFree'
  <2>1. SUFFICES ASSUME NEW q \in Paths PROVE WellFounded(rel'[q])
    BY DEF LoopFree
  <2>2. CASE q = p
    BY <1>1, <2>2
  <2>3. CASE q # p
    BY <1>1, <2>3 DEF IInv, LoopFree
  <2>4. QED
    BY <2>2, <2>3
<1>5. VlanFromLowers'
  <2>1. SUFFICES ASSUME NEW q \in Paths PROVE vlanFrom'[q] = {e[1] : e \in rel'[q]}
    BY DEF VlanFromLowers
  <2>2. vlanFrom[q] = {e[1] : e \in rel[q]}
    BY DEF IInv, VlanFromLowers
  <2>3. CASE q = p
    BY <1>1, <2>2, <2>3
  <2>4. CASE q # p
    BY <1>1, <2>2, <2>4
  <2>5. QED
    BY <2>3, <2>4
<1>6. QED
  BY <1>1, <1>2, <1>3, <1>4, <1>5

\* The first pass.
LEMMA ProduceKeeps == IInv /\ Produce => IInv'
<1> SUFFICES ASSUME IInv, Produce
             PROVE  IInv'
  OBVIOUS
<1> DEFINE a == route[cur][i]
           b == route[cur][i + 1]
           E == {e \in {<<a, b>>, <<b, a>>} : Aggregate[a] # Aggregate[b] /\ Consumes(e[1], e[2])}
<1>1. /\ i \in Nat /\ cur \in Paths /\ i + 1 \in 1..Len(route[cur]) /\ i \in 1..Len(route[cur])
      /\ a \in Hops /\ b \in Hops
  BY RouteHops DEF IInv, TypeOK, Produce
<1>2. Relate(cur, E) /\ E \in SUBSET (Hops \X Hops)
  BY <1>1 DEF Produce
<1>3. \A e \in rel[cur] : e[1] # b /\ e[2] # b
  <2>1. b \notin Seen(cur, i)
    BY <1>1, RouteHops DEF Seen, IInv
  <2> HIDE DEF b
  <2>2. QED
    BY <2>1 DEF IInv, FreshInv, Produce
<1>4. rel[cur] \subseteq Hops \X Hops /\ WellFounded(rel[cur])
  BY <1>1 DEF IInv, TypeOK, LoopFree
<1>5. E = {} \/ (a # b /\ (E = {<<a, b>>} \/ E = {<<b, a>>}))
  <2>1. ~(Consumes(a, b) /\ Consumes(b, a))
    BY DEF Consumes
  <2> HIDE DEF a, b
  <2>2. QED
    BY <2>1
<1>6. \A e \in E : Aggregate[e[1]] # Aggregate[e[2]]
  <2> HIDE DEF a, b
  <2>1. QED
    OBVIOUS
<1>7. WellFounded(rel[cur] \cup E)
  <2> HIDE DEF a, b, E
  <2>1. a \notin Reach(rel[cur], b) /\ b \notin Reach(rel[cur], a)
    BY <1>1, <1>3, <1>4, Unrelated
  <2>2. CASE E = {}
    BY <1>4, <2>2
  <2>3. CASE a # b /\ E = {<<a, b>>}
    BY <1>1, <1>4, <2>1, <2>3, AddPair
  <2>4. CASE a # b /\ E = {<<b, a>>}
    BY <1>1, <1>4, <2>1, <2>4, AddPair
  <2>5. QED
    BY <1>5, <2>2, <2>3, <2>4
<1>8. \A e \in E : e[1] \in {a, b} /\ e[2] \in {a, b}
  <2> HIDE DEF a, b
  <2>1. QED
    OBVIOUS
<1> HIDE DEF E
<1>9. /\ rel' \in [Paths -> SUBSET (Hops \X Hops)]
      /\ vlanFrom' \in [Paths -> SUBSET Hops]
      /\ CrossInv' /\ LoopFree' /\ VlanFromLowers'
      /\ rel'[cur] = rel[cur] \cup E
      /\ \A q \in Paths : q # cur => rel'[q] = rel[q]
  BY <1>1, <1>2, <1>6, <1>7, RelateKeeps
<1>10. TypeOK'
  BY <1>9 DEF IInv, TypeOK, Produce, links, merging
<1>11. IndexInv' /\ LaterInv'
  BY <1>1 DEF Produce, links, IndexInv, LaterInv
<1>12. FreshInv'
  <2>1. phase' = "produce" /\ cur' = cur /\ i' = i + 1 /\ route' = route
    BY DEF Produce, links
  <2>2. \A p \in Paths : p > cur => rel'[p] = {}
    BY <1>1, <1>9 DEF IInv, FreshInv, Produce, Paths
  <2>3. Seen(cur, i)' = Seen(cur, i) \cup {b} /\ a \in Seen(cur, i)
    BY <1>1, <2>1 DEF Seen
  <2> HIDE DEF a, b
  <2>4. ASSUME NEW e \in rel'[cur]
        PROVE  e[1] \in Seen(cur, i)' /\ e[2] \in Seen(cur, i)'
    <3>1. CASE e \in rel[cur]
      BY <2>3, <3>1 DEF IInv, FreshInv, Produce
    <3>2. CASE e \in E
      BY <1>8, <2>3, <3>2
    <3>3. QED
      BY <1>9, <2>4, <3>1, <3>2
  <2>5. QED
    BY <2>1, <2>2, <2>4 DEF FreshInv
<1>13. QED
  BY <1>9, <1>10, <1>11, <1>12 DEF IInv

\* The second and third pass: at most one pair, and its loop has been checked.
LEMMA OrderKeeps == IInv /\ Order => IInv'
<1> SUFFICES ASSUME IInv, Order
             PROVE  IInv'
  OBVIOUS
<1> DEFINE a == route[cur][i]
           b == route[cur][i + 1]
           E == {e \in {<<a, b>>, <<b, a>>} :
                    /\ Aggregate[a] # Aggregate[b]
                    /\ MayDepend(cur, e[1], e[2])
                    /\ e = <<b, a>> => ~MayDepend(cur, a, b)}
<1>1. /\ i \in Nat /\ cur \in Paths /\ i + 1 \in 1..Len(route[cur]) /\ i \in 1..Len(route[cur])
      /\ a \in Hops /\ b \in Hops
  BY RouteHops DEF IInv, TypeOK, Order
<1>2. Relate(cur, E) /\ E \in SUBSET (Hops \X Hops)
  BY <1>1 DEF Order
<1>3. rel[cur] \subseteq Hops \X Hops /\ WellFounded(rel[cur])
  BY <1>1 DEF IInv, TypeOK, LoopFree
<1>4. \/ E = {}
      \/ a # b /\ E = {<<a, b>>} /\ a \notin Reach(rel[cur], b)
      \/ a # b /\ E = {<<b, a>>} /\ b \notin Reach(rel[cur], a)
  <2>1. /\ MayDepend(cur, a, b) => a \notin Reach(rel[cur], b)
        /\ MayDepend(cur, b, a) => b \notin Reach(rel[cur], a)
    BY DEF MayDepend, CheckDependencyLoop
  <2> HIDE DEF a, b
  <2>2. QED
    BY <2>1
<1>5. \A e \in E : Aggregate[e[1]] # Aggregate[e[2]]
  <2> HIDE DEF a, b
  <2>1. QED
    OBVIOUS
<1>6. WellFounded(rel[cur] \cup E)
  <2> HIDE DEF a, b, E
  <2>1. CASE E = {}
    BY <1>3, <2>1
  <2>2. CASE a # b /\ E = {<<a, b>>} /\ a \notin Reach(rel[cur], b)
    BY <1>1, <1>3, <2>2, AddPair
  <2>3. CASE a # b /\ E = {<<b, a>>} /\ b \notin Reach(rel[cur], a)
    BY <1>1, <1>3, <2>3, AddPair
  <2>4. QED
    BY <1>4, <2>1, <2>2, <2>3
<1> HIDE DEF E
<1>7. /\ rel' \in [Paths -> SUBSET (Hops \X Hops)]
      /\ vlanFrom' \in [Paths -> SUBSET Hops]
      /\ CrossInv' /\ LoopFree' /\ VlanFromLowers'
      /\ \A q \in Paths : q # cur => rel'[q] = rel[q]
  BY <1>1, <1>2, <1>5, <1>6, RelateKeeps
<1>8. TypeOK'
  BY <1>7 DEF IInv, TypeOK, Order, links, merging
<1>9. IndexInv' /\ FreshInv'
  BY <1>1 DEF Order, links, IndexInv, FreshInv
<1>10. LaterInv'
  BY <1>1, <1>7 DEF IInv, LaterInv, Order, Paths
<1>11. QED
  BY <1>7, <1>8, <1>9, <1>10 DEF IInv

\* LoopFreeMerge gives lowers only to hops that have some, from other aggregates.
LEMMA LoopFreeMergeKeeps ==
  ASSUME NEW r, r \subseteq Hops \X Hops, WellFounded(r),
         \A e \in r : Aggregate[e[1]] # Aggregate[e[2]],
         NEW d1 \in Hops, NEW d2 \in Hops, Aggregate[d1] = Aggregate[d2]
  PROVE  LET q == LoopFreeMerge(r, d1, d2)
         IN /\ q \subseteq Hops \X Hops
            /\ WellFounded(q)
            /\ \A e \in q : Aggregate[e[1]] # Aggregate[e[2]]
            /\ {e[1] : e \in q} = {e[1] : e \in r}
<1> DEFINE A == {u \in Hops : <<u, d1>> \in r /\ ~CheckDependencyLoop(r, u, d2)}
           q == r \cup (A \X {d2})
<1>1. LoopFreeMerge(r, d1, d2) = q
  BY DEF LoopFreeMerge
<1>2. \A u \in A : Aggregate[u] # Aggregate[d2] /\ u # d2
  OBVIOUS
<1>3. \A u \in A, b \in {d2} : u # b /\ u \notin Reach(r, b)
  BY <1>2 DEF CheckDependencyLoop
<1>4. \A u \in A : \E e \in r : e[1] = u
  OBVIOUS
<1>5. A \in SUBSET Hops /\ {d2} \in SUBSET Hops
  OBVIOUS
<1> HIDE DEF A
<1>6. q \subseteq Hops \X Hops
  BY <1>5
<1>7. WellFounded(q)
  BY <1>3, <1>5, AddPairs
<1>8. \A e \in q : Aggregate[e[1]] # Aggregate[e[2]]
  BY <1>2
<1>9. {e[1] : e \in q} = {e[1] : e \in r}
  <2>1. \A e \in A \X {d2} : e[1] \in A
    OBVIOUS
  <2>2. QED
    BY <1>4, <2>1
<1>10. QED
  BY <1>1, <1>6, <1>7, <1>8, <1>9

\* Step 4b: a relation changes, the flags and the hops that depend do not.
LEMMA ShareKeeps == IInv /\ Share => IInv'
<1> SUFFICES ASSUME IInv, Share
             PROVE  IInv'
  OBVIOUS
<1> DEFINE a == route[cur][i]
           b == route[cur][j]
           q == Exchange(rel[cur], a, b)
<1>1. cur \in Paths /\ a \in Hops /\ b \in Hops /\ i \in Nat /\ j \in Nat
  <2>1. cur \in Paths /\ i \in 1..Len(route[cur]) /\ j \in 1..Len(route[cur])
    BY RouteHops DEF IInv, TypeOK, Share
  <2>2. QED
    BY <2>1, RouteHops DEF IInv
<1>2. rel' = IF Aggregate[a] = Aggregate[b] THEN [rel EXCEPT ![cur] = q] ELSE rel
  BY DEF Share
<1>3. ASSUME Aggregate[a] = Aggregate[b]
      PROVE  /\ q \subseteq Hops \X Hops
             /\ WellFounded(q)
             /\ \A e \in q : Aggregate[e[1]] # Aggregate[e[2]]
             /\ {e[1] : e \in q} = {e[1] : e \in rel[cur]}
  <2> DEFINE r == LoopFreeMerge(rel[cur], a, b)
  <2> HIDE DEF a, b
  <2>1. /\ rel[cur] \subseteq Hops \X Hops
        /\ WellFounded(rel[cur])
        /\ \A e \in rel[cur] : Aggregate[e[1]] # Aggregate[e[2]]
    BY <1>1 DEF IInv, TypeOK, LoopFree, CrossInv
  <2>2. /\ r \subseteq Hops \X Hops
        /\ WellFounded(r)
        /\ \A e \in r : Aggregate[e[1]] # Aggregate[e[2]]
        /\ {e[1] : e \in r} = {e[1] : e \in rel[cur]}
    BY <1>1, <1>3, <2>1, LoopFreeMergeKeeps
  <2>3. q = LoopFreeMerge(r, b, a)
    BY DEF Exchange
  <2> HIDE DEF r, q
  <2>4. QED
    BY <1>1, <1>3, <2>2, <2>3, LoopFreeMergeKeeps
<1> HIDE DEF a, b, q
<1>4. /\ rel' \in [Paths -> SUBSET (Hops \X Hops)]
      /\ \A p \in Paths : p # cur => rel'[p] = rel[p]
      /\ rel'[cur] = rel[cur] \/ (Aggregate[a] = Aggregate[b] /\ rel'[cur] = q)
  BY <1>1, <1>2, <1>3 DEF IInv, TypeOK
<1>5. TypeOK'
  BY <1>1, <1>4 DEF IInv, TypeOK, Share, links, merging
<1>6. CrossInv' /\ LoopFree'
  BY <1>1, <1>3, <1>4 DEF IInv, CrossInv, LoopFree
<1>7. VlanFromLowers'
  <2>1. vlanFrom' = vlanFrom /\ \A p \in Paths : vlanFrom[p] = {e[1] : e \in rel[p]}
    BY DEF Share, IInv, VlanFromLowers
  <2>2. \A p \in Paths : {e[1] : e \in rel'[p]} = {e[1] : e \in rel[p]}
    BY <1>1, <1>3, <1>4
  <2>3. QED
    BY <2>1, <2>2 DEF VlanFromLowers
<1>8. IndexInv' /\ FreshInv'
  BY DEF Share, IndexInv, FreshInv
<1>9. LaterInv'
  BY <1>1, <1>4 DEF IInv, LaterInv, Share, Paths
<1>10. QED
  BY <1>5, <1>6, <1>7, <1>8, <1>9 DEF IInv

\* One hop of a merge: first the hops that depend on it, then those it depends on.
LEMMA MergeHopKeeps == IInv /\ MergeHop => IInv'
<1> SUFFICES ASSUME IInv, MergeHop
             PROVE  IInv'
  OBVIOUS
<1> DEFINE h == route[cur][i]
           S == members \cup {h}
           A == NewUppers(rel[base], rel[cur], S, h)
           r == rel[base] \cup (A \X {h})
           B == NewLowers(r, rel[cur], S, h)
           E == (A \X {h}) \cup ({h} \X B)
<1>1. cur \in Paths /\ base \in Paths /\ h \in Hops /\ S \subseteq Hops /\ i \in Nat
  <2>1. cur \in Paths /\ i \in 1..Len(route[cur])
    BY RouteHops DEF IInv, TypeOK, MergeHop
  <2>2. h \in Hops
    BY <2>1, RouteHops DEF IInv
  <2> HIDE DEF h
  <2>3. QED
    BY <2>1, <2>2 DEF IInv, TypeOK
<1>2. Relate(base, E) /\ members' = S
  BY DEF MergeHop
<1> HIDE DEF h, S
<1>3. A \in SUBSET Hops /\ \A u \in A : Aggregate[u] # Aggregate[h] /\ u # h /\ u \notin Reach(rel[base], h)
  <2>1. \A u \in A : u \in Hops /\ <<u, h>> \in rel[cur] /\ u \notin Reach(rel[base], h)
    BY <1>1 DEF NewUppers, CheckDependencyLoop
  <2>2. \A u \in A : Aggregate[u] # Aggregate[h]
    BY <1>1, <2>1 DEF IInv, CrossInv
  <2>3. QED
    BY <2>1, <2>2
<1>4. B \in SUBSET Hops /\ \A l \in B : Aggregate[l] # Aggregate[h] /\ l # h /\ h \notin Reach(r, l)
  <2>1. \A l \in B : l \in Hops /\ <<h, l>> \in rel[cur] /\ h \notin Reach(r, l)
    BY <1>1 DEF NewLowers, CheckDependencyLoop
  <2>2. \A l \in B : Aggregate[l] # Aggregate[h]
    BY <1>1, <2>1 DEF IInv, CrossInv
  <2>3. QED
    BY <2>1, <2>2
<1>5. rel[base] \subseteq Hops \X Hops /\ WellFounded(rel[base])
  BY <1>1 DEF IInv, TypeOK, LoopFree
<1> HIDE DEF A
<1>6. r \subseteq Hops \X Hops /\ WellFounded(r)
  <2>1. \A u \in A, x \in {h} : u # x /\ u \notin Reach(rel[base], x)
    BY <1>3
  <2>2. QED
    BY <1>1, <1>3, <1>5, <2>1, AddPairs
<1> HIDE DEF B
<1>7. WellFounded(rel[base] \cup E)
  <2>1. \A x \in {h}, l \in B : x # l /\ x \notin Reach(r, l)
    BY <1>4
  <2>2. rel[base] \cup E = r \cup ({h} \X B)
    OBVIOUS
  <2> HIDE DEF r, E
  <2>3. WellFounded(r \cup ({h} \X B))
    BY <1>1, <1>4, <1>6, <2>1, AddPairs
  <2>4. QED
    BY <2>2, <2>3
<1>8. E \in SUBSET (Hops \X Hops) /\ \A e \in E : Aggregate[e[1]] # Aggregate[e[2]]
  BY <1>1, <1>3, <1>4
<1> HIDE DEF E
<1>9. /\ rel' \in [Paths -> SUBSET (Hops \X Hops)]
      /\ vlanFrom' \in [Paths -> SUBSET Hops]
      /\ CrossInv' /\ LoopFree' /\ VlanFromLowers'
  BY <1>1, <1>2, <1>7, <1>8, RelateKeeps
<1>10. TypeOK'
  BY <1>1, <1>2, <1>9 DEF IInv, TypeOK, MergeHop, links
<1>11. IndexInv' /\ FreshInv' /\ LaterInv'
  BY DEF MergeHop, IndexInv, FreshInv, LaterInv
<1>12. QED
  BY <1>9, <1>10, <1>11 DEF IInv

\* From loop to loop: the next path has no relation yet.
LEMMA FinishPassKeeps == IInv /\ FinishPass => IInv'
<1> SUFFICES ASSUME IInv, FinishPass
             PROVE  IInv'
  OBVIOUS
<1>1. CrossInv' /\ LoopFree' /\ VlanFromLowers'
  BY DEF IInv, FinishPass, CrossInv, LoopFree, VlanFromLowers
<1>2. NumPaths \in Nat /\ cur \in Nat
  BY WorkflowAssumption DEF IInv, TypeOK, Paths
<1>3. TypeOK'
  BY <1>2 DEF IInv, TypeOK, FinishPass, EndPass, MorePaths, links, merging, Phases, Paths
<1>4. IndexInv'
  <2>1. cur' \in Paths /\ Len(route[cur'])  >= 1
    BY <1>3, RouteHops DEF TypeOK, IInv
  <2>2. route' = route /\ (phase' = "produce" \/ phase' = "order" => i' = 1)
    BY DEF FinishPass, EndPass, links
  <2>3. QED
    BY <2>1, <2>2 DEF IndexInv
<1>5. FreshInv'
  <2>1. SUFFICES ASSUME phase' = "produce"
                 PROVE  /\ \A e \in rel'[cur'] : e[1] \in Seen(cur, i)' /\ e[2] \in Seen(cur, i)'
                        /\ \A p \in Paths : p > cur' => rel'[p] = {}
    BY DEF FreshInv
  <2>2. phase = "share" /\ cur' = cur + 1 /\ cur' \in Paths /\ rel' = rel
    BY <1>2, <2>1 DEF FinishPass, EndPass, MorePaths, Paths
  <2>3. \A p \in Paths : p > cur => rel[p] = {}
    BY <2>2 DEF IInv, LaterInv
  <2>4. rel'[cur'] = {} /\ \A p \in Paths : p > cur' => rel'[p] = {}
    BY <1>2, <2>2, <2>3 DEF Paths
  <2>5. QED
    BY <2>4
<1>6. LaterInv'
  BY DEF IInv, FreshInv, LaterInv, FinishPass, EndPass
<1>7. QED
  BY <1>1, <1>3, <1>4, <1>5, <1>6 DEF IInv

\* The steps around the merge leave the relations alone.
LEMMA AroundMergeKeeps ==
  IInv /\ (KeepApart \/ Choose \/ TakeNext \/ EndMerge \/ Finish \/ UNCHANGED vars) => IInv'
<1> SUFFICES ASSUME IInv, KeepApart \/ Choose \/ TakeNext \/ EndMerge \/ Finish \/ UNCHANGED vars
             PROVE  IInv'
  OBVIOUS
<1>1. CASE UNCHANGED vars
  BY <1>1 DEF vars, IInv, TypeOK, IndexInv, CrossInv, FreshInv, LaterInv, LoopFree,
              VlanFromLowers, Seen
<1>2. CASE KeepApart \/ Choose \/ TakeNext \/ EndMerge \/ Finish
  <2>1. rel' = rel /\ vlanFrom' = vlanFrom /\ phase' \notin {"produce", "order", "share"}
    BY <1>2 DEF KeepApart, Choose, TakeNext, EndMerge, Finish
  <2>2. CrossInv' /\ LoopFree' /\ VlanFromLowers' /\ IndexInv' /\ FreshInv' /\ LaterInv'
    BY <2>1 DEF IInv, CrossInv, LoopFree, VlanFromLowers, IndexInv, FreshInv, LaterInv
  <2>3. TypeOK'
    <3>1. CASE Choose
      <4>1. PICK p \in Paths : base' = p /\ left' = left \ {p}
                               /\ members' = {route[p][n] : n \in 1..Len(route[p])}
        BY <3>1 DEF Choose
      <4>2. members' \subseteq Hops
        BY <4>1, RouteHops DEF IInv
      <4>3. QED
        BY <3>1, <4>1, <4>2 DEF IInv, TypeOK, Choose, links, Phases
    <3>2. CASE KeepApart \/ TakeNext \/ EndMerge \/ Finish
      BY <3>2 DEF IInv, TypeOK, KeepApart, TakeNext, EndMerge, Finish, links, merging, Phases
    <3>3. QED
      BY <1>2, <3>1, <3>2
  <2>4. QED
    BY <2>2, <2>3 DEF IInv
<1>3. QED
  BY <1>1, <1>2

-----------------------------------------------------------------------------
LEMMA Invariance == Spec => []IInv
<1>1. Init => IInv
  <2> SUFFICES ASSUME Init
               PROVE  IInv
    OBVIOUS
  <2>1. TypeOK
    BY WorkflowAssumption DEF Init, TypeOK, Phases, Paths
  <2>2. cur \in Paths
    BY <2>1 DEF TypeOK
  <2>3. IndexInv
    BY <2>1, <2>2, RouteHops DEF Init, IndexInv
  <2>4. WellFounded({})
    BY DEF WellFounded
  <2>5. CrossInv /\ FreshInv /\ LaterInv /\ LoopFree
    BY <2>2, <2>4 DEF Init, CrossInv, FreshInv, LaterInv, LoopFree
  <2>6. VlanFromLowers
    BY DEF Init, VlanFromLowers
  <2>7. QED
    BY <2>1, <2>3, <2>5, <2>6 DEF IInv
<1>2. IInv /\ [Next]_vars => IInv'
  BY ProduceKeeps, OrderKeeps, ShareKeeps, FinishPassKeeps, MergeHopKeeps, AroundMergeKeeps
     DEF Next, Finished
<1>3. QED
  BY <1>1, <1>2, PTL DEF Spec

(* Every variable keeps to its type, for any number of paths of any length *)
(* (workflow.cc, ComputeDependency and MergeDependencies).                 *)
THEOREM TypeCorrect == Spec => []TypeOK
<1>1. IInv => TypeOK
  BY DEF IInv
<1>2. QED
  BY <1>1, Invariance, PTL

(* The dependencies of a path and those of merged paths have no loop: the  *)
(* recursion of CheckDependencyLoop ends, and there is an order in which   *)
(* the aggregates can be asked.                                            *)
THEOREM NeverALoop == Spec => []LoopFree
<1>1. IInv => LoopFree
  BY DEF IInv
<1>2. QED
  BY <1>1, Invariance, PTL

(* A hop has getVlanFrom set if and only if it depends on some hop, also   *)
(* after LoopFreeMerge, which gives out dependencies but sets no flags.    *)
THEOREM FlagsMatch == Spec => []VlanFromLowers
<1>1. IInv => VlanFromLowers
  BY DEF IInv
<1>2. QED
  BY <1>1, Invariance, PTL

-----------------------------------------------------------------------------
\* A relation that grows reaches further.
LEMMA ReachGrows ==
  ASSUME NEW r, NEW q, r \subseteq q, q \subseteq Hops \X Hops, NEW x \in Hops
  PROVE  Reach(r, x) \subseteq Reach(q, x)
BY DEF Reach, ClosedBelow

\* The hops of one route.
LEMMA SeenFacts ==
  ASSUME TypeOK, NEW p \in Paths
  PROVE  /\ Seen(p, 0) = {}
         /\ Seen(p, Len(route[p])) = HopsOf(p)
         /\ HopsOf(p) \subseteq Hops
         /\ \A n \in 1..Len(route[p]) : Seen(p, n) = Seen(p, n - 1) \cup {route[p][n]}
<1>1. Len(route[p]) \in Nat /\ \A m \in 1..Len(route[p]) : route[p][m] \in Hops
  BY RouteHops
<1>2. \A n \in 1..Len(route[p]) : 1..n = (1..(n - 1)) \cup {n}
  BY <1>1
<1>3. 1..0 = {}
  OBVIOUS
<1>4. QED
  BY <1>1, <1>2, <1>3 DEF Seen, HopsOf

\* What holds of a pair goes on holding.
LEMMA KeptGrows ==
  ASSUME IInv, IInv', base' = base, rel[base] \subseteq rel'[base],
         NEW e \in Hops \X Hops, Kept(e)
  PROVE  e \in rel'[base] \/ e[1] \in Reach(rel'[base], e[2])
<1>1. base \in Paths /\ rel'[base] \subseteq Hops \X Hops /\ e[2] \in Hops
  BY DEF IInv, TypeOK
<1>2. Reach(rel[base], e[2]) \subseteq Reach(rel'[base], e[2])
  BY <1>1, ReachGrows
<1>3. QED
  BY <1>2 DEF Kept

\* The first two passes relate neighbours on the route.
LEMMA PassDrops ==
  ASSUME IInv, DropInv, Produce \/ Order
  PROVE  DropInv'
<1> DEFINE a == route[cur][i]
           b == route[cur][i + 1]
<1>1. /\ cur \in Paths /\ a \in HopsOf(cur) /\ b \in HopsOf(cur)
  BY RouteHops DEF IInv, TypeOK, Produce, Order, HopsOf
<1>2. PICK E \in SUBSET {<<a, b>>, <<b, a>>} : rel' = [rel EXCEPT ![cur] = @ \cup E]
  BY DEF Produce, Order, Relate
<1>3. /\ phase' = phase /\ phase \in {"produce", "order"}
      /\ UNCHANGED <<left, route, base, members>>
  BY DEF Produce, Order, links, merging
<1> HIDE DEF a, b
<1>4. \A e \in E : e[1] \in HopsOf(cur) /\ e[2] \in HopsOf(cur)
  BY <1>1
<1>5. \A p \in Paths : rel'[p] = IF p = cur THEN rel[p] \cup E ELSE rel[p]
  BY <1>2 DEF IInv, TypeOK
<1>6. \A p \in Paths : HopsOf(p)' = HopsOf(p)
  BY <1>3 DEF HopsOf
<1>7. OnRoute'
  <2>1. \A p \in left : p \in Paths /\ \A e \in rel[p] : e[1] \in HopsOf(p) /\ e[2] \in HopsOf(p)
    BY DEF DropInv, OnRoute, IInv, TypeOK
  <2>2. \A p \in left : \A e \in rel'[p] : e[1] \in HopsOf(p) /\ e[2] \in HopsOf(p)
    BY <1>4, <1>5, <2>1
  <2>3. QED
    BY <1>3, <1>6, <2>1, <2>2 DEF OnRoute
<1>8. StageInv'
  BY <1>3 DEF DropInv, StageInv
<1>9. KeptInv'
  BY <1>3 DEF KeptInv
<1>10. QED
  BY <1>7, <1>8, <1>9 DEF DropInv

\* Step 4b gives the hops it deals with the uppers of one another.
LEMMA ExchangeAdds ==
  ASSUME NEW r, r \subseteq Hops \X Hops, NEW d1 \in Hops, NEW d2 \in Hops,
         NEW e \in Exchange(r, d1, d2)
  PROVE  \/ e \in r
         \/ e[2] \in {d1, d2} /\ \E f \in r : f[1] = e[1] /\ f[2] \in {d1, d2}
<1> DEFINE q == LoopFreeMerge(r, d1, d2)
<1>1. \A f \in q : f \in r \/ (f[2] = d2 /\ <<f[1], d1>> \in r)
  BY DEF LoopFreeMerge
<1>2. e \in q \/ (e[2] = d1 /\ <<e[1], d2>> \in q)
  BY DEF Exchange, LoopFreeMerge
<1> HIDE DEF q
<1>3. CASE e \in q
  <2>1. ASSUME e[2] = d2, <<e[1], d1>> \in r
        PROVE  \E f \in r : f[1] = e[1] /\ f[2] \in {d1, d2}
    BY <2>1
  <2>2. QED
    BY <1>1, <1>3, <2>1
<1>4. CASE e[2] = d1 /\ <<e[1], d2>> \in q
  <2>1. <<e[1], d2>> \in r \/ <<e[1], d1>> \in r
    BY <1>1, <1>4
  <2>2. \E f \in r : f[1] = e[1] /\ f[2] \in {d1, d2}
    <3>1. CASE <<e[1], d2>> \in r
      BY <3>1
    <3>2. CASE <<e[1], d1>> \in r
      BY <3>2
    <3>3. QED
      BY <2>1, <3>1, <3>2
  <2>3. QED
    BY <1>4, <2>2
<1>5. QED
  BY <1>2, <1>3, <1>4

LEMMA ShareDrops ==
  ASSUME IInv, DropInv, Share
  PROVE  DropInv'
<1> DEFINE a == route[cur][i]
           b == route[cur][j]
<1>1. cur \in Paths /\ a \in HopsOf(cur) /\ b \in HopsOf(cur) /\ a \in Hops /\ b \in Hops
  <2>1. cur \in Paths /\ i \in 1..Len(route[cur]) /\ j \in 1..Len(route[cur])
    BY RouteHops DEF IInv, TypeOK, Share
  <2>2. QED
    BY <2>1, RouteHops DEF IInv, HopsOf
<1>2. rel' = IF Aggregate[a] = Aggregate[b] THEN [rel EXCEPT ![cur] = Exchange(rel[cur], a, b)]
                                            ELSE rel
  BY DEF Share
<1>3. phase' = "share" /\ phase = "share" /\ UNCHANGED <<left, route, base, members>>
  BY DEF Share, links, merging
<1> HIDE DEF a, b
<1>4. rel[cur] \subseteq Hops \X Hops
  BY <1>1 DEF IInv, TypeOK
<1>5. \A p \in Paths : HopsOf(p)' = HopsOf(p)
  BY <1>3 DEF HopsOf
<1>6. ASSUME NEW p \in left, NEW e \in rel'[p]
      PROVE  e[1] \in HopsOf(p) /\ e[2] \in HopsOf(p)
  <2>1. p \in Paths
    BY DEF IInv, TypeOK
  <2>2. CASE e \in rel[p]
    BY <2>2 DEF DropInv, OnRoute
  <2>3. CASE e \notin rel[p]
    <3>1. p = cur /\ e \in Exchange(rel[cur], a, b)
      BY <1>1, <1>2, <1>6, <2>1, <2>3 DEF IInv, TypeOK
    <3>2. e[2] \in {a, b} /\ \E f \in rel[cur] : f[1] = e[1]
      BY <1>1, <1>4, <2>3, <3>1, ExchangeAdds
    <3>3. QED
      BY <1>1, <3>1, <3>2 DEF DropInv, OnRoute
  <2>4. QED
    BY <2>2, <2>3
<1>7. OnRoute'
  BY <1>3, <1>5, <1>6 DEF OnRoute, IInv, TypeOK
<1>8. StageInv' /\ KeptInv'
  BY <1>3 DEF DropInv, StageInv, KeptInv
<1>9. QED
  BY <1>7, <1>8 DEF DropInv

\* A hop that is merged brings every pair that it makes with an earlier one.
LEMMA MergeDrops ==
  ASSUME IInv, IInv', DropInv, MergeHop
  PROVE  DropInv'
<1> DEFINE h == route[cur][i]
           S == members \cup {h}
           A == NewUppers(rel[base], rel[cur], S, h)
           r == rel[base] \cup (A \X {h})
           B == NewLowers(r, rel[cur], S, h)
           E == (A \X {h}) \cup ({h} \X B)
<1>1. /\ phase' = "merge" /\ phase = "merge" /\ UNCHANGED <<left, route, base, cur>>
      /\ members' = S /\ i' = i + 1 /\ i \in 1..Len(route[cur])
      /\ rel' = [rel EXCEPT ![base] = @ \cup E]
  BY RouteHops DEF MergeHop, Relate, links, IInv, TypeOK
<1>2. cur \in Paths /\ base \in Paths /\ cur \in left /\ base \notin left /\ cur # base /\ h \in Hops
  BY <1>1, RouteHops DEF IInv, TypeOK, DropInv, StageInv
<1>3. rel'[base] = rel[base] \cup E /\ \A p \in Paths : p # base => rel'[p] = rel[p]
  BY <1>1, <1>2 DEF IInv, TypeOK
<1>4. \A p \in Paths : \A e \in rel[p] : e \in Hops \X Hops
  BY DEF IInv, TypeOK
<1>5. \A p \in Paths : HopsOf(p)' = HopsOf(p)
  BY <1>1 DEF HopsOf
<1>6. OnRoute'
  BY <1>1, <1>2, <1>3, <1>5 DEF DropInv, OnRoute, IInv, TypeOK
<1>7. Seen(cur, i) = Seen(cur, i - 1) \cup {h} /\ Seen(cur, i - 1) \subseteq members
  BY <1>1, <1>2, SeenFacts DEF DropInv, StageInv, IInv
<1>8. (i + 1) - 1 = i /\ i' <= Len(route[cur]) + 1
  BY <1>1, <1>2, RouteHops DEF IInv
<1>9. StageInv'
  <2>1. Seen(cur, i) \subseteq members'
    BY <1>1, <1>7
  <2>2. Seen(cur, i - 1)' = Seen(cur, i)
    BY <1>1, <1>8 DEF Seen
  <2> HIDE DEF h, S
  <2>3. QED
    BY <1>1, <1>2, <1>8, <2>1, <2>2 DEF StageInv
<1> HIDE DEF h
<1>10. ASSUME NEW e \in rel[cur], e[1] \in Seen(cur, i), e[2] \in Seen(cur, i)
       PROVE  e \in rel'[base] \/ e[1] \in Reach(rel'[base], e[2])
  <2>1. e \in Hops \X Hops /\ e = <<e[1], e[2]>> /\ e[1] # e[2]
    BY <1>2, <1>4 DEF IInv, CrossInv
  <2>2. rel'[base] \subseteq Hops \X Hops /\ e[1] \in Hops /\ e[2] \in Hops
    BY <1>2, <2>1 DEF IInv, TypeOK
  <2>3. CASE e[1] # h /\ e[2] # h
    <3>1. Kept(e)
      BY <1>1, <1>7, <1>10, <2>3 DEF DropInv, KeptInv
    <3>2. rel[base] \subseteq rel'[base]
      BY <1>3
    <3>3. QED
      BY <1>1, <2>1, <3>1, <3>2, KeptGrows
  <2>4. CASE e[2] = h
    <3>1. e[1] \in S /\ <<e[1], h>> \in rel[cur]
      BY <1>7, <1>10, <2>1, <2>4
    <3>2. CASE e[1] \in A
      <4>1. <<e[1], h>> \in A \X {h}
        BY <3>2
      <4>2. QED
        BY <1>3, <2>1, <2>4, <4>1
    <3>3. CASE <<e[1], h>> \in rel[base]
      BY <1>3, <2>1, <2>4, <3>3
    <3>4. CASE e[1] \in Reach(rel[base], h)
      <4>1. rel[base] \subseteq rel'[base]
        BY <1>3
      <4>2. Reach(rel[base], h) \subseteq Reach(rel'[base], h)
        BY <1>2, <2>2, <4>1, ReachGrows
      <4>3. QED
        BY <2>4, <3>4, <4>2
    <3>5. QED
      BY <3>1, <3>2, <3>3, <3>4 DEF NewUppers, CheckDependencyLoop
  <2>5. CASE e[1] = h
    <3>1. e[2] \in S /\ <<h, e[2]>> \in rel[cur]
      BY <1>7, <1>10, <2>1, <2>5
    <3>2. r \subseteq rel'[base]
      BY <1>3
    <3>3. CASE e[2] \in B
      <4>1. <<h, e[2]>> \in {h} \X B
        BY <3>3
      <4>2. QED
        BY <1>3, <2>1, <2>5, <4>1
    <3>4. CASE <<h, e[2]>> \in r
      BY <2>1, <2>5, <3>2, <3>4
    <3>5. CASE h \in Reach(r, e[2])
      <4> HIDE DEF r
      <4>1. Reach(r, e[2]) \subseteq Reach(rel'[base], e[2])
        BY <2>2, <3>2, ReachGrows
      <4>2. QED
        BY <2>5, <3>5, <4>1
    <3>6. QED
      BY <3>1, <3>3, <3>4, <3>5 DEF NewLowers, CheckDependencyLoop
  <2>6. QED
    BY <2>3, <2>4, <2>5
<1>11. ASSUME NEW p \in Paths \ left, NEW e \in rel'[p]
       PROVE  e \in rel'[base] \/ e[1] \in Reach(rel'[base], e[2])
  <2>1. CASE p = base
    BY <1>11, <2>1
  <2>2. CASE p # base
    <3>1. e \in rel[p] /\ Kept(e) /\ e \in Hops \X Hops
      BY <1>1, <1>3, <1>4, <1>11, <2>2 DEF DropInv, KeptInv
    <3>2. rel[base] \subseteq rel'[base]
      BY <1>3
    <3>3. QED
      BY <1>1, <3>1, <3>2, KeptGrows
  <2>3. QED
    BY <2>1, <2>2
<1>12. KeptInv'
  <2>1. Seen(cur, i - 1)' = Seen(cur, i)
    BY <1>1, <1>8 DEF Seen
  <2>2. rel'[cur] = rel[cur]
    BY <1>2, <1>3
  <2> HIDE DEF E, S, A, B, r
  <2>3. QED
    BY <1>1, <1>10, <1>11, <2>1, <2>2 DEF KeptInv, Kept
<1>13. QED
  BY <1>6, <1>9, <1>12 DEF DropInv

\* The steps that leave the relations alone.
LEMMA RestDrops ==
  ASSUME IInv, IInv', DropInv,
         FinishPass \/ KeepApart \/ Choose \/ TakeNext \/ EndMerge \/ Finish \/ UNCHANGED vars
  PROVE  DropInv'
<1>1. rel' = rel /\ route' = route
  BY DEF FinishPass, KeepApart, Choose, TakeNext, EndMerge, Finish, vars, links
<1>2. \A p \in Paths : HopsOf(p)' = HopsOf(p)
  BY <1>1 DEF HopsOf
<1>3. left' \subseteq left
  BY DEF FinishPass, KeepApart, Choose, TakeNext, EndMerge, Finish, vars, links, merging
<1>4. OnRoute'
  BY <1>1, <1>2, <1>3 DEF DropInv, OnRoute, IInv, TypeOK
<1>5. CASE FinishPass
  <2>1. phase' \in {"produce", "order", "share", "choose"} /\ UNCHANGED merging /\ left = Paths
    BY <1>5 DEF FinishPass, EndPass, DropInv, StageInv
  <2>2. QED
    BY <1>4, <2>1 DEF DropInv, StageInv, KeptInv, merging
<1>6. CASE KeepApart
  <2>1. phase' = "done" /\ UNCHANGED merging /\ left = Paths
    BY <1>6 DEF KeepApart, DropInv, StageInv
  <2>2. QED
    BY <1>4, <2>1 DEF DropInv, StageInv, KeptInv, merging
<1>7. CASE Choose
  <2>1. PICK p \in Paths : base' = p /\ left' = left \ {p}
    BY <1>7 DEF Choose
  <2>2. phase' = "next" /\ left = Paths
    BY <1>7 DEF Choose, DropInv, StageInv
  <2>3. QED
    BY <1>1, <1>4, <2>1, <2>2 DEF DropInv, StageInv, KeptInv, Kept
<1>8. CASE TakeNext
  <2>1. phase = "next" /\ phase' = "merge" /\ cur' \in left /\ cur' \in Paths /\ i' = 1 /\ UNCHANGED merging
    BY <1>8 DEF TakeNext, IsNext
  <2>2. Seen(cur, i - 1)' = {}
    BY <2>1 DEF Seen
  <2>3. i' <= Len(route'[cur']) + 1
    BY <1>1, <2>1, RouteHops DEF IInv
  <2>4. StageInv'
    BY <2>1, <2>2, <2>3 DEF DropInv, StageInv, merging
  <2>5. KeptInv'
    BY <1>1, <2>1, <2>2 DEF DropInv, KeptInv, Kept, merging
  <2>6. QED
    BY <1>4, <2>4, <2>5 DEF DropInv
<1>9. CASE EndMerge
  <2>1. /\ phase = "merge" /\ phase' = "next" /\ left' = left \ {cur} /\ base' = base
        /\ i > Len(route[cur]) /\ cur \in Paths
    BY <1>9 DEF EndMerge, IInv, TypeOK
  <2>2. i - 1 = Len(route[cur]) /\ cur \in left
    BY <2>1, RouteHops DEF DropInv, StageInv, IInv, TypeOK
  <2>3. Seen(cur, i - 1) = HopsOf(cur)
    BY <2>1, <2>2, SeenFacts DEF IInv
  <2>4. \A e \in rel[cur] : Kept(e)
    BY <2>1, <2>2, <2>3 DEF DropInv, OnRoute, KeptInv
  <2>5. StageInv'
    BY <2>1 DEF DropInv, StageInv
  <2>6. KeptInv'
    BY <1>1, <2>1, <2>4 DEF DropInv, KeptInv, Kept
  <2>7. QED
    BY <1>4, <2>5, <2>6 DEF DropInv
<1>10. CASE Finish
  <2>1. phase = "next" /\ phase' = "done" /\ UNCHANGED merging
    BY <1>10 DEF Finish
  <2>2. QED
    BY <1>1, <1>4, <2>1 DEF DropInv, StageInv, KeptInv, Kept, merging
<1>11. CASE UNCHANGED vars
  <2>1. Seen(cur, i - 1)' = Seen(cur, i - 1)
    BY <1>11 DEF vars, Seen
  <2>2. QED
    BY <1>4, <1>11, <2>1 DEF vars, DropInv, StageInv, KeptInv, Kept
<1>12. QED
  BY <1>5, <1>6, <1>7, <1>8, <1>9, <1>10, <1>11

LEMMA StepKeeps == IInv /\ [Next]_vars => IInv'
BY ProduceKeeps, OrderKeeps, ShareKeeps, FinishPassKeeps, MergeHopKeeps, AroundMergeKeeps
   DEF Next, Finished

LEMMA DropInvariance == Spec => []DropInv
<1>1. Init => DropInv
  BY DEF Init, DropInv, OnRoute, StageInv, KeptInv
<1>2. IInv /\ IInv' /\ DropInv /\ [Next]_vars => DropInv'
  BY PassDrops, ShareDrops, MergeDrops, RestDrops DEF Next, Finished
<1>3. QED
  BY <1>1, <1>2, Invariance, PTL DEF Spec

(* A merged workflow has every dependency of every path, or has its hops   *)
(* in the opposite order, whatever the merging refused on its way.         *)
THEOREM MergeKeeps == Spec => []NothingDropped
<1>1. DropInv /\ TypeOK => NothingDropped
  BY DEF DropInv, KeptInv, Kept, NothingDropped
<1>2. QED
  BY <1>1, DropInvariance, TypeCorrect, PTL

-----------------------------------------------------------------------------
\* Of two hops that do not both translate VLANs one should depend on the other.
LEMMA EitherDepends ==
  ASSUME TypeOK, NEW p \in Paths, NEW u \in Hops, NEW l \in Hops,
         ~(kind[u].translates /\ kind[l].translates)
  PROVE  ShouldDepend(p, u, l) \/ ShouldDepend(p, l, u)
<1> DEFINE N == 1..Len(route[p])
           f == [n \in N |-> route[p][n]]
           T == {route[p][n] : n \in N}
<1>1. Len(route[p]) \in Nat
  BY RouteHops
<1>2. IsFiniteSet(N)
  BY <1>1, FS_Interval
<1>3. f \in Surjection(N, T)
  BY DEF Surjection
<1>4. IsFiniteSet(T)
  <2> HIDE DEF f, N, T
  <2>1. QED
    BY <1>2, <1>3, FS_Surjection
<1>5. \A h \in Hops : Cardinality(Mates(p, h)) \in Nat
  <2>1. \A h \in Hops : Mates(p, h) \in SUBSET T
    BY DEF Mates
  <2> HIDE DEF T
  <2>2. QED
    BY <1>4, <2>1, FS_Subset, FS_CardinalityType
<1>6. \A h \in Hops : Cardinality(VlanRange(p, h)) \in Nat
  <2>1. \A h \in Hops : VlanRange(p, h) \in SUBSET Tags
    BY DEF VlanRange
  <2>2. IsFiniteSet(Tags)
    BY WorkflowAssumption
  <2>3. QED
    BY <2>1, <2>2, FS_Subset, FS_CardinalityType
<1>7. Prefers(p, u, l) \/ Prefers(p, l, u)
  BY <1>5, <1>6 DEF Prefers, NoFewerVlans
<1>8. QED
  BY <1>7 DEF ShouldDepend

\* No dependency of a path is ever taken back.
LEMMA RelGrows ==
  ASSUME IInv, [Next]_vars, NEW p \in Paths
  PROVE  rel[p] \subseteq rel'[p]
<1>1. CASE Produce \/ Order \/ MergeHop
  <2>1. \E q \in Paths : \E E : rel' = [rel EXCEPT ![q] = @ \cup E]
    BY <1>1 DEF Produce, Order, MergeHop, Relate, IInv, TypeOK
  <2>2. QED
    BY <2>1 DEF IInv, TypeOK
<1>2. CASE Share
  <2>1. \A r, d1, d2 : r \subseteq Exchange(r, d1, d2)
    BY DEF Exchange, LoopFreeMerge
  <2>2. QED
    BY <1>2, <2>1 DEF Share, IInv, TypeOK
<1>3. CASE UNCHANGED rel
  BY <1>3
<1>4. QED
  BY <1>1, <1>2, <1>3
     DEF Next, FinishPass, KeepApart, Choose, TakeNext, EndMerge, Finish, Finished, vars

LEMMA LinksKept ==
  ASSUME [Next]_vars
  PROVE  UNCHANGED links
BY DEF Next, Produce, Order, Share, FinishPass, KeepApart, Choose, TakeNext, MergeHop, EndMerge,
       Finish, Finished, vars, links

\* A boundary that is ordered remains so.
LEMMA BoundaryGrows ==
  ASSUME IInv, IInv', [Next]_vars, NEW p \in Paths, NEW n \in 1..(Len(route[p]) - 1),
         BoundaryOrdered(p, n)
  PROVE  BoundaryOrdered(p, n)'
<1> DEFINE a == route[p][n]
           b == route[p][n + 1]
<1>1. a \in Hops /\ b \in Hops
  BY RouteHops DEF IInv
<1>2. route' = route /\ kind' = kind
  BY LinksKept DEF links
<1>3. rel[p] \subseteq rel'[p] /\ rel'[p] \subseteq Hops \X Hops
  BY RelGrows DEF IInv, TypeOK
<1>4. Reach(rel[p], a) \subseteq Reach(rel'[p], a) /\ Reach(rel[p], b) \subseteq Reach(rel'[p], b)
  <2> HIDE DEF a, b
  <2>1. QED
    BY <1>1, <1>3, ReachGrows
<1>5. QED
  BY <1>2, <1>4 DEF BoundaryOrdered

\* The second pass orders the boundary it comes to.
LEMMA OrderOrders ==
  ASSUME IInv, IInv', Order, NEW p, NEW n, p = cur, n = i
  PROVE  BoundaryOrdered(p, n)'
<1> DEFINE a == route[cur][i]
           b == route[cur][i + 1]
           E == {e \in {<<a, b>>, <<b, a>>} :
                    /\ Aggregate[a] # Aggregate[b]
                    /\ MayDepend(cur, e[1], e[2])
                    /\ e = <<b, a>> => ~MayDepend(cur, a, b)}
<1>1. cur \in Paths /\ a \in Hops /\ b \in Hops
  <2>1. TypeOK /\ cur \in Paths /\ i \in Nat \ {0} /\ i < Len(route[cur])
    BY DEF IInv, TypeOK, Order
  <2>2. Len(route[cur]) \in Nat /\ \A m \in 1..Len(route[cur]) : route[cur][m] \in Hops
    BY <2>1, RouteHops
  <2>3. i \in 1..Len(route[cur]) /\ i + 1 \in 1..Len(route[cur])
    BY <2>1, <2>2
  <2>4. QED
    BY <2>1, <2>2, <2>3
<1>2. rel'[cur] = rel[cur] \cup E /\ rel'[cur] \subseteq Hops \X Hops
  BY <1>1 DEF IInv, TypeOK, Order, Relate
<1>3. route' = route /\ kind' = kind
  BY DEF Order, links
<1>4. CASE Aggregate[a] = Aggregate[b] \/ (kind[a].translates /\ kind[b].translates)
  BY <1>3, <1>4 DEF BoundaryOrdered
<1>5. CASE Aggregate[a] # Aggregate[b] /\ ~(kind[a].translates /\ kind[b].translates)
  <2>1. ShouldDepend(cur, a, b) \/ ShouldDepend(cur, b, a)
    <3> HIDE DEF a, b
    <3>1. QED
      BY <1>1, <1>5, EitherDepends DEF IInv
  <2>2. \/ a \in Reach(rel[cur], b) \/ b \in Reach(rel[cur], a)
        \/ MayDepend(cur, a, b) \/ MayDepend(cur, b, a)
    BY <2>1 DEF MayDepend, CheckDependencyLoop
  <2>3. \/ a \in Reach(rel[cur], b) \/ b \in Reach(rel[cur], a)
        \/ <<a, b>> \in E \/ <<b, a>> \in E
    <3> HIDE DEF a, b
    <3>1. CASE MayDepend(cur, a, b)
      <4>1. <<a, b>> \in E
        BY <1>5, <3>1
      <4>2. QED
        BY <4>1
    <3>2. CASE ~MayDepend(cur, a, b) /\ MayDepend(cur, b, a)
      <4>1. <<b, a>> \in E
        BY <1>5, <3>2
      <4>2. QED
        BY <4>1
    <3>3. QED
      BY <2>2, <3>1, <3>2
  <2> HIDE DEF E
  <2>4. a \in Reach(rel'[cur], b) \/ b \in Reach(rel'[cur], a)
    <3> HIDE DEF a, b
    <3>1. rel[cur] \subseteq rel'[cur]
      BY <1>2
    <3>2. /\ Reach(rel[cur], a) \subseteq Reach(rel'[cur], a)
          /\ Reach(rel[cur], b) \subseteq Reach(rel'[cur], b)
      BY <1>1, <1>2, <3>1, ReachGrows
    <3>3. CASE <<a, b>> \in E
      BY <1>1, <1>2, <3>3, ReachClosed
    <3>4. CASE <<b, a>> \in E
      BY <1>1, <1>2, <3>4, ReachClosed
    <3>5. QED
      BY <2>3, <3>2, <3>3, <3>4
  <2>5. QED
    BY <1>3, <2>4 DEF BoundaryOrdered
<1>6. QED
  BY <1>4, <1>5

LEMMA BoundaryStep ==
  ASSUME IInv, IInv', PairsInv, BoundaryInv, [Next]_vars
  PROVE  BoundaryInv'
<1>1. route' = route
  BY LinksKept DEF links
<1> SUFFICES ASSUME NEW p \in Paths, NEW n \in 1..(Len(route[p]) - 1),
                    (Ordered(p) \/ (p = cur /\ (phase = "share" \/ (phase = "order" /\ n < i))))'
             PROVE  BoundaryOrdered(p, n)'
  BY <1>1 DEF BoundaryInv
<1>2. \/ BoundaryOrdered(p, n)
      \/ Order /\ p = cur /\ n = i
  <2>1. /\ cur \in Nat /\ i \in Nat /\ NumPaths \in Nat /\ p \in Nat /\ p <= NumPaths /\ n \in Nat
        /\ Len(route[p]) \in Nat /\ n < Len(route[p])
    <3>1. TypeOK
      BY DEF IInv
    <3>2. Len(route[p]) \in Nat /\ NumPaths \in Nat
      BY <3>1, RouteHops, WorkflowAssumption
    <3>3. n \in Nat /\ n < Len(route[p])
      BY <3>2
    <3>4. QED
      BY <3>1, <3>2, <3>3 DEF TypeOK, Paths
  <2>2. CASE Ordered(p) \/ (p = cur /\ (phase = "share" \/ (phase = "order" /\ n < i)))
    <3>1. n \in 1..(Len(route[p]) - 1)
      OBVIOUS
    <3>2. BoundaryOrdered(p, n)
      BY <2>2, <3>1 DEF BoundaryInv
    <3>3. QED
      BY <3>2
  <2>3. CASE Produce \/ Share
    BY <2>2, <2>3 DEF Produce, Share, Ordered
  <2>4. CASE Order
    BY <2>1, <2>2, <2>4 DEF Order, Ordered
  <2>5. CASE FinishPass
    <3>1. CASE phase = "produce"
      BY <2>1, <2>2, <2>5, <3>1 DEF FinishPass, EndPass, Ordered
    <3>2. CASE phase = "order"
      BY <2>1, <2>2, <2>5, <3>2 DEF FinishPass, EndPass, Ordered
    <3>3. CASE phase = "share" /\ MorePaths
      BY <2>1, <2>2, <2>5, <3>3 DEF FinishPass, EndPass, Ordered
    <3>4. CASE phase = "share" /\ ~MorePaths
      BY <2>1, <2>2, <2>5, <3>4 DEF FinishPass, EndPass, Ordered, MorePaths
    <3>5. QED
      BY <2>5, <3>1, <3>2, <3>3, <3>4 DEF FinishPass, EndPass
  <2>6. CASE KeepApart \/ Choose \/ TakeNext \/ MergeHop \/ EndMerge \/ Finish
    BY <2>2, <2>6 DEF KeepApart, Choose, TakeNext, MergeHop, EndMerge, Finish, Ordered
  <2>7. CASE UNCHANGED vars
    BY <2>2, <2>7 DEF vars, Ordered
  <2>8. QED
    BY <2>3, <2>4, <2>5, <2>6, <2>7 DEF Next, Finished
<1>3. CASE BoundaryOrdered(p, n)
  BY <1>3, BoundaryGrows
<1>4. CASE Order /\ p = cur /\ n = i
  BY <1>4, OrderOrders
<1>5. QED
  BY <1>2, <1>3, <1>4

LEMMA PairsStep ==
  ASSUME IInv, IInv', PairsInv, [Next]_vars
  PROVE  PairsInv'
<1>1. route' = route
  BY LinksKept DEF links
<1>2. /\ cur \in Paths /\ i \in Nat /\ j \in Nat
      /\ Len(route[cur]) \in Nat /\ Len(route[cur]) >= 1
  BY RouteHops DEF IInv, TypeOK
<1>3. CASE Share
  <2>1. /\ i < j /\ j <= Len(route[cur]) /\ cur' = cur
        /\ IF j < Len(route[cur]) THEN i' = i /\ j' = j + 1
                                  ELSE i' = i + 1 /\ j' = i + 2
    BY <1>3 DEF Share
  <2>2. /\ i' < j' /\ j' <= Len(route[cur]) + 1
        /\ j' = Len(route[cur]) + 1 => i' = Len(route[cur])
    BY <1>2, <2>1
  <2>3. Len(route[cur]) = Len(route[cur])'
    BY <1>1, <2>1
  <2>4. /\ i' < j' /\ j' <= Len(route[cur])' + 1
        /\ j' = Len(route[cur])' + 1 => i' = Len(route[cur])'
    <3> DEFINE m == Len(route[cur])
    <3>1. m = m'
      BY <2>3
    <3> HIDE DEF m
    <3>2. QED
      BY <2>2, <3>1 DEF m
  <2>5. QED
    BY <2>4 DEF PairsInv
<1>4. CASE FinishPass
  <2> SUFFICES ASSUME phase' = "share"
               PROVE  /\ i' < j' /\ j' <= Len(route[cur])' + 1
                      /\ j' = Len(route[cur])' + 1 => i' = Len(route[cur])'
    BY DEF PairsInv
  <2>1. i' = 1 /\ j' = 2 /\ cur' = cur
    BY <1>4 DEF FinishPass, EndPass
  <2> DEFINE m == Len(route[cur])
  <2>2. m' = m
    BY <1>1, <2>1
  <2> HIDE DEF m
  <2>3. m \in Nat /\ m >= 1
    BY <1>2 DEF m
  <2>4. /\ i' < j' /\ j' <= m + 1
        /\ j' = m + 1 => i' = m
    BY <2>1, <2>3
  <2>5. QED
    BY <2>2, <2>4 DEF m
<1>5. CASE phase' # "share"
  BY <1>5 DEF PairsInv
<1>6. CASE UNCHANGED vars
  BY <1>6 DEF PairsInv, vars
<1>7. QED
  BY <1>3, <1>4, <1>5, <1>6
     DEF Next, Produce, Order, KeepApart, Choose, TakeNext, MergeHop, EndMerge, Finish, Finished

\* Two hops that were dealt with have their uppers in common, except on those below.
LEMMA ExchangeShares ==
  ASSUME NEW r, r \subseteq Hops \X Hops, NEW d1 \in Hops, NEW d2 \in Hops, NEW u \in Hops,
         Exchange(r, d1, d2) \subseteq Hops \X Hops
  PROVE  /\ <<u, d1>> \in r => Has(Exchange(r, d1, d2), u, d2)
         /\ <<u, d2>> \in r => Has(Exchange(r, d1, d2), u, d1)
<1> DEFINE q == LoopFreeMerge(r, d1, d2)
           s == LoopFreeMerge(q, d2, d1)
<1>1. r \subseteq q /\ q \subseteq s /\ s = Exchange(r, d1, d2)
  BY DEF LoopFreeMerge, Exchange
<1>2. \A x \in Hops : Reach(r, x) \subseteq Reach(s, x) /\ Reach(q, x) \subseteq Reach(s, x)
  <2> HIDE DEF q, s
  <2>1. QED
    BY <1>1, ReachGrows
<1>3. ASSUME <<u, d1>> \in r
      PROVE  <<u, d2>> \in s \/ u \in Reach(s, d2)
  <2>1. <<u, d2>> \in q \/ u \in Reach(r, d2)
    BY <1>3 DEF LoopFreeMerge, CheckDependencyLoop
  <2> HIDE DEF q, s
  <2>2. QED
    BY <1>1, <1>2, <2>1
<1>4. ASSUME <<u, d2>> \in r
      PROVE  <<u, d1>> \in s \/ u \in Reach(s, d1)
  <2>1. <<u, d2>> \in q
    BY <1>1, <1>4
  <2> HIDE DEF q
  <2>2. <<u, d1>> \in s \/ u \in Reach(q, d1)
    BY <2>1 DEF LoopFreeMerge, CheckDependencyLoop
  <2> HIDE DEF s
  <2>3. QED
    BY <1>2, <2>2
<1>5. QED
  BY <1>1, <1>3, <1>4 DEF Has

\* Sharing is a matter of the relation of the path alone.
LEMMA SharedFrame ==
  ASSUME [Next]_vars, NEW p, rel'[p] = rel[p], Shared(p)
  PROVE  Shared(p)'
BY LinksKept DEF links, Shared, Mates

\* One step of the third loop: the two hops it deals with share from now on.
LEMMA ShareShares ==
  ASSUME IInv, IInv', PairsInv, ShareInv, Share, NEW e \in rel'[cur]
  PROVE  \E m \in 1..Len(route[cur]) : Origin(rel[cur], e[1], e[2], m)'
<1> DEFINE N == 1..Len(route[cur])
           a == route[cur][i]
           b == route[cur][j]
           q == Exchange(rel[cur], a, b)
<1>1. cur \in Paths /\ i \in N /\ j \in N /\ a \in Hops /\ b \in Hops
  <2>1. cur \in Paths /\ i \in N /\ j \in N
    BY RouteHops DEF IInv, TypeOK, Share
  <2>2. QED
    BY <2>1, RouteHops DEF IInv
<1>2. /\ route' = route /\ cur' = cur /\ phase = "share" /\ i < j /\ j <= Len(route[cur])
      /\ i' = (IF j < Len(route[cur]) THEN i ELSE i + 1)
      /\ j' = (IF j < Len(route[cur]) THEN j + 1 ELSE i + 2)
      /\ rel' = IF Aggregate[a] = Aggregate[b] THEN [rel EXCEPT ![cur] = q] ELSE rel
  BY DEF Share, links
<1>3. \A m, n \in N : Passed(m, n)' => \/ Passed(m, n) \/ (m = i /\ n = j) \/ (m = j /\ n = i)
  BY <1>1, <1>2, RouteHops DEF Passed, IInv, TypeOK
<1> HIDE DEF a, b, q
<1>4. /\ rel[cur] \subseteq Hops \X Hops /\ rel'[cur] \subseteq Hops \X Hops
      /\ rel[cur] \subseteq rel'[cur]
      /\ Aggregate[a] = Aggregate[b] => rel'[cur] = q
      /\ Aggregate[a] # Aggregate[b] => rel'[cur] = rel[cur]
  <2>1. rel[cur] \subseteq rel'[cur]
    BY <1>1, RelGrows DEF Next
  <2>2. QED
    BY <1>1, <1>2, <2>1 DEF IInv, TypeOK
<1>5. PICK f \in rel[cur] : f[1] = e[1] /\ Aggregate[f[2]] = Aggregate[e[2]]
  <2>1. CASE e \in rel[cur]
    BY <2>1
  <2>2. CASE e \notin rel[cur]
    <3>1. Aggregate[a] = Aggregate[b] /\ e \in Exchange(rel[cur], a, b)
      BY <1>4, <2>2 DEF q
    <3>2. e[2] \in {a, b} /\ \E f \in rel[cur] : f[1] = e[1] /\ f[2] \in {a, b}
      BY <1>1, <1>4, <2>2, <3>1, ExchangeAdds
    <3>3. QED
      BY <3>1, <3>2
  <2>3. QED
    BY <2>1, <2>2
<1>6. PICK m \in N : Origin(rel[cur], f[1], f[2], m)
  BY <1>2 DEF ShareInv
<1>7. /\ Aggregate[route[cur][m]] = Aggregate[e[2]]
      /\ <<e[1], route[cur][m]>> \in rel[cur] /\ e[1] \in Hops
      /\ \A n \in N : Aggregate[route[cur][n]] = Aggregate[e[2]] /\ Passed(m, n)
                        => Has(rel[cur], e[1], route[cur][n])
  BY <1>4, <1>5, <1>6 DEF Origin
<1>8. ASSUME NEW n \in N, Aggregate[route[cur][n]] = Aggregate[e[2]], Passed(m, n)'
      PROVE  Has(rel'[cur], e[1], route[cur][n])
  <2>1. CASE Passed(m, n)
    <3>1. Has(rel[cur], e[1], route[cur][n]) /\ route[cur][n] \in Hops
      BY <1>1, <1>7, <1>8, <2>1, RouteHops DEF IInv
    <3>2. Reach(rel[cur], route[cur][n]) \subseteq Reach(rel'[cur], route[cur][n])
      BY <1>4, <3>1, ReachGrows
    <3>3. QED
      BY <1>4, <3>1, <3>2 DEF Has
  <2>2. CASE m = i /\ n = j
    <3>1. Aggregate[a] = Aggregate[b] /\ <<e[1], a>> \in rel[cur]
      BY <1>7, <1>8, <2>2 DEF a, b
    <3>2. Has(Exchange(rel[cur], a, b), e[1], b)
      BY <1>1, <1>4, <1>7, <3>1, ExchangeShares DEF q
    <3>3. QED
      BY <1>4, <2>2, <3>1, <3>2 DEF q, b
  <2>3. CASE m = j /\ n = i
    <3>1. Aggregate[a] = Aggregate[b] /\ <<e[1], b>> \in rel[cur]
      BY <1>7, <1>8, <2>3 DEF a, b
    <3>2. Has(Exchange(rel[cur], a, b), e[1], a)
      BY <1>1, <1>4, <1>7, <3>1, ExchangeShares DEF q
    <3>3. QED
      BY <1>4, <2>3, <3>1, <3>2 DEF q, a
  <2>4. QED
    BY <1>3, <1>8, <2>1, <2>2, <2>3
<1>9. QED
  BY <1>2, <1>4, <1>7, <1>8 DEF Origin

\* When the third loop ends every hop has shared with every other of its aggregate.
LEMMA ShareEnds ==
  ASSUME IInv, PairsInv, ShareInv, phase = "share", j > Len(route[cur])
  PROVE  Shared(cur)
<1>1. cur \in Paths /\ i = Len(route[cur]) /\ Len(route[cur]) \in Nat
  <2>1. cur \in Paths /\ j \in Nat /\ Len(route[cur]) \in Nat
    BY RouteHops DEF IInv, TypeOK
  <2>2. j = Len(route[cur]) + 1
    BY <2>1 DEF PairsInv
  <2>3. QED
    BY <2>1, <2>2 DEF PairsInv
<1>2. \A m, n \in 1..Len(route[cur]) : m # n => Passed(m, n)
  BY <1>1 DEF Passed
<1>3. ASSUME NEW e \in rel[cur], NEW g \in Mates(cur, e[2])
      PROVE  <<e[1], g>> \in rel[cur] \/ e[1] \in Reach(rel[cur], g)
  <2>1. PICK m \in 1..Len(route[cur]) : Origin(rel[cur], e[1], e[2], m)
    BY DEF ShareInv
  <2>2. PICK n \in 1..Len(route[cur]) : g = route[cur][n] /\ Aggregate[g] = Aggregate[e[2]]
    BY <1>3 DEF Mates
  <2>3. CASE m = n
    BY <2>1, <2>2, <2>3 DEF Origin
  <2>4. CASE m # n
    BY <1>2, <2>1, <2>2, <2>4 DEF Origin, Has
  <2>5. QED
    BY <2>3, <2>4
<1>4. QED
  BY <1>3 DEF Shared

LEMMA ShareStep ==
  ASSUME IInv, IInv', DropInv, PairsInv, ShareInv, [Next]_vars
  PROVE  ShareInv'
<1> DEFINE Settled(p) == phase = "choose" \/ (phase \in {"produce", "order", "share"} /\ p < cur)
<1>1. route' = route
  BY LinksKept DEF links
<1>2. /\ cur \in Paths /\ i \in Nat /\ j \in Nat /\ cur \in Nat
      /\ NumPaths \in Nat /\ \A p \in Paths : p \in Nat /\ p <= NumPaths
  BY WorkflowAssumption DEF IInv, TypeOK, Paths
<1>3. \A p \in Paths : Settled(p) => Shared(p)
  BY DEF ShareInv
<1>4. CASE Produce \/ Order
  <2>1. phase' = phase /\ phase' # "share" /\ phase # "choose" /\ cur' = cur
    BY <1>4 DEF Produce, Order
  <2>2. \A p \in Paths : p # cur => rel'[p] = rel[p]
    BY <1>4 DEF Produce, Order, Relate, IInv, TypeOK
  <2>3. \A p \in Paths : p < cur => p # cur
    BY <1>2
  <2>4. \A p \in Paths : Settled(p)' => Shared(p)'
    BY <1>3, <2>1, <2>2, <2>3, SharedFrame
  <2>5. QED
    BY <2>1, <2>4 DEF ShareInv
<1>5. CASE Share
  <2>1. phase' = "share" /\ phase = "share" /\ cur' = cur
    BY <1>5 DEF Share
  <2>2. \A p \in Paths : p # cur => rel'[p] = rel[p]
    BY <1>5 DEF Share, IInv, TypeOK
  <2>3. \A p \in Paths : p < cur => p # cur
    BY <1>2
  <2>4. \A p \in Paths : Settled(p)' => Shared(p)'
    BY <1>3, <2>1, <2>2, <2>3, SharedFrame
  <2>5. \A e \in rel'[cur] : \E m \in 1..Len(route[cur]) : Origin(rel[cur], e[1], e[2], m)'
    BY <1>5, ShareShares
  <2>6. QED
    BY <1>1, <2>1, <2>4, <2>5 DEF ShareInv, Origin
<1>6. CASE FinishPass
  <2>1. rel' = rel
    BY <1>6 DEF FinishPass
  <2>2. \A p \in Paths : Shared(p) => Shared(p)'
    BY <2>1, SharedFrame
  <2>3. CASE phase = "produce"
    BY <1>3, <1>6, <2>2, <2>3 DEF FinishPass, EndPass, ShareInv
  <2>4. CASE phase = "order"
    <3>1. phase' = "share" /\ i' = 1 /\ j' = 2 /\ cur' = cur
      BY <1>6, <2>4 DEF FinishPass, EndPass
    <3>2. ASSUME NEW e \in rel[cur]
          PROVE  \E m \in 1..Len(route[cur]) : Origin(rel[cur], e[1], e[2], m)'
      <4>1. e[2] \in HopsOf(cur) /\ e = <<e[1], e[2]>>
        BY <1>2, <2>4 DEF DropInv, OnRoute, StageInv, IInv, TypeOK
      <4>2. PICK m \in 1..Len(route[cur]) : route[cur][m] = e[2]
        BY <4>1 DEF HopsOf
      <4>3. \A n \in 1..Len(route[cur]) : ~Passed(m, n)'
        BY <1>2, <3>1, RouteHops DEF Passed, IInv
      <4>4. QED
        BY <1>1, <2>1, <3>1, <4>1, <4>2, <4>3 DEF Origin
    <3>3. \A p \in Paths : Settled(p)' => Shared(p)'
      BY <1>3, <2>2, <2>4, <3>1
    <3>4. QED
      BY <1>1, <2>1, <3>1, <3>2, <3>3 DEF ShareInv, Origin
  <2>5. CASE phase = "share"
    <3>1. j > Len(route[cur])
      BY <1>6, <2>5 DEF FinishPass, EndPass
    <3>2. Shared(cur)
      BY <2>5, <3>1, ShareEnds
    <3>3. \A p \in Paths : p <= cur => Shared(p)
      BY <1>2, <1>3, <2>5, <3>2
    <3>4. \/ phase' = "produce" /\ cur' = cur + 1
          \/ phase' = "choose" /\ cur = NumPaths
      BY <1>2, <1>6, <2>5 DEF FinishPass, EndPass, MorePaths
    <3>5. \A p \in Paths : Settled(p)' => p <= cur
      BY <1>2, <3>4
    <3>6. QED
      BY <2>2, <3>3, <3>4, <3>5 DEF ShareInv
  <2>6. QED
    BY <1>6, <2>3, <2>4, <2>5 DEF FinishPass, EndPass
<1>7. CASE KeepApart \/ Choose \/ TakeNext \/ MergeHop \/ EndMerge \/ Finish
  <2>1. phase' \notin {"produce", "order", "share", "choose"}
    BY <1>7 DEF KeepApart, Choose, TakeNext, MergeHop, EndMerge, Finish
  <2>2. QED
    BY <2>1 DEF ShareInv
<1>8. CASE UNCHANGED vars
  BY <1>8 DEF vars, ShareInv, Shared, Origin, Passed, Mates
<1>9. QED
  BY <1>4, <1>5, <1>6, <1>7, <1>8 DEF Next, Finished

(* Both ends of every boundary between aggregates are ordered, unless both *)
(* translate, and whoever depends on a hop depends on its whole aggregate, *)
(* for any routes and capabilities (ComputeDependency, LoopFreeMerge).     *)
THEOREM WholeAggregates == Spec => []AggregatesOrdered
<1>1. Init => OrderInv
  BY DEF Init, OrderInv, PairsInv, BoundaryInv, ShareInv, Ordered, Paths
<1>2. IInv /\ IInv' /\ DropInv /\ OrderInv /\ [Next]_vars => OrderInv'
  BY PairsStep, BoundaryStep, ShareStep DEF OrderInv
<1>3. TypeOK /\ OrderInv => AggregatesOrdered
  BY DEF TypeOK, Phases, OrderInv, BoundaryInv, ShareInv, Ordered, AggregatesOrdered
<1>4. QED
  BY <1>1, <1>2, <1>3, Invariance, DropInvariance, TypeCorrect, PTL DEF Spec
=============================================================================

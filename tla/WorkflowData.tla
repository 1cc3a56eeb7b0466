---------------------------- MODULE WorkflowData ----------------------------
(***************************************************************************)
(* The workflow data of a manifest (geni/workflow.cc): in which order the  *)
(* aggregates along a path have to be asked for their VLANs.  Every hop of *)
(* a path is a Dependency; a pair <<u, l>> of `rel' says that u has l      *)
(* among its lowers, and l has u among its uppers: l is asked first.       *)
(*                                                                         *)
(* ComputeDependency derives the pairs of one path in three passes, and    *)
(* MergeDependencies combines several paths into one order.  One action is *)
(* one iteration of a loop of theirs.                                      *)
(***************************************************************************)
EXTENDS Integers, Sequences, FiniteSets

CONSTANTS
    Hops,       \* the links a path may use
    Aggregate,  \* the aggregate a hop belongs to
    Routes,     \* the paths a search may find: sequences of hops
    Kinds,      \* what the links may be capable of: functions from hops
    Tags,       \* VLAN tags
    NumPaths    \* how many paths the manifest has

(* A path goes through a link once (VerifyLoopFree refuses the others),    *)
(* and every link has an L2SC descriptor.                                  *)
ASSUME WorkflowAssumption ==
    /\ NumPaths \in Nat \ {0}
    /\ IsFiniteSet(Tags)
    /\ \A s \in Routes : /\ s \in Seq(Hops) /\ Len(s) >= 1
                         /\ \A m, n \in 1..Len(s) : s[m] = s[n] => m = n
    /\ Kinds \subseteq [Hops -> [produces : BOOLEAN, consumes : BOOLEAN,
                                 translates : BOOLEAN, vlans : SUBSET Tags]]

Paths == 1..NumPaths

VARIABLES
    route,    \* the hops of a path, in its order
    kind,     \* the capabilities of a link
    tree,     \* the paths are branches of one MPVB tree
    rel,      \* lowers and uppers of the hops of a path
    vlanFrom, \* the hops of a path whose getVlanFrom is set
    phase,    \* the loop the code is in
    cur,      \* the path this loop works on
    i, j,     \* its indices
    base,     \* the path whose WorkflowData the others are merged into
    left,     \* the paths that are not merged yet
    members   \* the hops the merged WorkflowData has

vars == <<route, kind, tree, rel, vlanFrom, phase, cur, i, j, base, left, members>>
links == <<route, kind, tree>>
merging == <<base, left, members>>

Phases == {"produce", "order", "share", "choose", "next", "merge", "done"}

(* LoadPath: the hops of the path, without any relation.                   *)
Init ==
    /\ route \in [Paths -> Routes]
    /\ kind \in Kinds
    /\ tree \in BOOLEAN
    /\ rel = [p \in Paths |-> {}]
    /\ vlanFrom = [p \in Paths |-> {}]
    /\ phase = "produce" /\ cur = 1 /\ i = 1 /\ j = 1
    /\ base = 1 /\ left = Paths /\ members = {}

-----------------------------------------------------------------------------
(* The hops below x in the relation r, which CheckDependencyLoop walks:    *)
(* the least set that has x's lowers and the lowers of its own members.    *)
ClosedBelow(r, S) == \A e \in r : e[1] \in S => e[2] \in S
Reach(r, x) ==
    {y \in Hops : \A S \in SUBSET Hops :
        (\A e \in r : e[1] = x => e[2] \in S) /\ ClosedBelow(r, S) => y \in S}

CheckDependencyLoop(r, current, newD) == current \in Reach(r, newD)

(* New pairs of path p set getVlanFrom of the hop that depends.            *)
Relate_NoFlag(p, E) ==
    /\ rel' = [rel EXCEPT ![p] = @ \cup E]
    /\ UNCHANGED vlanFrom
Relate(p, E) ==
    /\ rel' = [rel EXCEPT ![p] = @ \cup E]
    /\ vlanFrom' = [vlanFrom EXCEPT ![p] = @ \cup {e[1] : e \in E}]

(* The first pass: a consumer depends on the producer next to it.          *)
Consumes(u, l) == kind[l].produces /\ ~kind[u].produces /\ kind[u].consumes

Produce ==
    /\ phase = "produce" /\ i < Len(route[cur])
    /\ LET a == route[cur][i]
           b == route[cur][i + 1]
       IN Relate(cur, {e \in {<<a, b>>, <<b, a>>} :
              Aggregate[a] # Aggregate[b] /\ Consumes(e[1], e[2])})
    /\ i' = i + 1
    /\ UNCHANGED <<links, phase, cur, j, merging>>

(* The second and third pass order neighbours of different aggregates: a   *)
(* hop that translates VLANs depends on one that does not, and of two that *)
(* do not the one depends whose aggregate has fewer hops on the path or,   *)
(* with as many, no fewer VLANs that all its hops have.                    *)
Mates(p, h) == {g \in {route[p][n] : n \in 1..Len(route[p])} : Aggregate[g] = Aggregate[h]}
VlanRange(p, h) == {t \in Tags : \A g \in Mates(p, h) : t \in kind[g].vlans}

NoFewerVlans_More(p, u, l) ==
    Cardinality(VlanRange(p, u)) > Cardinality(VlanRange(p, l))
NoFewerVlans(p, u, l) ==
    Cardinality(VlanRange(p, u)) >= Cardinality(VlanRange(p, l))

Prefers(p, u, l) ==
    LET hopsU == Cardinality(Mates(p, u))
        hopsL == Cardinality(Mates(p, l))
    IN hopsU < hopsL \/ (hopsU = hopsL /\ NoFewerVlans(p, u, l))

ShouldDepend(p, u, l) ==
    ~kind[l].translates /\ (kind[u].translates \/ Prefers(p, u, l))
MayDepend(p, u, l) ==
    ShouldDepend(p, u, l) /\ ~CheckDependencyLoop(rel[p], u, l)

Order ==
    /\ phase = "order" /\ i < Len(route[cur])
    /\ LET a == route[cur][i]
           b == route[cur][i + 1]
       IN Relate(cur, {e \in {<<a, b>>, <<b, a>>} :
              /\ Aggregate[a] # Aggregate[b]
              /\ MayDepend(cur, e[1], e[2])
              /\ e = <<b, a>> => ~MayDepend(cur, a, b)})
    /\ i' = i + 1
    /\ UNCHANGED <<links, phase, cur, j, merging>>

(* Step 4b: whoever depends on a hop depends on the other hops of its      *)
(* aggregate, too, unless that closes a loop (a new pair above d2 changes  *)
(* nothing of what is below it).  getVlanFrom stays as it is.              *)
LoopFreeMerge_Unchecked(r, d1, d2) ==
    r \cup ({u \in Hops : <<u, d1>> \in r} \X {d2})
LoopFreeMerge(r, d1, d2) ==
    r \cup ({u \in Hops : <<u, d1>> \in r /\ ~CheckDependencyLoop(r, u, d2)} \X {d2})

Exchange(r, d1, d2) == LoopFreeMerge(LoopFreeMerge(r, d1, d2), d2, d1)

Share ==
    /\ phase = "share" /\ i < j /\ j <= Len(route[cur])
    /\ LET a == route[cur][i]
           b == route[cur][j]
       IN rel' = IF Aggregate[a] = Aggregate[b]
                    THEN [rel EXCEPT ![cur] = Exchange(rel[cur], a, b)]
                    ELSE rel
    /\ IF j < Len(route[cur]) THEN i' = i /\ j' = j + 1
                              ELSE i' = i + 1 /\ j' = i + 2
    /\ UNCHANGED <<links, vlanFrom, phase, cur, merging>>

(* From one loop to the next, and from one path to the next.               *)
MorePaths == cur < NumPaths

EndPass ==
    \/ /\ phase = "produce" /\ i = Len(route[cur])
       /\ phase' = "order" /\ i' = 1
       /\ UNCHANGED <<cur, j>>
    \/ /\ phase = "order" /\ i = Len(route[cur])
       /\ phase' = "share" /\ i' = 1 /\ j' = 2
       /\ UNCHANGED cur
    \/ /\ phase = "share" /\ j > Len(route[cur]) /\ MorePaths
       /\ phase' = "produce" /\ cur' = cur + 1 /\ i' = 1
       /\ UNCHANGED j
    \/ /\ phase = "share" /\ j > Len(route[cur]) /\ ~MorePaths
       /\ phase' = "choose"
       /\ UNCHANGED <<cur, i, j>>

FinishPass == EndPass /\ UNCHANGED <<links, rel, vlanFrom, merging>>

-----------------------------------------------------------------------------
(* The branches of a tree are merged in their order, the paths of a        *)
(* request from the end of an array in which longer ones come first, and   *)
(* those of one length by their identifier.                                *)
Before(p, q) ==
    IF tree THEN p < q
    ELSE \/ Len(route[p]) < Len(route[q])
         \/ Len(route[p]) = Len(route[q]) /\ p > q

IsNext(p) == p \in left /\ \A q \in left \ {p} : Before(p, q)

(* The client has not asked for a merged workflow.                         *)
KeepApart ==
    /\ phase = "choose" /\ ~tree
    /\ phase' = "done"
    /\ UNCHANGED <<links, rel, vlanFrom, cur, i, j, merging>>

Choose ==
    /\ phase = "choose"
    /\ \E p \in Paths : /\ IsNext(p)
                        /\ base' = p
                        /\ left' = left \ {p}
                        /\ members' = {route[p][n] : n \in 1..Len(route[p])}
    /\ phase' = "next"
    /\ UNCHANGED <<links, rel, vlanFrom, cur, i, j>>

TakeNext ==
    /\ phase = "next"
    /\ \E p \in Paths : IsNext(p) /\ cur' = p
    /\ i' = 1
    /\ phase' = "merge"
    /\ UNCHANGED <<links, rel, vlanFrom, j, merging>>

(* One hop of MergeDependencies: it becomes a member, its uppers among the *)
(* members are related to it, then it to its lowers among them.            *)
NewUppers(r, add, S, h) ==
    {u \in S : <<u, h>> \in add /\ <<u, h>> \notin r /\ ~CheckDependencyLoop(r, u, h)}
NewLowers_None(r, add, S, h) == {}
NewLowers(r, add, S, h) ==
    {l \in S : <<h, l>> \in add /\ <<h, l>> \notin r /\ ~CheckDependencyLoop(r, h, l)}

MergeHop ==
    /\ phase = "merge" /\ i <= Len(route[cur])
    /\ LET h == route[cur][i]
           S == members \cup {h}
           upper == NewUppers(rel[base], rel[cur], S, h) \X {h}
           lower == {h} \X NewLowers(rel[base] \cup upper, rel[cur], S, h)
       IN /\ members' = S
          /\ Relate(base, upper \cup lower)
    /\ i' = i + 1
    /\ UNCHANGED <<links, phase, cur, j, base, left>>

EndMerge ==
    /\ phase = "merge" /\ i > Len(route[cur])
    /\ left' = left \ {cur}
    /\ phase' = "next"
    /\ UNCHANGED <<links, rel, vlanFrom, cur, i, j, base, members>>

Finish ==
    /\ phase = "next" /\ left = {}
    /\ phase' = "done"
    /\ UNCHANGED <<links, rel, vlanFrom, cur, i, j, merging>>

Finished == phase = "done" /\ UNCHANGED vars

Next ==
    \/ Produce \/ Order \/ Share \/ FinishPass
    \/ KeepApart \/ Choose \/ TakeNext \/ MergeHop \/ EndMerge \/ Finish
    \/ Finished

Spec == Init /\ [][Next]_vars

-----------------------------------------------------------------------------
TypeOK ==
    /\ route \in [Paths -> Routes]
    /\ kind \in Kinds
    /\ tree \in BOOLEAN
    /\ rel \in [Paths -> SUBSET (Hops \X Hops)]
    /\ vlanFrom \in [Paths -> SUBSET Hops]
    /\ phase \in Phases
    /\ cur \in Paths /\ base \in Paths
    /\ i \in Nat \ {0} /\ j \in Nat \ {0}
    /\ left \subseteq Paths
    /\ members \subseteq Hops

(* Of any hops there is one that waits for no other of them: the order the *)
(* dependencies ask for can be followed, and the recursions of             *)
(* CheckDependencyLoop and of DumpXmlRpcDataRecursive come to an end.      *)
WellFounded(r) ==
    \A S \in SUBSET Hops :
        S # {} => \E h \in S : \A l \in S : <<h, l>> \notin r
LoopFree == \A p \in Paths : WellFounded(rel[p])

(* A hop is told to take its VLAN from another one exactly if there is one *)
(* it depends on, though neither step 4b nor Clone touches getVlanFrom.    *)
VlanFromLowers ==
    \A p \in Paths : vlanFrom[p] = {e[1] : e \in rel[p]}

Ordered(p) == phase \in {"choose", "next", "merge", "done"} \/ p < cur

(* Where a path leaves an aggregate for another one, and not both ends     *)
(* translate VLANs, one of the ends is asked before the other.             *)
BoundaryOrdered(p, n) ==
    LET a == route[p][n]
        b == route[p][n + 1]
    IN \/ Aggregate[a] = Aggregate[b]
       \/ kind[a].translates /\ kind[b].translates
       \/ a \in Reach(rel[p], b)
       \/ b \in Reach(rel[p], a)

(* Who depends on a hop depends on all hops of its aggregate on the path,  *)
(* except on those that come after it anyway.                              *)
Shared(p) ==
    \A e \in rel[p] : \A g \in Mates(p, e[2]) :
        <<e[1], g>> \in rel[p] \/ e[1] \in Reach(rel[p], g)

(* The dependencies of a path order its aggregates: both ends of every     *)
(* boundary, and whole aggregates, although they are added hop by hop and  *)
(* pair by pair and the loop check refuses some.                           *)
AggregatesOrdered ==
    \A p \in Paths : Ordered(p) =>
        /\ \A n \in 1..(Len(route[p]) - 1) : BoundaryOrdered(p, n)
        /\ phase \in {"next", "merge", "done"} \/ Shared(p)

(* A merged workflow keeps what its paths ask for: each dependency is part *)
(* of it, or it has the two hops in the opposite order.                    *)
NothingDropped ==
    phase = "done" /\ left = {} =>
        \A p \in Paths : \A e \in rel[p] :
            e \in rel[base] \/ e[1] \in Reach(rel[base], e[2])
=============================================================================

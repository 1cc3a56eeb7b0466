----------------------------- MODULE ComputeKSP -----------------------------
(***************************************************************************)
(* The path search of a point-to-point request: ComputeDijkstraPath and    *)
(* ComputeKShortestPaths of the TEWG (tedbManager/tewg.cc), and the loop   *)
(* of Action_ComputeKSP::Process that keeps the feasible ones of the paths *)
(* found.  One action is one iteration of a loop; the two nested searches  *)
(* share the work data of nodes and links, as in the code.                 *)
(*                                                                         *)
(* The edge links of the request have no remote end: no search takes one,  *)
(* and Process puts them at the two ends of every path.                    *)
(***************************************************************************)
EXTENDS Integers, Sequences, FiniteSets, SequencesExt, EventList

CONSTANTS
    TNodes, TLinks,
    LocalEnd, RemoteEnd,  \* the nodes a link leads from and to
    RemoteLink,           \* the link of the opposite direction
    Order,                \* the order of the links in the lists of their nodes
    Topologies,           \* metrics of the links that are left in the TEWG
    Src, Dst,
    K                     \* how many paths are asked for

INF == 2147483647

ASSUME SearchAssumption ==
    /\ Src \in TNodes /\ Dst \in TNodes /\ Src # Dst
    /\ LocalEnd \in [TLinks -> TNodes] /\ RemoteEnd \in [TLinks -> TNodes]
    /\ \A l \in TLinks : LocalEnd[l] # RemoteEnd[l]
    /\ RemoteLink \in [TLinks -> TLinks]
    /\ \A l \in TLinks : /\ RemoteLink[RemoteLink[l]] = l
                        /\ LocalEnd[RemoteLink[l]] = RemoteEnd[l]
    /\ Order \in Seq(TLinks) /\ Range(Order) = TLinks /\ IsInjective(Order)
    /\ \A g \in Topologies : DOMAIN g \subseteq TLinks /\ g \in [DOMAIN g -> 1..INF - 1]
    /\ K \in Nat \ {0}

VARIABLES
    metric,      \* of every link of this TEWG
    phase,       \* the loop the code is in
    start,       \* where the running search starts
    visitedNodes,
    reachable,   \* of that search: settled nodes, and the queue of the others
    pathCost, pathTo,   \* TWDATA(node)->pathCost, ->path
    nodesOff, linksOff, \* the nodes and the links whose filteroff is set
    candidates,  \* CandidatePaths
    ksp,         \* KSP
    counter,     \* KSPcounter
    headpath, spur,     \* the candidate that is branched from, and at which link
    checked,     \* how many paths Process has verified
    feasible     \* _feasiblePaths

search == <<start, visitedNodes, reachable, pathCost, pathTo>>
paths == <<candidates, ksp, counter, headpath>>
result == <<checked, feasible>>
filteroff == <<nodesOff, linksOff>>
searchVars == <<metric, phase, search, filteroff, paths, spur, result>>

Linked == DOMAIN metric
GetLocalLinks(n) == Sieve(Order, {l \in Linked : LocalEnd[l] = n})

CalculatePathCost(p) ==
    LET cost[i \in 0..Len(p)] == IF i = 0 THEN 0 ELSE cost[i - 1] + metric[p[i]]
    IN cost[Len(p)]

Path(p, cost, deviation, masked) ==
    [links |-> p, cost |-> cost, deviation |-> deviation, masked |-> masked]
NoPath == Path(<<>>, INF, Src, <<>>)

SearchInit ==
    /\ metric \in Topologies
    /\ phase = "source" /\ start = Src
    /\ visitedNodes = {Src} /\ reachable = <<>>
    /\ pathCost = [n \in TNodes |-> INF] /\ pathTo = [n \in TNodes |-> <<>>]
    /\ nodesOff = {} /\ linksOff = {}
    /\ candidates = <<>> /\ ksp = <<>> /\ counter = 0 /\ headpath = NoPath
    /\ spur = 1 /\ checked = 0 /\ feasible = <<>>

-----------------------------------------------------------------------------
(* ComputeDijkstraPath.                                                    *)
Open(l) == l \notin linksOff /\ RemoteEnd[l] \notin nodesOff

OpenLinks(n) == Sieve(GetLocalLinks(n), {l \in Linked : Open(l)})

(* The links among s that lead to n and are cheaper than those before.     *)
Cheaper(s, n) ==
    LET t == Sieve(s, {l \in Linked : RemoteEnd[l] = n})
    IN Keep(t, {i \in DOMAIN t : \A j \in 1..i - 1 : metric[t[j]] > metric[t[i]]})

(* Every link of the source is pushed to what its node's path already has. *)
RelaxSource ==
    LET open == OpenLinks(start)
    IN /\ phase = "source"
       /\ visitedNodes' = {start}
       /\ reachable' = [i \in DOMAIN open |-> RemoteEnd[open[i]]]
       /\ pathTo' = [n \in TNodes |-> Cheaper(open, n)]
       /\ pathCost' = [n \in TNodes |-> IF pathTo'[n] = <<>> THEN INF
                                       ELSE metric[Last(pathTo'[n])]]
       /\ phase' = IF open = <<>> THEN "failed" ELSE "settle"
       /\ UNCHANGED <<metric, start, filteroff, paths, spur, result>>

(* The position of the first one of the least costs.                       *)
FirstLeast(costs) ==
    CHOOSE i \in DOMAIN costs : /\ \A j \in DOMAIN costs : costs[i] <= costs[j]
                                /\ \A j \in 1..i - 1 : costs[j] > costs[i]

(* The links of the head node that improve the path to a node, in order.   *)
Improving(h) ==
    Sieve(OpenLinks(h), {l \in Linked :
                            /\ RemoteEnd[l] \notin visitedNodes \cup {h}
                            /\ pathCost[RemoteEnd[l]] > pathCost[h] + metric[l]})

(* The nodes they lead to, each once.                                      *)
Heads(s) ==
    LET ends == [i \in DOMAIN s |-> RemoteEnd[s[i]]]
    IN Keep(ends, {i \in DOMAIN ends : \A j \in 1..i - 1 : ends[j] # ends[i]})

(* The nearest node that is left becomes the head node.  The destination   *)
(* ends the search, unless it is the very first head node.                 *)
IsDestination(h) == h = Dst /\ visitedNodes # {start}

Settle ==
    LET i == FirstLeast([j \in DOMAIN reachable |-> pathCost[reachable[j]]])
        h == reachable[i]
        rest == RemoveAt(reachable, i)
        links == Improving(h)
        new == Sieve(Heads(links), TNodes \ ToSet(rest))
        better == ToSet(Heads(links))
    IN /\ phase = "settle"
       /\ visitedNodes' = visitedNodes \cup {h}
       /\ IF IsDestination(h)
          THEN /\ phase' = "found" /\ reachable' = rest
               /\ UNCHANGED <<pathCost, pathTo>>
          ELSE /\ pathTo' = [n \in TNodes |-> IF n \in better
                                THEN Append(pathTo[h], Last(Cheaper(links, n)))
                                ELSE pathTo[n]]
               /\ pathCost' = [n \in TNodes |-> IF n \in better
                                THEN pathCost[h] + metric[Last(Cheaper(links, n))]
                                ELSE pathCost[n]]
               /\ reachable' = rest \o new
               /\ phase' = IF reachable' = <<>> THEN "failed" ELSE "settle"
       /\ UNCHANGED <<metric, start, filteroff, paths, spur, result>>

-----------------------------------------------------------------------------
(* ComputeKShortestPaths: the first path is the first candidate.           *)
FirstPath ==
    /\ phase = "found" /\ counter = 0
    /\ LET p == Path(pathTo[Dst], pathCost[Dst], Src, <<>>)
       IN candidates' = <<p>> /\ ksp' = <<p>>
    /\ counter' = 1
    /\ phase' = "candidate"
    /\ UNCHANGED <<metric, search, filteroff, headpath, spur, result>>

NoFirstPath ==
    /\ phase = "failed" /\ counter = 0
    /\ phase' = "thrown"
    /\ UNCHANGED <<metric, search, filteroff, paths, spur, result>>

(* The nodes of a path before its deviation node, with all their links.    *)
DeviationIndex(p) ==
    CHOOSE i \in DOMAIN p.links :
        /\ LocalEnd[p.links[i]] = p.deviation
        /\ \A j \in 1..i - 1 : LocalEnd[p.links[j]] # p.deviation
RootNodes(p) == {LocalEnd[p.links[i]] : i \in 1..DeviationIndex(p) - 1}
LinksOf(N) == {l \in Linked : LocalEnd[l] \in N \/ RemoteEnd[l] \in N}

(* The cheapest candidate becomes a result, and is branched from unless    *)
(* there are K results.                                                    *)
LeastCost == FirstLeast([i \in DOMAIN candidates |-> candidates[i].cost])
Enough == counter = K

NextCandidate ==
    LET i == LeastCost
        p == candidates[i]
    IN /\ phase = "candidate" /\ candidates # <<>> /\ counter <= K
       /\ candidates' = RemoveAt(candidates, i)
       /\ ksp' = IF counter > 1 THEN Append(ksp, p) ELSE ksp
       /\ IF Enough
          THEN phase' = "verify" /\ UNCHANGED <<headpath, spur, filteroff>>
          ELSE /\ phase' = "branch"
               /\ headpath' = p
               /\ spur' = DeviationIndex(p)
               /\ nodesOff' = nodesOff \cup RootNodes(p)
               /\ linksOff' = linksOff \cup LinksOf(RootNodes(p))
       /\ UNCHANGED <<metric, search, counter, result>>

NoCandidate ==
    /\ phase = "candidate" /\ (candidates = <<>> \/ counter > K)
    /\ phase' = "verify"
    /\ UNCHANGED <<metric, search, filteroff, paths, spur, result>>

(* A search from the local end of the next link of the candidate, without  *)
(* that link and the masked ones.                                          *)
Blocked_LinkOnly == {headpath.links[spur]}
Blocked == Range(headpath.masked) \cup {headpath.links[spur]}

Branch ==
    /\ phase = "branch" /\ spur <= Len(headpath.links)
    /\ linksOff' = linksOff \cup Blocked
    /\ start' = LocalEnd[headpath.links[spur]]
    /\ phase' = "source"
    /\ UNCHANGED <<metric, visitedNodes, reachable, pathCost, pathTo, nodesOff, paths, spur, result>>

(* Its path is taken whether the search returned or threw.                 *)
Deviation ==
    IF spur = 1 THEN Src ELSE LocalEnd[headpath.links[spur]]

AddCandidate ==
    /\ phase \in {"found", "failed"} /\ counter > 0
    /\ candidates' = LET p == SubSeq(headpath.links, 1, spur - 1) \o pathTo[Dst]
                     IN IF pathTo[Dst] = <<>> THEN candidates
                        ELSE Append(candidates,
                                 Path(p, CalculatePathCost(p), Deviation,
                                      Append(headpath.masked, headpath.links[spur])))
    /\ linksOff' = linksOff \ {headpath.links[spur]}
    /\ spur' = spur + 1
    /\ phase' = "branch"
    /\ UNCHANGED <<metric, search, nodesOff, ksp, counter, headpath, result>>

EndBranches ==
    /\ phase = "branch" /\ spur > Len(headpath.links)
    /\ counter' = counter + 1
    /\ phase' = "candidate"
    /\ UNCHANGED <<metric, search, filteroff, candidates, ksp, headpath, spur, result>>

-----------------------------------------------------------------------------
(* Action_ComputeKSP::Process.  The nodes of the links of a path with the  *)
(* edge links in front and at the end, and the remote links put between    *)
(* two links (ExpandWithRemoteLinks).                                      *)
Expands(l, next) ==
    /\ RemoteLink[l] \in Linked
    /\ next # RemoteLink[l]
    /\ LocalEnd[l] # LocalEnd[next]
Hop(p, i) ==
    IF IF i < Len(p) THEN Expands(p[i], p[i + 1])
                     ELSE RemoteLink[p[i]] \in Linked /\ LocalEnd[p[i]] # Dst
    THEN <<LocalEnd[p[i]], RemoteEnd[p[i]]>>
    ELSE <<LocalEnd[p[i]]>>
Expanded(p) ==
    LET upTo[i \in 0..Len(p)] == IF i = 0 THEN <<Src>> ELSE upTo[i - 1] \o Hop(p, i)
    IN upTo
ExpandWithRemoteLinks(p) == Append(Expanded(p)[Len(p)], Dst)

(* Two links of one node must be next to each other.                       *)
VerifyLoopFree_Skipped(p) == TRUE
VerifyLoopFree(p) ==
    LET e == ExpandWithRemoteLinks(p)
    IN \A i, j \in DOMAIN e : j >= i + 2 => e[i] # e[j]

(* The hop inclusion list and the TE constraints of the request may refuse *)
(* a path as well.                                                         *)
Verify ==
    /\ phase = "verify" /\ checked < Len(ksp)
    /\ checked' = checked + 1
    /\ LET p == ksp[checked + 1]
       IN feasible' \in {feasible} \cup (IF VerifyLoopFree(p.links) THEN {Append(feasible, p)} ELSE {})
    /\ UNCHANGED <<metric, phase, search, filteroff, paths, spur>>

(* The feasible paths are sorted, those of one cost in any order; none is  *)
(* an exception.                                                           *)
Sorted(s) ==
    {r \in {[i \in DOMAIN s |-> s[f[i]]] : f \in Bijection(DOMAIN s, DOMAIN s)} :
        \A i, j \in DOMAIN s : i < j => r[i].cost <= r[j].cost}

Finish ==
    /\ phase = "verify" /\ checked = Len(ksp)
    /\ phase' = IF feasible = <<>> THEN "thrown" ELSE "done"
    /\ feasible' \in Sorted(feasible)
    /\ UNCHANGED <<metric, search, filteroff, paths, spur, checked>>

Ended == phase \in {"done", "thrown"} /\ UNCHANGED searchVars

SearchNext ==
    \/ RelaxSource \/ Settle
    \/ FirstPath \/ NoFirstPath \/ NextCandidate \/ NoCandidate
    \/ Branch \/ AddCandidate \/ EndBranches
    \/ Verify \/ Finish
    \/ Ended

SearchSpec == SearchInit /\ [][SearchNext]_searchVars /\ WF_searchVars(SearchNext)
-----------------------------------------------------------------------------
Candidate == [links : Seq(Linked), cost : Nat, deviation : TNodes, masked : Seq(Linked)]

(* Every variable has its type; there are never more than K rounds, and    *)
(* never more than K paths.                                                *)
SearchTypeOK ==
    /\ Linked \subseteq TLinks /\ metric \in [Linked -> 1..INF - 1]
    /\ phase \in {"source", "settle", "found", "failed", "candidate", "branch",
                  "verify", "done", "thrown"}
    /\ start \in TNodes /\ visitedNodes \subseteq TNodes
    /\ reachable \in Seq(TNodes)
    /\ pathCost \in [TNodes -> 1..INF] /\ pathTo \in [TNodes -> Seq(Linked)]
    /\ nodesOff \subseteq TNodes /\ linksOff \subseteq Linked
    /\ candidates \in Seq(Candidate) /\ ksp \in Seq(Candidate) /\ feasible \in Seq(Candidate)
    /\ headpath \in Candidate /\ spur \in 1..Len(headpath.links) + 1
    /\ counter \in 0..K /\ Len(ksp) <= K /\ checked \in 0..Len(ksp)

(* A route takes the request from Src to Dst, link by link, and passes     *)
(* through no node twice.                                                  *)
Leads(p, n) == /\ p # <<>> /\ LocalEnd[p[1]] = n
               /\ \A i \in 1..Len(p) - 1 : RemoteEnd[p[i]] = LocalEnd[p[i + 1]]
IsRoute(p) ==
    /\ Leads(p, Src) /\ RemoteEnd[Last(p)] = Dst
    /\ \A i, j \in DOMAIN p : /\ LocalEnd[p[i]] # Dst
                             /\ LocalEnd[p[i]] = LocalEnd[p[j]] => i = j

(* No two links run in parallel.                                           *)
Simple ==
    \A l, m \in Linked : LocalEnd[l] = LocalEnd[m] /\ RemoteEnd[l] = RemoteEnd[m] => l = m

(* Every path that is handed to the client is a route, if no links run in  *)
(* parallel.  The search itself also returns walks that come back to a     *)
(* node before the deviation node: VerifyLoopFree (tewg.cc:1766) must      *)
(* catch them all.  Where two links run in parallel the relaxation of the  *)
(* source (tewg.cc:2517) may leave both of them on the path, and a         *)
(* sequence of links that do not join, or that uses one twice, may pass.   *)
RoutesOnly == Simple => \A p \in ToSet(feasible) : IsRoute(p.links)

(* A link from the source to the destination is as cheap as any other one. *)
DstIsNearest ==
    \E l \in Linked : /\ LocalEnd[l] = Src /\ RemoteEnd[l] = Dst
                      /\ \A m \in Linked : LocalEnd[m] = Src => metric[l] <= metric[m]

InReach ==
    LET reach[i \in Nat] ==
            IF i = 0 THEN {Src}
            ELSE LET R == reach[i - 1]
                 IN R \cup {RemoteEnd[l] : l \in {l \in Linked : LocalEnd[l] \in R}}
    IN Dst \in reach[Cardinality(TNodes)]

(* The paths found are the first ones of a list without repetitions in the *)
(* order of their cost: though candidates of many rounds wait in one list  *)
(* and filters that are never reset keep growing, the masks a candidate    *)
(* inherits keep its branches from finding what was found before.  And     *)
(* there are none only if the destination is out of reach, or is the       *)
(* neighbour that the search settles first: tewg.cc:2583 does not look at  *)
(* that one, and "No Path Found" is thrown although the path is there.     *)
KShortest ==
    /\ Simple => \A i, j \in DOMAIN ksp :
                    i < j => ksp[i].links # ksp[j].links /\ ksp[i].cost <= ksp[j].cost
    /\ phase = "failed" /\ counter = 0 => DstIsNearest \/ ~InReach
=============================================================================

--------------------------- MODULE BridgeTerminal ---------------------------
(***************************************************************************)
(* The workflow of a multi-point VLAN bridging request                     *)
(* (compute/mpvb_actions.cc) and the service topology it grows, SMT, with  *)
(* the VLAN checks of tedbManager/tewg.cc.  Prestage orders the terminals  *)
(* and seeds SMT with a path between the first two; every further action   *)
(* bridges the next terminal to SMT or cranks back; the last one suggests  *)
(* a VLAN on every link.                                                   *)
(*                                                                         *)
(* A link is a pair of nodes, and there is one between two nodes at most;  *)
(* both directions have the same VLANs and the metric 1.  What the path    *)
(* search finds is that of ComputeKSP: walks from one node to another.     *)
(***************************************************************************)
EXTENDS Integers, Sequences, FiniteSets, SequencesExt, FiniteSetsExt, EventList

CONSTANTS
    NodeOrder,   \* the nodes, in the order of the TEWG and of its link lists
    Bridges,     \* those that can bridge: type B
    Vlans,       \* the VLAN tags
    ANY,         \* ANY_TAG
    Graphs,      \* topologies that PruneByBandwidth may leave: sets of links
    Capabilities,\* the VLANs of the links, {} for none, and the links that translate
    Requests,    \* the VLANs that each request names for its terminals
    Routes       \* the paths that ComputeKShortestPaths finds in each topology

BACKOFF_NUM == 2
MAX_REENTRY_NUM == 5

Nodes == Range(NodeOrder)
AllLinks == {l \in Nodes \X Nodes : l[1] # l[2]}
Opposite(l) == <<l[2], l[1]>>
TagSets == (SUBSET Vlans) \cup {{ANY}}

(* A way from s to t, link by link; and one that is at no node twice.      *)
IsWalk(p, s, t) ==
    /\ p # <<>> /\ p[1][1] = s /\ p[Len(p)][2] = t
    /\ \A i \in 1..Len(p) - 1 : p[i][2] = p[i + 1][1]
IsLoopFree(p) ==
    \A i, j \in DOMAIN p : p[i][2] # p[1][1] /\ (p[i][2] = p[j][2] => i = j)

ASSUME BridgeAssumption ==
    /\ ANY \notin Vlans /\ IsFiniteSet(Vlans)
    /\ \A v \in Vlans : v \in Nat
    /\ NodeOrder \in Seq(Nodes) /\ IsInjective(NodeOrder)
    /\ Bridges \subseteq Nodes
    /\ \A g \in Graphs : g \subseteq AllLinks /\ \A l \in g : Opposite(l) \in g
    /\ \A c \in Capabilities : c \in [vlans : [AllLinks -> SUBSET Vlans],
                                      translate : SUBSET AllLinks]
    /\ \A r \in Requests : /\ DOMAIN r \subseteq Nodes \ Bridges
                           /\ \E s, t \in DOMAIN r : s # t
                           /\ r \in [DOMAIN r -> TagSets \ {{}}]
    /\ Routes \in [Graphs -> [Nodes \X (Nodes \ Bridges) -> Seq(Seq(AllLinks))]]
    /\ \A g \in Graphs : \A e \in Nodes \X (Nodes \ Bridges) : \A i \in DOMAIN Routes[g][e] :
          IsWalk(Routes[g][e][i], e[1], e[2]) /\ Range(Routes[g][e][i]) \subseteq g

VARIABLES
    graph, avail, translating, request,
    routes,      \* what the path search finds, as in KSP_CACHE
    build,       \* what the two undefined results of the code come to
    pc,
    order,       \* ORDERED_TERMINALS
    current,     \* CURRENT_TERMINAL
    reentry,     \* REENTRY_NUM
    nodes, links,\* of SMT, in the order they were added
    vlanRange,   \* VLAN_RANGE of the nodes of SMT
    vlanSet,     \* MPVB_VLAN of the nodes of SMT, when its VLANs are final
    suggested,   \* SUGGESTED_VLAN of the nodes and the links of SMT
    visited      \* MPVB_VISITED of the links of SMT

input == <<graph, routes, avail, translating, request, build>>
smt == <<nodes, links, vlanRange>>
progress == <<order, current, reentry>>
final == <<vlanSet, suggested, visited>>
vars == <<input, pc, progress, smt, final>>

Terminals == DOMAIN request

-----------------------------------------------------------------------------
Init ==
    /\ graph \in Graphs /\ routes = Routes[graph]
    /\ \E c \in Capabilities : avail = c.vlans /\ translating = c.translate
    /\ request \in Requests
    /\ build \in [fallsOff : BOOLEAN, survives : BOOLEAN]
    /\ pc = "prestage"
    /\ order = Sieve(NodeOrder, Terminals)
    /\ current = NodeOrder[1] /\ reentry = MAX_REENTRY_NUM
    /\ nodes = <<>> /\ links = <<>>
    /\ vlanRange = [n \in Nodes |-> {ANY}]
    /\ vlanSet = [n \in Nodes |-> {}]
    /\ suggested = [x \in Nodes \cup AllLinks |-> ANY]
    /\ visited = {}

-----------------------------------------------------------------------------
(* Tag sets.                                                               *)
Intersected(S) ==
    LET definite == {s \in S : ANY \notin s}
    IN IF definite = {} THEN {ANY}
       ELSE {v \in Vlans : \A s \in definite : v \in s}
LowestTag(s) == IF ANY \in s THEN ANY ELSE Min(s)
RandomTag(s) == IF ANY \in s THEN Vlans ELSE IF s = {} THEN {0} ELSE s

ProceedByUpdatingVtags(l, head, translate) ==
    CASE avail[l] = {} -> head
      [] avail[l] # {} /\ translate /\ l \in translating -> avail[l]
      [] OTHER -> Intersected({avail[l], head})

(* The tags that are left after the first i links of a path.               *)
TagsAlong(p, ingress, translate) ==
    LET tags[i \in 0..Len(p)] ==
            IF i = 0 THEN ingress
            ELSE LET head == tags[i - 1]
                 IN IF head = {} THEN {} ELSE ProceedByUpdatingVtags(p[i], head, translate)
    IN tags

(* What the egress is left with, or {} when the path is refused.           *)
VerifyTEConstraints(p, ingress, egress) ==
    LET next == TagsAlong(p, ingress, FALSE)
        trans == TagsAlong(p, ingress, TRUE)
        dst == LowestTag(egress)
        common == /\ next[Len(p)] # {}
                  /\ dst = ANY \/ dst \in next[Len(p)]
    IN CASE p = <<>> \/ next[1] = {} -> {}
         [] p # <<>> /\ next[1] # {} /\ common -> next[Len(p)]
         [] OTHER -> IF dst = ANY \/ dst \in trans[Len(p)] THEN trans[Len(p)] ELSE {}

KSP(s, t) == routes[<<s, t>>]
Distance(s, t) == Len(KSP(s, t)[1])

-----------------------------------------------------------------------------
(* The service topology.                                                   *)
InSmt(n) == Contains(nodes, n)
LocalLinks(ls, n) == Sieve(ls, {l \in AllLinks : l[1] = n})

AddNew(q, x) == IF Contains(q, x) THEN q ELSE Append(q, x)

(* A path is loaded link by link, with the opposite of each; a link or a   *)
(* node that is there already stays as it is.                              *)
LoadedLinks(ls, p) ==
    LET upTo[i \in 0..Len(p)] ==
            IF i = 0 THEN ls ELSE AddNew(AddNew(upTo[i - 1], p[i]), Opposite(p[i]))
    IN upTo
LoadedNodes(ns, p) ==
    LET upTo[i \in 0..Len(p)] ==
            IF i = 0 THEN ns ELSE AddNew(AddNew(upTo[i - 1], p[i][1]), p[i][2])
    IN upTo
LoadPath(p) ==
    /\ links' = LoadedLinks(links, p)[Len(p)]
    /\ nodes' = LoadedNodes(nodes, p)[Len(p)]

(* What VerifyMPVBConstraints leaves in MPVB_VLAN of every node below the  *)
(* root, {} where it fails: tags[<<n, m>>] is of n, when it is reached from m. *)
TreeTags(ls, root, rootTags, range) ==
    LET tags[e \in Nodes \X Nodes] ==
            LET n == e[1]
                children == {l[2] : l \in {l \in Range(ls) : l[1] = n}} \ {e[2]}
                up(c) == LET near == tags[<<c, n>>]
                             far == ProceedByUpdatingVtags(<<c, n>>, near, TRUE)
                         IN IF near = {} \/ (<<n, c>> \notin translating /\ far = {}) THEN {}
                            ELSE IF <<n, c>> \in translating THEN {ANY}
                            ELSE ProceedByUpdatingVtags(<<n, c>>, far, TRUE)
            IN Intersected({IF n = root THEN rootTags ELSE range[n]} \cup {up(c) : c \in children})
    IN tags
VerifyMPVBConstraints(root, rootTags) ==
    TreeTags(links, root, rootTags, vlanRange)[<<root, root>>] # {}

-----------------------------------------------------------------------------
(* Action_PrestageCompute_MPVB.                                            *)
FirstOf(S) == CHOOSE i \in S : \A j \in S : i <= j

(* The farthest terminal from one, the first of several; the terminal that *)
(* is farthest from its own; and the sum of the distances from one.        *)
Farthest(i) ==
    LET upTo[j \in 0..Len(order)] ==
            IF j = 0 THEN 0
            ELSE LET k == upTo[j - 1]
                 IN IF /\ j # i
                       /\ k = 0 \/ Distance(order[i], order[k]) < Distance(order[i], order[j])
                    THEN j ELSE k
    IN upTo
FarthestOf(i) == Farthest(i)[Len(order)]
MaxDistance(i) == Distance(order[i], order[FarthestOf(i)])
Longest ==
    LET upTo[i \in 0..Len(order)] ==
            IF i = 0 THEN 1
            ELSE LET k == upTo[i - 1]
                 IN IF MaxDistance(k) < MaxDistance(i) THEN i ELSE k
    IN upTo
LongestFrom == Longest[Len(order)]
LongestTo == FarthestOf(LongestFrom)
SumDistances(i) ==
    LET upTo[j \in 0..Len(order)] ==
            IF j = 0 THEN 0
            ELSE upTo[j - 1] + IF j = i THEN 0 ELSE Distance(order[i], order[j])
    IN upTo
SumDistance(i) == SumDistances(i)[Len(order)]

(* The two with the longest path between them, and then, again and again,  *)
(* the first of the nearest ones that are left.                            *)
Remaining(s) == DOMAIN order \ Range(s)
Nearest(S) ==
    FirstOf({i \in S : \A j \in S : SumDistance(i) <= SumDistance(j)})
Reordering ==
    LET upTo[k \in 0..Len(order) - 2] ==
            IF k = 0 THEN <<LongestFrom, LongestTo>>
            ELSE LET s == upTo[k - 1] IN Append(s, Nearest(Remaining(s)))
    IN upTo
Reordered ==
    LET s == Reordering[Len(order) - 2] IN [k \in DOMAIN order |-> order[s[k]]]

Connected == \A s, t \in Terminals : s # t => KSP(s, t) # <<>>

Fail(at) == /\ pc = at /\ pc' = "failed"
            /\ UNCHANGED <<input, progress, smt, final>>

Disconnected == ~Connected /\ Fail("prestage")

(* The first path that has VLANs seeds SMT.  When there is none, SMT stays *)
(* empty.  Both ends get the VLAN range of the first terminal.             *)
SeedBridgeWithLPH ==
    LET a == order'[1]
        z == order'[2]
        good == {i \in DOMAIN KSP(a, z) :
                    VerifyTEConstraints(KSP(a, z)[i], request[a], request[z]) # {}}
    IN /\ pc = "prestage" /\ Connected
       /\ order' = Reordered
       /\ current' = z
       /\ IF good = {} THEN UNCHANGED smt
          ELSE /\ LoadPath(KSP(a, z)[FirstOf(good)])
               /\ vlanRange' = [vlanRange EXCEPT ![a] = request[a], ![z] = request[a]]
       /\ pc' = "bridge"
       /\ UNCHANGED <<input, reentry, final>>

-----------------------------------------------------------------------------
(* Action_BridgeTerminal_MPVB.                                             *)
BridgeNodes == Sieve(nodes, Bridges)
At == CHOOSE i \in DOMAIN order : order[i] = current

NoBridgeNodes == BridgeNodes = <<>> /\ Fail("bridge")
NoMoreTerminal == BridgeNodes # <<>> /\ At = Len(order) /\ Fail("bridge")

(* The path search throws when it finds none.  Neither the action nor the  *)
(* worker catches its exception: the process ends.                         *)
Throws(t) == \E b \in Range(BridgeNodes) : KSP(b, t) = <<>>
SearchThrows == /\ pc = "bridge" /\ At < Len(order) /\ Throws(order[At + 1])
                /\ pc' = "crashed"
                /\ UNCHANGED <<input, progress, smt, final>>

\* With a bug: only the end of the path is compared with the tree.
Touches_EndOnly(b, p) == InSmt(Last(p)[2])

Touches(b, p) == \E i \in DOMAIN p : p[i][2] # b /\ InSmt(p[i][2])

(* Nothing is returned for a path that passes every test.                  *)
VerifyBridgePath(b, t, p) ==
    LET tags == VerifyTEConstraints(p, request[t], {ANY})
    IN /\ ~Touches(b, p)
       /\ tags # {} /\ VerifyMPVBConstraints(b, tags)
       /\ build.fallsOff

(* The path to terminal t from each bridge node that has a good one.       *)
BridgeTerminalWithPDH(t) ==
    LET good(b) == {i \in DOMAIN KSP(b, t) : VerifyBridgePath(b, t, KSP(b, t)[i])}
        having == Sieve(BridgeNodes, {b \in Bridges : good(b) # {}})
    IN [i \in DOMAIN having |-> KSP(having[i], t)[FirstOf(good(having[i]))]]
Cheapest(ps) == ps[FirstOf({i \in DOMAIN ps : \A j \in DOMAIN ps : Len(ps[i]) <= Len(ps[j])})]

Bridge ==
    LET t == order[At + 1]
        candidates == BridgeTerminalWithPDH(t)
    IN /\ pc = "bridge" /\ BridgeNodes # <<>> /\ At < Len(order) /\ ~Throws(t)
       /\ candidates # <<>>
       /\ LoadPath(Cheapest(candidates))
       /\ vlanRange' = [vlanRange EXCEPT ![t] = request[t]]
       /\ current' = t /\ reentry' = MAX_REENTRY_NUM
       /\ pc' = IF t = Last(order) THEN "finalize" ELSE "bridge"
       /\ UNCHANGED <<input, order, final>>

\* With a bug: the recursion does not stop at a node with several links.
BackoffFromTerminal_Through(n, ns, ls) ==
    LET chain[i \in 0..Len(ns)] ==
            IF i = 0 THEN [at |-> n, nodes |-> ns, links |-> ls]
            ELSE LET s == chain[i - 1]
                     l == LocalLinks(s.links, s.at)[1]
                 IN IF LocalLinks(s.links, s.at) = <<>> THEN s
                    ELSE [at |-> l[2],
                          nodes |-> Sieve(s.nodes, Nodes \ {s.at}),
                          links |-> Sieve(s.links, {k \in AllLinks : s.at \notin {k[1], k[2]}})]
    IN chain[Len(ns)]

(* From a node with one local link: the link and its opposite, the node,   *)
(* and then the node at the other end.                                     *)
Without(s, l) ==
    [at |-> l[2],
     nodes |-> Sieve(s.nodes, Nodes \ {s.at}),
     links |-> Sieve(s.links, AllLinks \ {l, Opposite(l)})]
Chain(n, ns, ls) ==
    LET chain[i \in 0..Len(ns)] ==
            IF i = 0 THEN [at |-> n, nodes |-> ns, links |-> ls]
            ELSE LET s == chain[i - 1]
                     local == LocalLinks(s.links, s.at)
                 IN IF Len(local) # 1 THEN s ELSE Without(s, local[1])
    IN chain
BackoffFromTerminal(n, ns, ls) == Chain(n, ns, ls)[Len(ns)]

BackoffCount == LET i == At - 1
                IN CASE i < BACKOFF_NUM -> 0
                     [] i = BACKOFF_NUM -> 1
                     [] OTHER -> BACKOFF_NUM
NextToEnd == LET next == order[At + 1]
             IN Append(Sieve(order, Terminals \ {next}), next)

NoWay == /\ pc = "bridge" /\ BridgeNodes # <<>> /\ At < Len(order)
         /\ ~Throws(order[At + 1])
         /\ BridgeTerminalWithPDH(order[At + 1]) = <<>>

NothingLeftToDisturb == NoWay /\ At - BackoffCount = Len(order) - 1 /\ Fail("bridge")

(* The terminals are looked up in SMT: one that an earlier crankback has   *)
(* removed is NULL.  RemoveNode compares with an iterator never set.       *)
BackoffAndDisturb ==
    LET first == BackoffFromTerminal(order[At], nodes, links)
        second == BackoffFromTerminal(order[At - 1], first.nodes, first.links)
        null == \/ BackoffCount >= 1 /\ ~InSmt(order[At])
                \/ BackoffCount = 2 /\ ~Contains(first.nodes, order[At - 1])
        left == CASE BackoffCount = 0 -> [nodes |-> nodes, links |-> links]
                  [] BackoffCount = 1 -> first
                  [] OTHER -> second
        crashes == null \/ (left.nodes # nodes /\ ~build.survives)
    IN /\ NoWay /\ At - BackoffCount # Len(order) - 1
       /\ IF crashes
          THEN pc' = "crashed" /\ UNCHANGED <<smt, progress>>
          ELSE /\ nodes' = left.nodes /\ links' = left.links
               /\ vlanRange' = [n \in Nodes |-> IF Contains(left.nodes, n) THEN vlanRange[n]
                                                ELSE {ANY}]
               /\ order' = NextToEnd
               /\ reentry' = reentry - 1
               /\ pc' = IF reentry' = 0 THEN "failed" ELSE "bridge"
               /\ UNCHANGED current
       /\ UNCHANGED <<input, final>>

-----------------------------------------------------------------------------
(* Action_FinalizeServiceTopology_MPVB.  The first local link of a node    *)
(* other than the root leads to the root: LoadPath adds paths outwards.    *)
Root == order[1]

Finalize ==
    LET tags == TreeTags(links, Root, request[Root], vlanRange)
        up(n) == IF n = Root THEN Root ELSE LocalLinks(links, n)[1][2]
    IN /\ pc = "finalize"
       /\ IF VerifyMPVBConstraints(Root, request[Root])
          THEN /\ vlanSet' = [n \in Nodes |-> IF InSmt(n) THEN tags[<<n, up(n)>>] ELSE {}]
               /\ \E v \in RandomTag(vlanSet'[Root]) :
                      suggested' = [suggested EXCEPT ![Root] = v]
               /\ pc' = "suggest"
          ELSE pc' = "failed" /\ UNCHANGED <<vlanSet, suggested>>
       /\ UNCHANGED <<input, progress, smt, visited>>

(* The recursion of FinalizeMPVBConstraints_Recursive goes on along the    *)
(* first unvisited link of a node that has been reached.  The VLAN of a    *)
(* node is read for its further links only: a node that has none gets none.*)
Pending == Sieve(links, {l \in AllLinks : l \notin visited /\ suggested[l[1]] # ANY})

\* With a bug: a link gets any VLAN it has.
SuggestedLinks_AnyOfItsOwn(l) ==
    RandomTag(ProceedByUpdatingVtags(l, vlanSet[l[1]], TRUE))

SuggestedLinks(l) ==
    LET near == ProceedByUpdatingVtags(l, vlanSet[l[1]], TRUE)
        far == ProceedByUpdatingVtags(Opposite(l), near, TRUE)
        v == suggested[l[1]]
    IN CASE v \in far -> {v}
         [] v \notin far /\ l \in translating -> RandomTag(Intersected({near, far}))
         [] OTHER -> {ANY}

Suggest ==
    /\ pc = "suggest" /\ Pending # <<>>
    /\ LET l == Pending[1]
           next == l[2]
       IN \E v \in SuggestedLinks(l) :
          \E w \in CASE Len(LocalLinks(links, next)) = 1 -> {ANY}
                   [] v # ANY /\ v \in vlanSet[next] -> {v}
                   [] OTHER -> RandomTag(vlanSet[next]) :
              /\ suggested' = [suggested EXCEPT ![l] = v, ![Opposite(l)] = v, ![next] = w]
              /\ visited' = visited \cup {l, Opposite(l)}
    /\ UNCHANGED <<input, pc, progress, smt, vlanSet>>

Suggested == /\ pc = "suggest" /\ Pending = <<>> /\ pc' = "done"
             /\ UNCHANGED <<input, progress, smt, final>>

Stopped == pc \in {"done", "failed", "crashed"}
Return == Stopped /\ UNCHANGED vars

Next ==
    \/ Disconnected \/ SeedBridgeWithLPH
    \/ NoBridgeNodes \/ NoMoreTerminal \/ SearchThrows \/ Bridge
    \/ NothingLeftToDisturb \/ BackoffAndDisturb
    \/ Finalize \/ Suggest \/ Suggested
    \/ Return

Spec == Init /\ [][Next]_vars
-----------------------------------------------------------------------------
Terminated == pc \in {"done", "failed", "crashed"}

TypeOK ==
    /\ pc \in {"prestage", "bridge", "finalize", "suggest", "done", "failed", "crashed"}
    /\ order \in Seq(Terminals) /\ Range(order) = Terminals
    /\ current \in Nodes /\ reentry \in 0..MAX_REENTRY_NUM
    /\ nodes \in Seq(Nodes) /\ links \in Seq(graph)
    /\ vlanRange \in [Nodes -> TagSets] /\ vlanSet \in [Nodes -> TagSets]
    /\ suggested \in [Nodes \cup AllLinks -> Vlans \cup {ANY, 0}]
    /\ visited \subseteq Range(links)

(* The service topology is a tree at every moment, which the recursion     *)
(* over it relies on ("in a trree, nextLink visited == nextNode visited"): *)
(* every link comes with its opposite, no node or link is in it twice, its *)
(* first node leads to all of them, and it has one link less than nodes,   *)
(* whatever has been bridged, taken away by a crankback and bridged again. *)
(* That is so as long as the paths that the search finds are loop-free;    *)
(* nothing here verifies that, as Action_ComputeKSP does (mpvb_actions.cc: *)
(* 333), and a path that comes back to a node makes a cycle.               *)
LoopFree == \A e \in DOMAIN routes : \A i \in DOMAIN routes[e] : IsLoopFree(routes[e][i])
LeadsToAll(n, N, L) ==
    \A S \in SUBSET N : n \in S /\ (\A l \in L : l[1] \in S => l[2] \in S) => S = N
Tree ==
    /\ IsInjective(nodes) /\ IsInjective(links)
    /\ \A l \in Range(links) : Opposite(l) \in Range(links)
    /\ LeadsToAll(nodes[1], Range(nodes), Range(links))
    /\ Len(links) = 2 * (Len(nodes) - 1)
IsTree == LoopFree /\ nodes # <<>> => Tree

(* What Verify has let into the topology, Finalize never has to refuse:    *)
(* the tests of single paths against the tree of their moment add up to a  *)
(* tree with VLANs for all.  Then, without translation, all links of the   *)
(* answer that have VLANs are given one and the same, which all of them    *)
(* have; and the VLAN at a terminal is one the request names for it,       *)
(* except at the second terminal, which gets the range of the first.       *)
FinalizeNeverFails == pc = "finalize" => VerifyMPVBConstraints(Root, request[Root])
Untranslated == pc = "done" /\ Range(links) \cap translating = {}
InRange(t) ==
    \A l \in Range(links) :
        l[1] = t /\ avail[l] # {} => suggested[l] \in RandomTag(request[t])
OneVlan ==
    /\ FinalizeNeverFails
    /\ Untranslated =>
        /\ \E v \in Vlans : \A l \in Range(links) :
            avail[l] # {} => suggested[l] = v /\ v \in avail[l]
        /\ \A t \in Terminals \ {order[2]} : InRange(t)

(* A crankback takes back the last two terminals, and what leads to them:  *)
(* one before them that hangs on the topology by one link keeps it.  (One  *)
(* that an earlier crankback took away and that a later path runs through  *)
(* is no leaf, and may go with that path.)  And bridging, cranking back and*)
(* trying again comes to an end: a step that does not end the bridging     *)
(* gets to a later terminal, or to the same one with fewer crankbacks      *)
(* left, and one that ends it leaves for good.                             *)
Hangs(t, ls) == Len(LocalLinks(ls, t)) = 1
Progresses ==
    \/ pc' # "bridge"
    \/ At' > At
    \/ At' = At /\ reentry' < reentry /\ reentry' > 0
KeepsOthers ==
    \A i \in 1..At - 2 :
        Hangs(order[i], links) => LocalLinks(links, order[i]) = LocalLinks(links', order[i])
CrankbackEnds ==
    [][pc = "bridge" => Progresses /\ (LoopFree => KeepsOthers)]_vars

(* "we have bridged all terminals sucessfully": the comment at the return. *)
AllBridged == pc \in {"finalize", "done"} => \A t \in Terminals : InSmt(t)
=============================================================================

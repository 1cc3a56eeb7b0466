--------------------------- MODULE BridgeManifest ---------------------------
(***************************************************************************)
(* What geni/rspec.cc makes of the service topology of a finished bridging *)
(* request: the hops of the manifest RSpec, and with TreeToPaths of        *)
(* tedbManager/tewg.cc the paths whose workflow data are merged.  Nodes    *)
(* with "*" in their name are not in this model.                           *)
(***************************************************************************)
EXTENDS BridgeTerminal

VARIABLES
    hops,    \* the hops of the manifest, in the order they are written
    paths    \* the paths of TreeToPaths

mvars == <<vars, hops, paths>>

NoLink == <<>>

MInit == Init /\ hops = <<>> /\ paths = <<>>

-----------------------------------------------------------------------------
(* The links that are still to be tried at this level, those of the nodes  *)
(* behind them first.  s holds NEXT_HOPS and HOP_ID of the links.          *)
RECURSIVE MPVB_Nexthop(_, _, _)

MPVB_Nexthop(ls, previous, s) ==
    LET l == Head(ls)
        back == Opposite(l)
        found == [id |-> s.id \o <<l, back>>,
                  next |-> {<<l, back>>} \cup s.next \cup
                           (IF previous = NoLink THEN {} ELSE {<<previous, l>>})]
    IN CASE ls = <<>> -> s
         [] ls # <<>> /\ (l = previous \/ Contains(s.id, l)) ->
                MPVB_Nexthop(Tail(ls), previous, s)
         [] OTHER ->
                MPVB_Nexthop(Tail(ls), previous,
                             MPVB_Nexthop(LocalLinks(links, l[2]), back, found))

(* The hops that follow a hop are written after it, each with its own.     *)
RECURSIVE MPVB_Finalize(_, _)

MPVB_Finalize(l, s) ==
    LET next == SelectSeq(s.id, LAMBDA k : <<l, k>> \in s.next)
        id(k) == CHOOSE j \in DOMAIN s.id : s.id[j] = k
        after[i \in 0..Len(next)] ==
            IF i = 0 THEN <<>> ELSE after[i - 1] \o MPVB_Finalize(next[i], s)
    IN <<[id |-> id(l), link |-> l, vlan |-> suggested[l],
          nextHop |-> [i \in DOMAIN next |-> id(next[i])]]>> \o after[Len(next)]

TraverseMPVBGraph ==
    LET s == MPVB_Nexthop(LocalLinks(links, nodes[1]), NoLink, [id |-> <<>>, next |-> {}])
    IN MPVB_Finalize(s.id[1], s)

-----------------------------------------------------------------------------
(* The root is not marked as visited: its first child comes back to it,    *)
(* and gives it a path.  s holds PATH_FROM_ROOT and the flags of the nodes.*)
RECURSIVE TreeToPaths_Recursive(_, _, _, _)

\* With a bug: a neighbour that has been visited makes a node an inner one, too.
TreeToPaths_Recursive_Leafless(n, ls, isTerminal, s) ==
    LET l == Head(ls)
        to == [s EXCEPT !.path[l[2]] = s.path[n] \o <<l, Opposite(l)>>,
                        !.visited = @ \cup {l[2]}]
    IN CASE ls = <<>> -> [s EXCEPT !.terminal = IF isTerminal THEN @ \cup {n} ELSE @ \ {n}]
         [] ls # <<>> /\ l[2] \in s.visited -> TreeToPaths_Recursive(n, Tail(ls), FALSE, s)
         [] OTHER -> TreeToPaths_Recursive(n, Tail(ls), FALSE,
                         TreeToPaths_Recursive(l[2], LocalLinks(links, l[2]), TRUE, to))

TreeToPaths_Recursive(n, ls, isTerminal, s) ==
    LET l == Head(ls)
        to == [s EXCEPT !.path[l[2]] = s.path[n] \o <<l, Opposite(l)>>,
                        !.visited = @ \cup {l[2]}]
    IN CASE ls = <<>> -> [s EXCEPT !.terminal = IF isTerminal THEN @ \cup {n} ELSE @ \ {n}]
         [] ls # <<>> /\ l[2] \in s.visited -> TreeToPaths_Recursive(n, Tail(ls), isTerminal, s)
         [] OTHER -> TreeToPaths_Recursive(n, Tail(ls), FALSE,
                         TreeToPaths_Recursive(l[2], LocalLinks(links, l[2]), TRUE, to))

TreeToPaths(root) ==
    LET s == TreeToPaths_Recursive(root, LocalLinks(links, root), TRUE,
                 [path |-> [n \in Nodes |-> <<>>], visited |-> {}, terminal |-> {}])
        ends == SelectSeq(nodes, LAMBDA n : n # root /\ n \in s.terminal)
    IN [i \in DOMAIN ends |-> s.path[ends[i]]]

ParseApiReplyMessage ==
    /\ pc = "done" /\ hops = <<>>
    /\ hops' = TraverseMPVBGraph
    /\ paths' = TreeToPaths(nodes[1])
    /\ UNCHANGED vars

MNext == (Next /\ UNCHANGED <<hops, paths>>) \/ ParseApiReplyMessage

MSpec == MInit /\ [][MNext]_mvars
-----------------------------------------------------------------------------
(* The hops name every link of the topology once, their numbers are        *)
(* distinct, and their next hops make one tree: every hop but the first is *)
(* the next of exactly one other, and starts where that one ends.          *)
FollowsFrom(h, k) == h.link = Opposite(k.link) \/ (h.link[1] = k.link[1] /\ h.link # k.link)
HopsAreTree ==
    /\ {hops[i].link : i \in DOMAIN hops} = Range(links)
    /\ Len(hops) = Len(links)
    /\ IsInjective([i \in DOMAIN hops |-> hops[i].id])
    /\ \A i \in DOMAIN hops :
        LET before == {j \in DOMAIN hops : \E k \in DOMAIN hops[j].nextHop :
                            hops[j].nextHop[k] = hops[i].id}
        IN IF hops[i].id = 1 THEN before = {}
           ELSE /\ Cardinality(before) = 1
                /\ \A j \in before : FollowsFrom(hops[i], hops[j])

(* A path starts at the root, goes over a link, its opposite and the next, *)
(* and comes to no link twice.                                             *)
IsPath(p) ==
    /\ IsInjective(p) /\ p[1][1] = nodes[1]
    /\ \A j \in 2..Len(p) : IF j % 2 = 0 THEN p[j] = Opposite(p[j - 1])
                                         ELSE p[j][1] = p[j - 1][1]

(* There is one path to every leaf, and together they cover the topology.  *)
Leaves == {n \in Range(nodes) \ {nodes[1]} : Len(LocalLinks(links, n)) = 1}
PathsReachEveryLeaf ==
    /\ \A i \in DOMAIN paths : IsPath(paths[i])
    /\ {Last(paths[i])[1] : i \in DOMAIN paths} = Leaves
    /\ Len(paths) = Cardinality(Leaves)
    /\ UNION {Range(paths[i]) : i \in DOMAIN paths} = Range(links)

(* The manifest is the whole topology as one tree of hops, and the         *)
(* workflow is composed from all its paths.                                *)
ManifestWhole == hops # <<>> => HopsAreTree /\ PathsReachEveryLeaf
=============================================================================

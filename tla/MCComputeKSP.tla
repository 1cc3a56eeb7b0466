---------------------------- MODULE MCComputeKSP ----------------------------
(***************************************************************************)
(* All topologies over some lines between five nodes, each line with one   *)
(* of two metrics: lines that differ in their ends, among them one from    *)
(* the source to the destination; lines two of which run in parallel; and  *)
(* lines that have lost one of their directions.                           *)
(***************************************************************************)
EXTENDS ComputeKSP

MCTNodes == 1..5

\* <<a, b, n>> : the n-th link from node a to node b
SimpleLines == {<<1, 2, 1>>, <<1, 5, 1>>, <<2, 3, 1>>, <<3, 5, 1>>,
                <<2, 4, 1>>, <<2, 5, 1>>, <<4, 5, 1>>}
ParallelLines == {<<1, 2, 1>>, <<1, 2, 2>>, <<2, 3, 1>>, <<2, 5, 1>>, <<3, 5, 1>>}
PrunedLines == {<<1, 2, 1>>, <<1, 3, 1>>, <<2, 3, 1>>, <<2, 5, 1>>}

Opposite(l) == <<l[2], l[1], l[3]>>
Both(E) == E \cup {Opposite(l) : l \in E}

MCTLinks == Both(SimpleLines \cup ParallelLines \cup PrunedLines)
MCLocalEnd == [l \in MCTLinks |-> l[1]]
MCRemoteEnd == [l \in MCTLinks |-> l[2]]
MCRemoteLink == [l \in MCTLinks |-> Opposite(l)]
MCOrder == SelectSeq([i \in 1..50 |-> <<1 + ((i - 1) \div 10), 1 + (((i - 1) \div 2) % 5),
                                        1 + ((i - 1) % 2)>>],
                     LAMBDA l : l \in MCTLinks)

GraphsOver(lines) ==
    UNION {{[l \in Both(E) |-> c[IF l \in E THEN l ELSE Opposite(l)]] : c \in [E -> {1, 2}]} :
               E \in SUBSET lines}
\* PruneByBandwidth may have removed one direction of a line.
Pruned == {[l \in E |-> 1] : E \in SUBSET Both(PrunedLines)}

MCTopologies == GraphsOver(SimpleLines) \cup GraphsOver(ParallelLines) \cup Pruned
=============================================================================

CONSTANTS
    TNodes <- MCTNodes
    TLinks <- MCTLinks
    LocalEnd <- MCLocalEnd
    RemoteEnd <- MCRemoteEnd
    RemoteLink <- MCRemoteLink
    Order <- MCOrder
    Topologies <- MCTopologies
    Src = 1
    Dst = 5
    K = 5
SPECIFICATION SearchSpec
INVARIANTS RoutesOnly KShortest

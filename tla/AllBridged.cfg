SPECIFICATION MSpec
CONSTANTS
    NodeOrder <- MCNodeOrder
    Bridges <- MCBridges
    Vlans <- MCVlans
    Graphs <- MCGraphs
    Capabilities <- MCCapabilities
    Requests <- MCRequests
    Routes <- MCRoutes
    ANY = ANY
    X = X
    Y = Y
    Plain = Plain
    A = A
    B = B
    C = C
    D = D
    E = E
INVARIANT AllBridged

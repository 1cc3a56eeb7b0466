CONSTANTS
    a1 = a1
    a2 = a2
    a3 = a3
    b1 = b1
    b2 = b2
    c1 = c1
    Hops <- MCHops
    Aggregate <- MCAggregate
    Routes <- MCRoutes
    Kinds <- MCKinds
    Tags <- MCTags
    NumPaths = 2
SPECIFICATION Spec
INVARIANTS LoopFree VlanFromLowers AggregatesOrdered NothingDropped

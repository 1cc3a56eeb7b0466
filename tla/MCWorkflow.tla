----------------------------- MODULE MCWorkflow -----------------------------
(***************************************************************************)
(* Two paths over six links of three aggregates.  The routes pass through  *)
(* an aggregate with one, two or three hops, leave it and come back to it, *)
(* and cross each other in opposite directions.                            *)
(***************************************************************************)
EXTENDS WorkflowData

CONSTANTS a1, a2, a3, b1, b2, c1

MCHops == {a1, a2, a3, b1, b2, c1}
MCAggregate == [h \in MCHops |-> CASE h \in {a1, a2, a3} -> "A"
                                   [] h \in {b1, b2} -> "B"
                                   [] h = c1 -> "C"]
MCRoutes == {<<a1, b1, b2, c1>>, <<a1, b1, a2, b2, a3>>, <<b2, a3, c1, b1, a1>>}

Link(produces, consumes, translates, vlans) ==
    [produces |-> produces, consumes |-> consumes, translates |-> translates, vlans |-> vlans]
MCTags == {1, 2}
plain      == Link(FALSE, FALSE, FALSE, {1})
consumer   == Link(FALSE, TRUE, FALSE, {1, 2})
producer   == Link(TRUE, FALSE, FALSE, {1, 2})
translator == Link(FALSE, FALSE, TRUE, {1, 2})
MCKinds == {k \in [MCHops -> {plain, consumer, producer, translator}] :
                k[c1] = consumer /\ k[a3] \in {plain, translator} /\ k[b2] = producer}
=============================================================================

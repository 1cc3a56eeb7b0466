----------------------------- MODULE MCSchedules -----------------------------
EXTENDS Schedules

(* A ring of four lines with an edge link at every corner; the two         *)
(* sub-paths cross it.                                                     *)
CONSTANTS i1, e1, i2, e2, sa, ad, sb, bd
MCLinkOrder == <<i1, sa, sb, ad, bd, e1, i2, e2>>
MCRoutes == << << <<i1, sa, ad, e1>>, <<i1, sb, bd, e1>> >>,
               << <<i2, sa, sb, e2>>, <<i2, ad, bd, e2>> >> >>
MCCapacity == [l \in {i1, e1, i2, e2, sa, ad, sb, bd} |->
                  IF l = ad THEN 2 ELSE IF l \in {i1, e1} THEN 4 ELSE 3]

(* Up to three reservations on one line, one on another, one on the edge.  *)
Busy(L) == [l \in Range(MCLinkOrder) |-> IF l \in DOMAIN L THEN L[l] ELSE <<>>]
Two == {<<Delta(1, 3, 1), Delta(2, 4, 1)>>, <<Delta(0, 2, 1), Delta(3, 4, 2)>>, <<Delta(0, 5, 2), Delta(2, 3, 1)>>}
Three == {<<Delta(0, 2, 1), Delta(3, 4, 1), Delta(1, 5, 1)>>,
          <<Delta(2, 3, 1), Delta(1, 4, 1), Delta(0, 5, 1)>>}
MCBookings ==
    {Busy(sa :> <<w>>) : w \in {Delta(0, 2, 2), Delta(2, 4, 3), Delta(1, 3, 1)}}
    \cup {Busy(sa :> w @@ bd :> <<Delta(2, 3, 2)>>) : w \in Two \cup Three}
    \cup {Busy(ad :> w @@ e1 :> <<Delta(4, 5, 4)>>) : w \in Two}
    \cup {Busy(i2 :> <<Delta(1, 2, 3)>>)}

One(bw, max, flex, window, excluded) ==
    [bw |-> bw, max |-> max, min |-> 0, flex |-> flex, window |-> window,
     excluded |-> excluded, bag |-> ~ window]
Span(s, e) == [s |-> s, e |-> e]
MCRequests ==
    {<<One(1, m, f, FALSE, x)>> :
        m \in {0, 2}, f \in {<<Span(1, 3)>>, <<Span(2, 4)>>, <<Span(2, 3), Span(1, 4)>>}, x \in {{}, {sb}}}
    \cup {<<One(b, 0, <<Span(2, 4)>>, TRUE, {})>> : b \in {1, 2}}
    \cup {<<One(1, 2, <<Span(2, 4)>>, w, {}), One(b, m, <<Span(2, 4)>>, FALSE, x)>> :
             w \in BOOLEAN, b \in {1, 2}, m \in {0, 2}, x \in {{}, {ad}}}
    \cup {<<One(1, 2, <<Span(2, 4), Span(1, 5)>>, FALSE, {}), One(b, 2, <<Span(2, 4)>>, FALSE, x)>> :
             b \in {1, 2}, x \in {{}, {ad}}}
=============================================================================

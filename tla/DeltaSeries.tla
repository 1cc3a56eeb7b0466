----------------------------- MODULE DeltaSeries -----------------------------
(***************************************************************************)
(* The reservations of one link over time: AggregateDeltaSeries and        *)
(* BandwidthAvailabilityGraph (compute/scheduling.cc), the bandwidth part  *)
(* of a TLinkDelta (resvManager/reservation.cc) and the graphs of a path   *)
(* (tedbManager/tewg.cc).                                                  *)
(*                                                                         *)
(* A delta holds bandwidth bw from time s until e.  A series is sorted and *)
(* its deltas do not overlap.  The tags of the L2SC, TDM and LSC deltas    *)
(* are left out.                                                           *)
(***************************************************************************)
EXTENDS Integers, Sequences, FiniteSets, SequencesExt, FiniteSetsExt, EventList, TLC

Delta(s, e, bw) == [s |-> s, e |-> e, bw |-> bw]
NoDelta == Delta(0, 0, 0)
EmptySeries == <<>>

(* TLinkDelta: what a link has left once a delta is applied, or revoked.   *)
Applied(free, bw) == IF free > bw THEN free - bw ELSE 0
Revoked(free, bw, max) == IF free + bw > max THEN max ELSE free + bw

Combine(a, d) == [a EXCEPT !.bw = @ + d.bw]
Join(a, d) == [a EXCEPT !.bw = IF @ < d.bw THEN d.bw ELSE @]
Merge(a, d, join) == IF join THEN Join(a, d) ELSE Combine(a, d)

-----------------------------------------------------------------------------
(* AggregateDeltaSeries.                                                   *)
InWindow(d, s, e) ==
    \/ d.s >= s /\ d.s < e
    \/ d.e > s /\ d.e <= e
    \/ d.s <= s /\ d.e >= e
GetADSInWindow(ads, s, e) == Keep(ads, {i \in DOMAIN ads : InWindow(ads[i], s, e)})

Insert(ads, d) ==
    LET later == {i \in DOMAIN ads : ads[i].s >= d.e}
    IN IF later = {} THEN Append(ads, d) ELSE InsertAt(ads, Min(later), d)

(* The most that is held at one time of the window, as one delta.          *)
JoinADSInWindow(ads, s, e) ==
    LET w == GetADSInWindow(ads, s, e)
    IN IF w = <<>> THEN NoDelta
       ELSE [w[1] EXCEPT !.bw = Max({w[i].bw : i \in DOMAIN w})]

Replaced(ads, a, b) == [i \in DOMAIN ads |-> IF ads[i] = a THEN b ELSE ads[i]]

Meet_NoTail(ads, d, a, join) ==
    LET own == IF a.s < d.s THEN [a EXCEPT !.s = d.s] ELSE a
        rest == IF a.s > d.s THEN [d EXCEPT !.s = a.s] ELSE d
        split == CASE a.s < d.s -> Insert(Replaced(ads, a, [a EXCEPT !.e = d.s]), own)
                   [] a.s > d.s -> Insert(ads, [d EXCEPT !.e = a.s])
                   [] OTHER -> ads
    IN [ads |-> Replaced(split, own, Merge(own, rest, join)),
        left |-> IF own.e >= rest.e THEN NoDelta ELSE [rest EXCEPT !.s = own.e]]

(* One delta a of the series that d overlaps: a is split where d starts or *)
(* ends, d is cut where a starts, and d goes on where a ends.              *)
Meet(ads, d, a, join) ==
    LET own == IF a.s < d.s THEN [a EXCEPT !.s = d.s] ELSE a
        rest == IF a.s > d.s THEN [d EXCEPT !.s = a.s] ELSE d
        tail == own.e > rest.e
        met == Merge(IF tail THEN [own EXCEPT !.e = rest.e] ELSE own, rest, join)
        split == CASE a.s < d.s -> Insert(Replaced(ads, a, [a EXCEPT !.e = d.s]), own)
                   [] a.s > d.s -> Insert(ads, [d EXCEPT !.e = a.s])
                   [] OTHER -> ads
        merged == Replaced(split, own, met)
    IN IF tail
       THEN [ads |-> Insert(merged, [own EXCEPT !.s = rest.e]), left |-> NoDelta]
       ELSE [ads |-> merged, left |-> [rest EXCEPT !.s = own.e]]
AddDelta(ads, d, join) ==
    LET contacts == GetADSInWindow(ads, d.s, d.e)
        after[i \in 0..Len(contacts)] ==
            IF i = 0 THEN [ads |-> ads, left |-> d]
            ELSE LET b == after[i - 1] IN Meet(b.ads, b.left, contacts[i], join)
        end == after[Len(contacts)]
    IN IF end.left.s = end.left.e THEN end.ads ELSE Insert(end.ads, end.left)

(* The series of the deltas of a link.                                     *)
SeriesOf(deltas) ==
    LET upTo[i \in 0..Len(deltas)] ==
            IF i = 0 THEN EmptySeries
            ELSE AddDelta(upTo[i - 1], Delta(deltas[i].s, deltas[i].e, deltas[i].bw), FALSE)
    IN upTo[Len(deltas)]

(* Join goes over the deltas of the series itself, not of the other one.   *)
JoinSeries(ads, other) ==
    LET upTo[i \in 0..Len(ads)] ==
            IF i = 0 THEN ads ELSE AddDelta(upTo[i - 1], ads[i], TRUE)
    IN upTo[Len(ads)]

-----------------------------------------------------------------------------
(* BandwidthAvailabilityGraph: steps, each the bandwidth from a time on.   *)
Gaps(w, end) ==
    {w[i].e : i \in {j \in DOMAIN w : /\ w[j].e < end
                                      /\ j < Len(w) => w[j + 1].s > w[j].e}}
LoadADS(ads, start, end, capacity) ==
    LET w == GetADSInWindow(ads, start, end)
        starts == {w[i].s : i \in DOMAIN w}
        steps == starts \cup Gaps(w, end) \cup {end}
                     \cup (IF w # <<>> /\ w[1].s <= start THEN {} ELSE {start})
        held(t) == (CHOOSE i \in DOMAIN w : w[i].s = t)
    IN [t \in steps |-> CASE t = end -> 0
                          [] t # end /\ t \in starts -> Applied(capacity, w[held(t)].bw)
                          [] OTHER -> capacity]
BandwidthAt(bag, t) == bag[Max({x \in DOMAIN bag : x <= t})]

(* The graph of a path, from the series and the capacities of its links.   *)
CreatePathBAG(series, capacities, start, end) ==
    LET joined[i \in DOMAIN series] ==
            IF i = 1 THEN series[1] ELSE JoinSeries(joined[i - 1], series[i])
        capacity == Min({capacities[i] : i \in DOMAIN capacities \ {1}})
    IN LoadADS(joined[Len(series)], start, end, capacity)

-----------------------------------------------------------------------------
(* Reference definitions.                                                  *)
HeldAt(deltas, t) ==
    LET held[i \in 0..Len(deltas)] ==
            IF i = 0 THEN 0
            ELSE held[i - 1] + IF deltas[i].s <= t /\ t < deltas[i].e THEN deltas[i].bw ELSE 0
    IN held[Len(deltas)]
IsSeriesOf(ads, deltas, T) ==
    /\ \A i \in DOMAIN ads : /\ ads[i].s < ads[i].e
                             /\ i < Len(ads) => ads[i].e <= ads[i + 1].s
    /\ \A t \in T : HeldAt(ads, t) = HeldAt(deltas, t)
IsGraphOf(bag, deltas, start, end, capacity) ==
    /\ \A t \in start..end - 1 : BandwidthAt(bag, t) = Applied(capacity, HeldAt(deltas, t))
    /\ bag[end] = 0
==============================================================================

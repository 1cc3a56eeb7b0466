------------------------------ MODULE Schedules ------------------------------
(***************************************************************************)
(* The scheduling workflow of a request with several sub-paths             *)
(* (compute/compute_actions.cc): in every context, which is one bandwidth  *)
(* the user may want, a first round finds routes (ComputeKSP), the times   *)
(* worth trying (CreateOrderedATS) and the routes that fit at those times  *)
(* (ComputeSchedulesWithKSP) of each sub-path; a second round does the     *)
(* last step again and may hold its best result for the next sub-path.     *)
(* A context has its own TEWG; what is held is shared by all of them.      *)
(*                                                                         *)
(* A link is both directions of a line and its VLANs are left out; what    *)
(* the path search hands out is, of Routes, the routes that are left (its  *)
(* own module says which it misses).  The clock stands still meanwhile.    *)
(***************************************************************************)
EXTENDS DeltaSeries

CONSTANTS
    LinkOrder,   \* the links, in the order of the TEWG
    Capacity,    \* GetMaxReservableBandwidth
    Routes,      \* of each sub-path, the cheapest first, edge links at the ends
    Bookings,    \* the deltas that reservations may have put on the links
    Requests,    \* what is asked for each sub-path
    Now, MAX_ATS_SIZE,
    Horizon      \* the latest time that anything names

Links == Range(LinkOrder)
Paths == DOMAIN Routes
Contexts == {"preferred", "maximum", "minimum"}
Times == 0..Horizon

Window == {w \in [s : Times, e : Times] : w.s < w.e}
Booking == {d \in [s : Times, e : Times, bw : Nat] : d.s < d.e}
PathRequest ==
    [bw : Nat \ {0}, max : Nat, min : Nat, flex : Seq(Window) \ {<<>>},
     window : BOOLEAN, excluded : SUBSET Links, bag : BOOLEAN]

ASSUME SchedulesAssumption ==
    /\ LinkOrder \in Seq(Links)
    /\ Capacity \in [Links -> Nat]
    /\ Routes \in Seq(Seq(Seq(Links)))
    /\ \A u \in Paths : \A i \in DOMAIN Routes[u] : Len(Routes[u][i]) > 2
    /\ Bookings \subseteq [Links -> Seq(Booking)]
    /\ Now \in Nat /\ MAX_ATS_SIZE \in Nat /\ Horizon \in Nat
    /\ \A r \in Requests : r \in Seq(PathRequest) /\ Len(r) \in 1..Len(Routes)
(* Every route of a sub-path leads from its one edge link to its other.    *)
ASSUME EdgesAssumption ==
    \A u \in Paths : /\ Routes[u] # <<>>
                     /\ \A i \in DOMAIN Routes[u] : /\ Routes[u][i][1] = Routes[u][1][1]
                                                    /\ Last(Routes[u][i]) = Last(Routes[u][1])

VARIABLES
    request, booked,
    holding,     \* exclusiveConcurrentHolding
    oneGri,      \* whether the sub-paths have one GRI or one each
    todo,        \* the actions a context has still to run
    status,      \* of a context
    up,          \* whether the process is
    left,        \* the links in a TEWG
    free,        \* their unreservedBandwidth
    deltas,      \* their delta lists
    series,      \* their ADS
    routes,      \* FEASIBLE_PATHS_TEWG of the first Action_ComputeKSP
    ats,         \* ORDERED_ATS of the first Action_CreateOrderedATS
    found,       \* FEASIBLE_PATHS of the two rounds
    committed,   \* COMMITTED_RESERVATIONS
    clock,       \* generatedTime
    answer       \* COMPUTE_RESULT_LIST

input == <<request, booked, holding, oneGri>>
tewg == <<left, free, deltas, series>>
shared == <<committed, clock>>
roundsVars == <<input, todo, status, up, tewg, routes, ats, found, shared, answer>>

NoSeries == <<NoDelta>>
Step(a, u) == [action |-> a, path |-> u]

(* SetReqBandwidth and SetReqVolume.                                       *)
FlexBandwidth(c, u) ==
    CASE c = "preferred" -> request[u].bw
      [] c = "maximum" -> IF request[u].max > request[u].bw THEN request[u].max ELSE 0
      [] OTHER -> IF request[u].min < request[u].bw THEN request[u].min ELSE 0
Volume(u) == request[u].bw * (request[u].flex[1].e - request[u].flex[1].s)
Duration(c, u) == Volume(u) \div FlexBandwidth(c, u)
Gri(u) == IF oneGri THEN 1 ELSE u

FirstRound(c) ==
    LET steps[u \in 0..Len(request)] ==
            IF u = 0 THEN <<>>
            ELSE steps[u - 1] \o IF FlexBandwidth(c, u) = 0 THEN <<>>
                                 ELSE <<Step("ksp", u), Step("ats", u), Step("round1", u)>>
    IN IF FlexBandwidth(c, 1) = 0 THEN <<>>
       ELSE Append(steps[Len(request)], Step("reorder", 0))

RoundsInit ==
    /\ request \in Requests /\ booked \in Bookings
    /\ holding \in BOOLEAN /\ oneGri \in BOOLEAN
    /\ todo = [c \in Contexts |-> FirstRound(c)]
    /\ status = [c \in Contexts |-> "running"]
    /\ up = TRUE
    /\ left = [c \in Contexts |-> Links]
    /\ free = [c \in Contexts |-> Capacity]
    /\ deltas = [c \in Contexts |-> [l \in Links |->
                    [i \in DOMAIN booked[l] |-> [s |-> booked[l][i].s, e |-> booked[l][i].e,
                         bw |-> booked[l][i].bw, gri |-> 0, made |-> 0, applied |-> FALSE]]]]
    /\ series = [c \in Contexts |-> [l \in Links |-> NoSeries]]
    /\ routes = [c \in Contexts |-> <<>>]
    /\ ats = [c \in Contexts |-> <<>>]
    /\ found = [c \in Contexts |-> [r \in 1..2 |-> [u \in DOMAIN request |-> <<>>]]]
    /\ committed = <<>> /\ clock = 1
    /\ answer = [c \in Contexts |-> <<>>]

-----------------------------------------------------------------------------
Running(c, a, u) ==
    /\ up /\ status[c] = "running"
    /\ todo[c] # <<>> /\ Head(todo[c]) = Step(a, u)
Goes(c) == todo' = [todo EXCEPT ![c] = Tail(@)]
(* An exception ends the context, and no other one.                        *)
Fails(c) == status' = [status EXCEPT ![c] = "failed"] /\ todo' = [todo EXCEPT ![c] = <<>>]

PruneByBandwidth_Strict(L, f, bw) == {l \in L : f[l] > bw}
PruneByBandwidth(L, f, bw) == {l \in L : f[l] >= bw}
PruneByExclusionUrn(L, u) == L \ request[u].excluded

EdgeLinks(u) == {Routes[u][1][1], Last(Routes[u][1])}
ComputeKShortestPaths(L, u) ==
    Keep(Routes[u], {i \in DOMAIN Routes[u] : Range(Routes[u][i]) \subseteq L})

(* The search of every sub-path uses what the user asks of the first one;  *)
(* what the window of a request costs is never given back.                 *)
ComputeKSP(c, u) ==
    LET kept == PruneByExclusionUrn(left[c], 1)
        windowed == request[1].window
        ads == [l \in Links |-> IF windowed /\ l \in kept THEN SeriesOf(deltas[c][l])
                                ELSE series[c][l]]
        w == request[1].flex[1]
        net == [l \in Links |-> IF windowed /\ l \in kept
                                THEN Applied(free[c][l], JoinADSInWindow(ads[l], w.s, w.e).bw)
                                ELSE free[c][l]]
        L == PruneByBandwidth(kept, net, FlexBandwidth(c, u))
        paths == ComputeKShortestPaths(L, 1)
    IN /\ Running(c, "ksp", u)
       /\ left' = [left EXCEPT ![c] = L]
       /\ free' = [free EXCEPT ![c] = net]
       /\ series' = [series EXCEPT ![c] = ads]
       /\ routes' = [routes EXCEPT ![c] = IF u = 1 THEN paths ELSE @]
       /\ IF paths = <<>> \/ ~ EdgeLinks(1) \subseteq L
          THEN Fails(c) ELSE Goes(c) /\ UNCHANGED status
       /\ UNCHANGED <<input, up, deltas, ats, found, shared, answer>>

-----------------------------------------------------------------------------
(* Action_CreateOrderedATS.                                                *)
Count(c, l) == Cardinality({i \in DOMAIN routes[c] : l \in Range(routes[c][i])})

(* A link goes before every link that is on fewer routes, and to the end.  *)
Before(c, s, l) ==
    LET into[i \in 0..Len(s)] ==
            IF i = 0 THEN <<>>
            ELSE into[i - 1] \o IF Count(c, l) > Count(c, s[i]) THEN <<l, s[i]>> ELSE <<s[i]>>
    IN Append(into[Len(s)], l)
OrderedLinks(c) ==
    LET upTo[i \in 0..Len(LinkOrder)] ==
            IF i = 0 THEN <<>>
            ELSE IF LinkOrder[i] \in left[c] /\ Count(c, LinkOrder[i]) > 0
                 THEN Before(c, upTo[i - 1], LinkOrder[i]) ELSE upTo[i - 1]
    IN upTo[Len(LinkOrder)]

AddUniqueTimePoint(s, t) == IF Contains(s, t) THEN s ELSE Append(s, t)

(* Comparisons of 64-bit numbers without sign: a negative one is large.    *)
More(a, b) == IF a < 0 THEN b >= 0 \/ a > b ELSE b >= 0 /\ a > b

(* One delta of a series: the time before it, then the time with it.       *)
Consider(st, d, max, bw, volume) ==
    LET Try(x, until) ==
            IF More(x.remain * (until - x.start), volume)
            THEN [x EXCEPT !.points = AddUniqueTimePoint(@, x.start), !.start = x.next]
            ELSE x
        Sliding(x, t) == [x EXCEPT !.next = IF @ <= x.start THEN t ELSE @]
        before == Try(Sliding(st, d.s), d.s)
        with == Sliding([before EXCEPT !.remain = IF More(@, max - d.bw) THEN max - d.bw ELSE @],
                        d.e)
    IN IF More(bw, with.remain)
       THEN [with EXCEPT !.start = d.e, !.remain = max]
       ELSE Try(with, d.e)

TimePoints(points, ads, max, bw, volume) ==
    LET upTo[i \in 0..Len(ads)] ==
            IF i = 0 THEN [start |-> Now, next |-> 0, remain |-> max - ads[1].bw,
                           points |-> points]
            ELSE LET b == upTo[i - 1] IN Consider(b, ads[i], max, bw, volume)
    IN upTo[Len(ads)].points

(* The series and the time points of the links, until there are enough.    *)
Aggregated(c, u) ==
    LET ordered == OrderedLinks(c)
        upTo[i \in 0..Len(ordered)] ==
            IF i = 0 THEN [points |-> <<>>, links |-> {}]
            ELSE LET b == upTo[i - 1]
                     l == ordered[i]
                     on == deltas[c][l]
                 IN IF Len(b.points) >= MAX_ATS_SIZE THEN b
                    ELSE [links |-> b.links \cup {l},
                          points |-> IF on = <<>> THEN b.points
                                     ELSE TimePoints(b.points, SeriesOf(on), Capacity[l],
                                                     FlexBandwidth(c, u), Volume(u))]
    IN upTo[Len(ordered)]

(* list::erase inside a for loop: the element after an erased one is       *)
(* skipped, and after the last one the loop begins again.                  *)
EraseAll(s, out) ==
    LET Rounds == (Len(s) + 1) * (Len(s) + 1)
        scan[n \in 0..Rounds] ==
            IF n = 0 THEN [s |-> s, i |-> 1]
            ELSE LET b == scan[n - 1]
                     last == b.i = Len(b.s)
                 IN CASE b.i > Len(b.s) -> b
                      [] b.i <= Len(b.s) /\ b.s[b.i] \in out ->
                            [s |-> RemoveAt(b.s, b.i), i |-> IF last THEN 1 ELSE b.i + 1]
                      [] OTHER -> [b EXCEPT !.i = @ + 1]
    IN scan[Rounds].s

WithinSchedule(w, t) == w.s <= t /\ t <= w.e
Trimmed(s, flex) ==
    EraseAll(s, {t \in Range(s) : \/ t <= Now
                                  \/ \E i \in DOMAIN flex : WithinSchedule(flex[i], t)})
(* t - end is compared without its sign.                                   *)
Qualified(s, flex, length) ==
    EraseAll(s, {t \in Range(s) : ~ \E i \in DOMAIN flex : /\ WithinSchedule(flex[i], t)
                                                            /\ ~ More(length, t - flex[i].e)})
WithFlexStarts(s, flex, length) ==
    LET upTo[i \in 0..Len(flex)] ==
            IF i = 0 THEN s
            ELSE IF flex[i].s >= Now /\ flex[i].e - flex[i].s >= length
                 THEN AddUniqueTimePoint(upTo[i - 1], flex[i].s) ELSE upTo[i - 1]
    IN upTo[Len(flex)]
OrderedATS(c, u, points) ==
    LET flex == request[u].flex
        length == Duration(c, u)
    IN WithFlexStarts(Qualified(<<Now>> \o Trimmed(points, flex), flex, length), flex, length)

(* Only the list of the first sub-path is ever looked up.                  *)
CreateOrderedATS(c, u) ==
    LET a == Aggregated(c, u)
    IN /\ Running(c, "ats", u)
       /\ \A i \in DOMAIN routes[c] : Range(routes[c][i]) \subseteq left[c]
       /\ series' = [series EXCEPT ![c] = [l \in Links |-> IF l \in a.links
                        THEN SeriesOf(deltas[c][l]) ELSE @[l]]]
       /\ ats' = [ats EXCEPT ![c] = IF u = 1 THEN OrderedATS(c, u, a.points) ELSE @]
       /\ Goes(c)
       /\ UNCHANGED <<input, status, up, left, free, deltas, routes, found, shared, answer>>

(* A link of a route that a schedule computation has pruned since has no   *)
(* counter: the process is gone.                                           *)
CountOfPrunedLink(c, u) ==
    /\ Running(c, "ats", u)
    /\ \E i \in DOMAIN routes[c] : ~ Range(routes[c][i]) \subseteq left[c]
    /\ up' = FALSE
    /\ UNCHANGED <<input, todo, status, tewg, routes, ats, found, shared, answer>>

-----------------------------------------------------------------------------
(* Action_ComputeSchedulesWithKSP.                                         *)
HasSeries(c, l) == series[c][l] # NoSeries

(* The graphs a path is asked for: its own, and those of its links.        *)
BagWindow(u) == [s |-> Now, e |-> Horizon]
WantsGraphs(r, u) == r = 2 /\ request[u].bag
Graphs(ads, r, u, route) ==
    LET w == BagWindow(u)
    IN IF WantsGraphs(r, u)
       THEN <<CreatePathBAG([i \in DOMAIN route |-> ads[route[i]]],
                            [i \in DOMAIN route |-> Capacity[route[i]]], w.s, w.e),
              [i \in DOMAIN route |-> LoadADS(ads[route[i]], w.s, w.e, Capacity[route[i]])]>>
       ELSE <<>>

(* The graph of a path makes the series that its links do not have, and    *)
(* they stay: what the TEWG holds by now is in them.                       *)
KeepSeries(c, ads, paths) ==
    [l \in Links |-> IF ads[l] = NoSeries /\ \E i \in DOMAIN paths : l \in Range(paths[i])
                     THEN SeriesOf(deltas[c][l]) ELSE ads[l]]

(* One time point: apply what is held in the window, prune, search, make   *)
(* the graphs, and give back to the links that are left.                   *)
ConjoinedDelta(ads, s, e) == IF ads = NoSeries THEN 0 ELSE JoinADSInWindow(ads, s, e).bw
RestoredTo_Again(c, l, f, held) == IF held = 0 THEN f ELSE Revoked(f, held + held, Capacity[l])
RestoredTo(c, l, f, held) == IF held = 0 THEN f ELSE Revoked(f, held, Capacity[l])

AtTimePoint(c, r, u, b, start) ==
    LET end == start + Duration(c, u)
        kept == PruneByExclusionUrn(b.left, u)
        held == [l \in kept |-> ConjoinedDelta(b.series[l], start, end)]
        net == [l \in Links |-> IF l \in kept THEN Applied(b.free[l], held[l]) ELSE b.free[l]]
        L == PruneByBandwidth(kept, net, FlexBandwidth(c, u))
    IN IF EdgeLinks(u) \subseteq L
       THEN [left |-> L, thrown |-> FALSE,
             free |-> [l \in Links |-> IF l \in L THEN RestoredTo(c, l, net[l], held[l])
                                       ELSE net[l]],
             series |-> IF WantsGraphs(r, u)
                        THEN KeepSeries(c, b.series, ComputeKShortestPaths(L, u)) ELSE b.series]
       ELSE [left |-> L, thrown |-> TRUE, free |-> net, series |-> b.series]

(* The TEWG after every time point.                                        *)
AtTimePoints(c, r, u) ==
    LET upTo[i \in 0..Len(ats[c])] ==
            IF i = 0
            THEN [left |-> left[c], thrown |-> FALSE, free |-> free[c], series |-> series[c]]
            ELSE LET b == upTo[i - 1]
                 IN IF b.thrown THEN b ELSE AtTimePoint(c, r, u, b, ats[c][i])
    IN upTo

(* A path that was found before has one more schedule.                     *)
AddSchedule(paths, route, schedule) ==
    LET same == {i \in DOMAIN paths : paths[i].route = route}
    IN IF same = {}
       THEN Append(paths, [route |-> route, schedules |-> <<schedule>>])
       ELSE [paths EXCEPT ![Min(same)].schedules = Append(@, schedule)]
AddSchedules(paths, fit, schedule) ==
    LET upTo[i \in 0..Len(fit)] ==
            IF i = 0 THEN paths ELSE AddSchedule(upTo[i - 1], fit[i], schedule)
    IN upTo[Len(fit)]

FeasiblePaths(c, u, at) ==
    LET upTo[i \in 0..Len(ats[c])] ==
            IF i = 0 THEN <<>>
            ELSE IF at[i].thrown THEN upTo[i - 1]
                 ELSE AddSchedules(upTo[i - 1], ComputeKShortestPaths(at[i].left, u),
                                   [s |-> ats[c][i], e |-> ats[c][i] + Duration(c, u)])
    IN upTo[Len(ats[c])]

(* By the number of links; so few paths are sorted by insertion.           *)
Placed(paths, p) ==
    LET longer == {i \in DOMAIN paths : Len(p.route) < Len(paths[i].route)}
    IN IF longer = {} THEN Append(paths, p) ELSE InsertAt(paths, Min(longer), p)
Sorted(paths) ==
    LET upTo[i \in 0..Len(paths)] ==
            IF i = 0 THEN <<>> ELSE Placed(upTo[i - 1], paths[i])
    IN upTo[Len(paths)]

WithGraphs(ads, r, u, paths) ==
    [i \in DOMAIN paths |-> [route |-> paths[i].route, schedules |-> paths[i].schedules,
                             graphs |-> Graphs(ads, r, u, paths[i].route)]]

-----------------------------------------------------------------------------
(* The best path is held: a reservation by the name of the GRI, of which   *)
(* a link gets a delta unless it has one of that name that is not older.   *)
Reservation(c, u, paths) ==
    LET best == Head(paths)
    IN [gri |-> Gri(u), links |-> Range(best.route), context |-> c, path |-> u, made |-> clock,
        s |-> best.schedules[1].s, e |-> best.schedules[1].s + Duration(c, u),
        bw |-> FlexBandwidth(c, u)]

Named(ds, gri) == {i \in DOMAIN ds : ds[i].gri = gri}
AddResvDeltas(ds, l, resvs) ==
    LET upTo[i \in 0..Len(resvs)] ==
            IF i = 0 THEN ds
            ELSE LET b == upTo[i - 1]
                     r == resvs[i]
                     old == Named(b, r.gri)
                 IN IF l \in r.links /\ (old = {} \/ b[Max(old)].made < r.made)
                    THEN Append(b, [s |-> r.s, e |-> r.e, bw |-> r.bw, gri |-> r.gri,
                                    made |-> clock + 1, applied |-> FALSE])
                    ELSE b
    IN upTo[Len(resvs)]

(* RevokeResvDeltas and ApplyResvDeltas, as seen by one link.              *)
RevokeResvDeltas(f, ds, gri, max) ==
    LET upTo[i \in 0..Len(ds)] ==
            IF i = 0 THEN f
            ELSE IF ds[i].gri = gri /\ ds[i].applied
                 THEN Revoked(upTo[i - 1], ds[i].bw, max) ELSE upTo[i - 1]
    IN upTo[Len(ds)]
ApplyResvDeltas_None(f, ds, gri) == f
ApplyResvDeltas(f, ds, gri) ==
    LET upTo[i \in 0..Len(ds)] ==
            IF i = 0 THEN f
            ELSE IF ds[i].gri = gri THEN Applied(upTo[i - 1], ds[i].bw) ELSE upTo[i - 1]
    IN upTo[Len(ds)]

Commit(c, u, paths, L, f) ==
    LET resvs == Append(committed, Reservation(c, u, paths))
        gri == Gri(u)
        on == [l \in Links |-> IF l \in L THEN AddResvDeltas(deltas[c][l], l, resvs)
                               ELSE deltas[c][l]]
    IN /\ committed' = resvs
       /\ clock' = clock + 2
       /\ free' = [free EXCEPT ![c] = [l \in Links |-> IF l \in L
                      THEN ApplyResvDeltas(RevokeResvDeltas(f[l], on[l], gri, Capacity[l]), on[l], gri)
                      ELSE f[l]]]
       /\ deltas' = [deltas EXCEPT ![c] = [l \in Links |-> [i \in DOMAIN on[l] |->
                        IF on[l][i].gri = gri THEN [on[l][i] EXCEPT !.applied = TRUE]
                        ELSE on[l][i]]]]

Holds(r) == r = 2 /\ holding

ComputeSchedulesWithKSP(c, r, u) ==
    /\ Running(c, IF r = 1 THEN "round1" ELSE "round2", u)
    /\ \E at \in {AtTimePoints(c, r, u)} :
        LET end == at[Len(ats[c])]
            paths == Sorted(FeasiblePaths(c, u, at))
            thrown == end.thrown \/ paths = <<>>
        IN /\ left' = [left EXCEPT ![c] = end.left]
           /\ series' = [series EXCEPT ![c] = end.series]
           /\ IF thrown
              THEN Fails(c) /\ UNCHANGED found
              ELSE /\ Goes(c) /\ UNCHANGED status
                   /\ found' = [found EXCEPT ![c][r][u] = WithGraphs(end.series, r, u, paths)]
           /\ IF Holds(r) /\ ~ thrown
              THEN Commit(c, u, paths, end.left, end.free)
              ELSE free' = [free EXCEPT ![c] = end.free] /\ UNCHANGED <<deltas, shared>>
           /\ UNCHANGED <<input, up, routes, ats, answer>>

-----------------------------------------------------------------------------
(* Swap exchanges two local pointers: the second round has the order of    *)
(* the request.  Every sub-path must have been in the first round.         *)
SecondRound == [u \in DOMAIN request |-> Step("round2", u)]
ReorderPaths(c) ==
    /\ Running(c, "reorder", 0)
    /\ IF \A u \in DOMAIN request : FlexBandwidth(c, u) # 0
       THEN todo' = [todo EXCEPT ![c] = Append(SecondRound, Step("finalize", 0))] /\ UNCHANGED up
       ELSE up' = FALSE /\ UNCHANGED todo
    /\ UNCHANGED <<input, status, tewg, routes, ats, found, shared, answer>>

FinalizeServiceTopology(c) ==
    /\ Running(c, "finalize", 0)
    /\ answer' = [answer EXCEPT ![c] = [u \in DOMAIN request |-> Head(found[c][2][u])]]
    /\ Goes(c)
    /\ UNCHANGED <<input, status, up, tewg, routes, ats, found, shared>>

RoundsNext ==
    \E c \in Contexts :
        \/ \E u \in DOMAIN request :
              \/ ComputeKSP(c, u)
              \/ CreateOrderedATS(c, u)
              \/ CountOfPrunedLink(c, u)
              \/ \E r \in 1..2 : ComputeSchedulesWithKSP(c, r, u)
        \/ ReorderPaths(c)
        \/ FinalizeServiceTopology(c)

RoundsSpec == RoundsInit /\ [][RoundsNext]_roundsVars

-----------------------------------------------------------------------------
(* Every series is, at every time, the sum of the reservations of its link *)
(* and of what the TEWG held on it when the series was made, and the graph *)
(* of a link is its capacity without them (but for holding nothing long).  *)
Lasting(ds) == \A i \in DOMAIN ds : ds[i].s < ds[i].e
SeriesExact ==
    \A c \in Contexts, l \in Links :
        (HasSeries(c, l) /\ Lasting(deltas[c][l])) =>
            \E n \in Len(booked[l])..Len(deltas[c][l]) :
                LET ds == SubSeq(deltas[c][l], 1, n)
                IN /\ IsSeriesOf(series[c][l], ds, Times)
                   /\ \A s \in Times, e \in Times : s < e =>
                         IsGraphOf(LoadADS(series[c][l], s, e, Capacity[l]), ds, s, e, Capacity[l])

(* What is found fits beside the reservations of every link that the first *)
(* sub-path may use (or of every link, when the request has a window),     *)
(* and, in the context that held first, beside the other sub-paths.        *)
Guarded(c, l) == request[1].window \/ \E i \in DOMAIN routes[c] : l \in Range(routes[c][i])
Uses(p, i, l, t) == l \in Range(p.route) /\ p.schedules[i].s <= t /\ t < p.schedules[i].e

BesideReservations ==
    \A c \in Contexts, r \in 1..2, u \in DOMAIN request :
        \A k \in DOMAIN found[c][r][u], l \in Links, t \in Times :
            LET p == found[c][r][u][k]
            IN (Guarded(c, l) /\ \E i \in DOMAIN p.schedules : Uses(p, i, l, t))
                  => HeldAt(booked[l], t) + FlexBandwidth(c, u) <= Capacity[l]

Together(c, l, t) ==
    LET load[u \in 0..Len(request)] ==
            IF u = 0 THEN 0
            ELSE load[u - 1] + IF found[c][2][u] # <<>> /\ Uses(Head(found[c][2][u]), 1, l, t)
                               THEN FlexBandwidth(c, u) ELSE 0
    IN load[Len(request)]
BesideEachOther ==
    \A c \in Contexts, l \in Links, t \in Times :
        (committed # <<>> /\ committed[1].context = c /\ Together(c, l, t) > 0)
            => Together(c, l, t) + (IF Guarded(c, l) THEN HeldAt(booked[l], t) ELSE 0)
                  <= Capacity[l]
NoOverbooking == BesideReservations /\ BesideEachOther

(* A schedule computation that holds nothing leaves every link that it     *)
(* does not prune with the bandwidth it had.                               *)
GivesBack ==
    [][\A c \in Contexts, l \in Links :
          (/\ todo[c] # <<>> /\ todo'[c] = Tail(todo[c])
           /\ Head(todo[c]).action \in {"round1", "round2"}
           /\ committed' = committed /\ l \in left'[c])
              => free'[c][l] = free[c][l]]_roundsVars

(* A request of one sub-path, without a window and with one time to try,   *)
(* fails only when no route fits then (if it is for any time at all), and  *)
(* never ends the process.                                                 *)
FitsAt(c, p, s) ==
    \A i \in DOMAIN p : /\ p[i] \notin request[1].excluded
                        /\ \A t \in s..s + Duration(c, 1) - 1 :
                              HeldAt(booked[p[i]], t) + FlexBandwidth(c, 1) <= Capacity[p[i]]
FailsForAReason ==
    Len(request) = 1 =>
        /\ up
        /\ \A c \in Contexts :
              (/\ status[c] = "failed" /\ ~ request[1].window
               /\ Len(ats[c]) = 1 /\ Duration(c, 1) > 0)
                  => \A i \in DOMAIN Routes[1] : ~ FitsAt(c, Routes[1][i], ats[c][1])
==============================================================================

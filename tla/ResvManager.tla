----------------------------- MODULE ResvManager -----------------------------
(***************************************************************************)
(* How the reservations of other domains reach a computation.  A poller of *)
(* each domain (utils/pollOscarsResvsV6.pl) pushes its whole list over and *)
(* over, in bursts whose first message is the HEAD and whose last one is   *)
(* the LAST.  ResvAPIServer, an event of the reservation manager's thread, *)
(* renews what it knows and has the TEDB manager build what it does not    *)
(* (TEDB_ADD_RESV); ResvManThread keeps the result in its RDatabase.  The  *)
(* TEWG_REQUEST of a worker goes through the same two threads and takes a  *)
(* delta of each reservation with it.  Both threads fetch from a queue     *)
(* that the pipes and the router keep in order (Channel).                  *)
(***************************************************************************)
EXTENDS Naturals, Sequences, FiniteSets, SequencesExt, EventList

CONSTANTS
  Domains,     \* the domains with a poller
  Gris,        \* the reservations
  Crosses,     \* Crosses[g]: the domains the path of g goes through
  Lists,       \* Lists[d]: the lists the poller of d may read from its database
  Loadable,    \* the reservations TEDBManThread finds valid, with a path that loads
  Workers,     \* the compute workers; a TEWG_RESV_REQUEST is named for its worker
  MaxEntries   \* bound: with that many known or on their way, a burst waits for replies

ASSUME ResvAssumption ==
  /\ Crosses \in [Gris -> SUBSET Domains]
  /\ \A d \in Domains : Lists[d] \subseteq {q \in Seq(Gris) : \A i \in DOMAIN q : d \in Crosses[q[i]]}
  /\ Loadable \subseteq Gris
  /\ Workers \cap Gris = {}
  /\ MaxEntries \in Nat

VARIABLES sock,     \* sock[d]: the pushes of d not yet handled
          rdata,    \* the RDatabase, oldest first: the order of BuildDeltaCache too
          toTedb,   \* TEDB_ADD_RESV messages not yet handled
          toResv,   \* TEDB_ADD_RESV_REPLYs and TEWG_RESV_REQUESTs not yet handled
          request,  \* request[w]: its TEWG_REQUEST, "none", "asked", "forwarded", "answered"
          tewg,     \* tewg[w]: the deltas its TEWG came with
          listed,   \* history: listed[d], the burst of d last sent in full
          known     \* history: known[w], what was ahead of its request and is not yet erased

vars == <<sock, rdata, toTedb, toResv, request, tewg, listed, known>>

\* A TReservation; "LISTED" stands for the status its poller read.
Reservation == [gri : Gris, status : {"LISTED", "DELETE"}]

GrisOf(q) == {q[i].gri : i \in DOMAIN q}

Init ==
  /\ sock = [d \in Domains |-> <<>>]
  /\ rdata = <<>>
  /\ toTedb = <<>>
  /\ toResv = <<>>
  /\ request = [w \in Workers |-> "none"]
  /\ tewg = [w \in Workers |-> <<>>]
  /\ listed = [d \in Domains |-> {}]
  /\ known = [w \in Workers |-> {}]

-----------------------------------------------------------------------------
\* The poller's loop: nothing is sent for an empty list.
Pushes(q) == [i \in DOMAIN q |-> [gri |-> q[i], head |-> i = 1, last |-> i = Len(q)]]

\* A poller sleeps until its last burst is handled.  Bound: it does so until the last
\* replies have come, too, once MaxEntries reservations are about.
StartBurst(d) ==
  /\ sock[d] = <<>>
  /\ \E q \in Lists[d] :
       /\ \/ toTedb = <<>> /\ toResv = <<>>
          \/ Len(rdata) + Len(toTedb) + Len(toResv) + Len(q) <= MaxEntries
       /\ sock' = [sock EXCEPT ![d] = Pushes(q)]
       /\ listed' = [listed EXCEPT ![d] = ToSet(q)]
  /\ UNCHANGED <<rdata, toTedb, toResv, request, tewg, known>>

\* The connection breaks in the middle of a burst: syswrite fails and the poller goes
\* on, what was not handled is lost.
BreakBurst(d) ==
  /\ sock[d] # <<>>
  /\ sock' = [sock EXCEPT ![d] = <<>>]
  /\ listed' = [listed EXCEPT ![d] = {}]
  /\ UNCHANGED <<rdata, toTedb, toResv, request, tewg, known>>

\* RDatabase::LookupReservationInDomain, the first entry: an index of q, 0 for NULL.
LookupReservationInDomain(q, g, d) ==
  SelectInSeq(q, LAMBDA r : r.gri = g /\ d \in Crosses[g])

\* HEAD: every reservation in the domain becomes a removal candidate.
Mark_None(q, d) == q

Mark(q, d) ==
  [i \in DOMAIN q |-> IF d \in Crosses[q[i].gri] THEN [q[i] EXCEPT !.status = "DELETE"] ELSE q[i]]

Renew_None(q, i) == q

Renew(q, i) == IF i = 0 THEN q ELSE [q EXCEPT ![i].status = "LISTED"]

\* The place of a candidate in its run of candidates.
Place(q, i) == Cardinality({j \in 1..i : \A k \in j..i : q[k].status = "DELETE"})

\* The loop that erases: itR = erase(itR) already stands on the next reservation and
\* itR++ skips it, so that a pass leaves every second one of a run of candidates, and n
\* passes those at the multiples of 2^n.
Left(q, n) == Keep(q, {i \in DOMAIN q : q[i].status # "DELETE" \/ Place(q, i) % 2^n = 0})

\* LAST: if a pass erases the last reservation of the circular list, itR++ leads from
\* end() back to begin() and there is another.  It does so when the number of candidates
\* that are left at the end is odd.
LastPass(q, n) == (Place(q, Len(q)) \div 2^(n - 1)) % 2 = 0

EraseMarked(q) ==
  Left(q, CHOOSE n \in 1 .. Len(q) + 1 : LastPass(q, n) /\ \A m \in 1 .. n - 1 : ~LastPass(q, m))

\* ResvAPIServer::HandleAPIMessage.  The lookup comes first; its result is still valid
\* after the erasing, for it has just been renewed.  (\E only gives TLC the list as a value.)
HandleAPIMessage(d) ==
  LET push == Head(sock[d])
      theResv == LookupReservationInDomain(rdata, push.gri, d)
      marked == IF push.head THEN Mark(rdata, d) ELSE rdata
      renewed == Renew(marked, theResv)
  IN
  /\ sock[d] # <<>>
  /\ sock' = [sock EXCEPT ![d] = Tail(@)]
  /\ \E q \in {renewed} : rdata' = IF push.last THEN EraseMarked(q) ELSE q
  /\ toTedb' = IF theResv = 0 THEN Append(toTedb, push.gri) ELSE toTedb
  /\ known' = [w \in Workers |-> known[w] \ (GrisOf(rdata) \ GrisOf(rdata'))]
  /\ UNCHANGED <<toResv, request, tewg, listed>>

-----------------------------------------------------------------------------
Post(q, m) == Append(q, m)

\* TEDBManThread on TEDB_ADD_RESV: invalid data are logged and dropped.
AddResv ==
  /\ toTedb # <<>>
  /\ toTedb' = Tail(toTedb)
  /\ toResv' = IF Head(toTedb) \in Loadable THEN Post(toResv, Head(toTedb)) ELSE toResv
  /\ UNCHANGED <<sock, rdata, request, tewg, listed, known>>

AskForTewg(w) ==
  /\ request[w] \in {"none", "answered"}
  /\ request' = [request EXCEPT ![w] = "asked"]
  /\ tewg' = [tewg EXCEPT ![w] = <<>>]
  /\ known' = [known EXCEPT ![w] = {}]
  /\ UNCHANGED <<sock, rdata, toTedb, toResv, listed>>

\* TEDBManThread on TEWG_REQUEST: a snapshot of the TEDB goes to the reservation manager.
ForwardRequest(w) ==
  /\ request[w] = "asked"
  /\ request' = [request EXCEPT ![w] = "forwarded"]
  /\ known' = [known EXCEPT ![w] = GrisOf(rdata) \cup (ToSet(toResv) \cap Gris)]
  /\ toResv' = Post(toResv, w)
  /\ UNCHANGED <<sock, rdata, toTedb, tewg, listed>>

\* The constructor of TDelta stamps a clone with the current time.
Clone_SameTime(r, now) == r

Clone(r, now) == [r EXCEPT !.generated = now]

\* TEWG::AddResvDeltas: a delta of a reservation the link has none of yet, or only older
\* ones.
AddResvDeltas(t, r, now) ==
  LET old == {i \in DOMAIN t : t[i].gri = r.gri}
  IN IF \A i \in old : (\A j \in old : j <= i) => t[i].generated < r.generated
     THEN Append(t, Clone(r, now)) ELSE t

\* The deltas after the first n reservations of q.
Deltas(q) ==
  LET deltas[n \in 0 .. Len(q)] ==
        IF n = 0 THEN <<>>
        ELSE AddResvDeltas(deltas[n - 1], [gri |-> q[n].gri, generated |-> n], Len(q) + 1)
  IN deltas

\* ResvManThread on TEWG_RESV_REQUEST, with the RDatabase as it is by then.
ReplyTewg(w) ==
  /\ tewg' = [tewg EXCEPT ![w] = Deltas(rdata)[Len(rdata)]]
  /\ request' = [request EXCEPT ![w] = "answered"]
  /\ UNCHANGED rdata

\* ResvManThread on TEDB_ADD_RESV_REPLY, whether or not it has the reservation already.
AddReservation(g) ==
  /\ rdata' = Append(rdata, [gri |-> g, status |-> "LISTED"])
  /\ UNCHANGED <<tewg, request>>

HandleMessage ==
  /\ toResv # <<>>
  /\ toResv' = Tail(toResv)
  /\ \/ Head(toResv) \in Workers /\ ReplyTewg(Head(toResv))
     \/ Head(toResv) \in Gris /\ AddReservation(Head(toResv))
  /\ UNCHANGED <<sock, toTedb, listed, known>>

-----------------------------------------------------------------------------
Next ==
  \/ \E d \in Domains : StartBurst(d) \/ BreakBurst(d) \/ HandleAPIMessage(d)
  \/ AddResv
  \/ \E w \in Workers : AskForTewg(w) \/ ForwardRequest(w)
  \/ HandleMessage

\* The threads run; pollers, connections and workers do as they like.
Fairness ==
  /\ \A d \in Domains : WF_vars(HandleAPIMessage(d))
  /\ WF_vars(AddResv)
  /\ \A w \in Workers : WF_vars(ForwardRequest(w))
  /\ WF_vars(HandleMessage)

Spec == Init /\ [][Next]_vars

FairSpec == Spec /\ Fairness

-----------------------------------------------------------------------------
Push == [gri : Gris, head : BOOLEAN, last : BOOLEAN]

\* Every variable keeps to its type.
TypeOK ==
  /\ sock \in [Domains -> Seq(Push)]
  /\ rdata \in Seq(Reservation)
  /\ toTedb \in Seq(Gris)
  /\ toResv \in Seq(Gris \cup Workers)
  /\ request \in [Workers -> {"none", "asked", "forwarded", "answered"}]
  /\ tewg \in [Workers -> Seq([gri : Gris, generated : Nat \ {0}])]
  /\ listed \in [Domains -> SUBSET Gris]
  /\ known \in [Workers -> SUBSET Gris]

Quiet == toTedb = <<>> /\ toResv = <<>> /\ \A d \in Domains : sock[d] = <<>>

\* Bursts of several domains interleave, each marks and erases, replies come late and
\* a reservation may be added twice.  When all is handled, the RDatabase still holds every
\* valid reservation of the last burst of its domain, if it stays in one domain.  (One
\* that crosses two domains is lost when only one of them lists it: resv_man.cc says
\* "TODO: merge reservations of same GRI from multiple domains!")
NothingLost ==
  Quiet => \A g \in Loadable, d \in Domains :
             g \in listed[d] /\ Crosses[g] = {d} => g \in GrisOf(rdata)

\* A worker's TEWG counts every reservation the TEDB manager had answered before it took
\* the snapshot, unless it was erased before the reservation manager saw the request; and
\* although the RDatabase may hold a reservation twice, its bandwidth is taken from a link
\* once: AddResvDeltas compares with the time stamp of the clone, not of the original.
CountedOnce ==
  \A w \in Workers :
    /\ request[w] = "answered" => known[w] \subseteq GrisOf(tewg[w])
    /\ \A i, j \in DOMAIN tewg[w] : tewg[w][i].gri = tewg[w][j].gri => i = j

Completes(d) == sock[d] # <<>> /\ Head(sock[d]).last /\ HandleAPIMessage(d)

\* The loop of LAST skips candidates and another domain may interfere, but a reservation
\* its domains no longer list leaves the RDatabase for good if bursts go on.
StaleExpires ==
  \A g \in Gris :
    /\ \A d \in Crosses[g] : <>[](g \notin listed[d])
    /\ \E d \in Crosses[g] : []<><<Completes(d)>>_vars
    => <>[](g \notin GrisOf(rdata))
=============================================================================

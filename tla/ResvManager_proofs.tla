-------------------------- MODULE ResvManager_proofs --------------------------
(***************************************************************************)
(* For any domains, reservations, lists and workers: no reservation that   *)
(* is listed is lost when bursts mark and erase, and a worker's TEWG       *)
(* counts everything it should, once.                                      *)
(***************************************************************************)
EXTENDS ResvManager, EventList_proofs

Delta == [gri : Gris, generated : Nat \ {0}]

-----------------------------------------------------------------------------
\* The reservations in a list.
LEMMA GriElements ==
  ASSUME NEW q
  PROVE  \A g : g \in GrisOf(q) <=> \E x \in ToSet(q) : x.gri = g
BY DEF GrisOf, ToSet

\* A list holds a reservation that is not marked.
Holds(q, g) == \E x \in ToSet(q) : x.gri = g /\ x.status = "LISTED"

LEMMA HoldsGri ==
  ASSUME NEW q, NEW g, Holds(q, g)
  PROVE  g \in GrisOf(q)
BY GriElements DEF Holds

LEMMA LookupFacts ==
  ASSUME NEW q \in Seq(Reservation), NEW g, NEW d, NEW i, i = LookupReservationInDomain(q, g, d)
  PROVE  i = 0 \/ (i \in DOMAIN q /\ q[i].gri = g)
<1> DEFINE I == {k \in 1 .. Len(q) : q[k].gri = g /\ d \in Crosses[g]}
<1>1. i = IF I # {} THEN Min(I) ELSE 0
  BY DEF LookupReservationInDomain, SelectInSeq
<1>2. ASSUME I # {}
      PROVE  Min(I) \in I
  <2>1. I \in SUBSET Nat
    OBVIOUS
  <2> HIDE DEF I
  <2>2. \E x \in I : \A y \in I : x <= y
    BY <1>2, <2>1, LeastNumber
  <2>3. QED
    BY <2>2 DEF Min
<1>3. I \subseteq DOMAIN q /\ \A k \in I : q[k].gri = g
  OBVIOUS
<1> HIDE DEF I
<1>4. QED
  BY <1>1, <1>2, <1>3

\* HEAD marks what is in its domain and nothing else.
LEMMA MarkFacts ==
  ASSUME NEW q \in Seq(Reservation), NEW d
  PROVE  /\ Mark(q, d) \in Seq(Reservation) /\ DOMAIN Mark(q, d) = DOMAIN q
         /\ \A i \in DOMAIN q :
              /\ Mark(q, d)[i].gri = q[i].gri
              /\ d \notin Crosses[q[i].gri] => Mark(q, d)[i] = q[i]
<1> DEFINE m == Mark(q, d)
<1>1. Len(q) \in Nat /\ DOMAIN q = 1 .. Len(q) /\ \A i \in DOMAIN q : q[i] \in Reservation
  OBVIOUS
<1>2. m = [i \in DOMAIN q |->
             IF d \in Crosses[q[i].gri] THEN [q[i] EXCEPT !.status = "DELETE"] ELSE q[i]]
  BY DEF Mark
<1> HIDE DEF m
<1>3. \A x \in Reservation : [x EXCEPT !.status = "DELETE"] \in Reservation
                             /\ [x EXCEPT !.status = "DELETE"].gri = x.gri
  BY DEF Reservation
<1>4. \A i \in DOMAIN q : /\ m[i] \in Reservation /\ m[i].gri = q[i].gri
                          /\ d \notin Crosses[q[i].gri] => m[i] = q[i]
  BY <1>1, <1>2, <1>3
<1>5. DOMAIN m = DOMAIN q /\ m \in [1 .. Len(q) -> Reservation]
  BY <1>1, <1>2, <1>4
<1>6. m \in Seq(Reservation)
  BY <1>1, <1>5
<1>7. QED
  BY <1>4, <1>5, <1>6 DEF m

LEMMA RenewFacts ==
  ASSUME NEW q \in Seq(Reservation), NEW k \in {0} \cup DOMAIN q
  PROVE  /\ Renew(q, k) \in Seq(Reservation) /\ DOMAIN Renew(q, k) = DOMAIN q
         /\ \A i \in DOMAIN q :
              /\ Renew(q, k)[i].gri = q[i].gri
              /\ Renew(q, k)[i] = q[i] \/ Renew(q, k)[i].status = "LISTED"
              /\ i = k => Renew(q, k)[i].status = "LISTED"
<1>1. \A x \in Reservation : /\ [x EXCEPT !.status = "LISTED"] \in Reservation
                             /\ [x EXCEPT !.status = "LISTED"].gri = x.gri
                             /\ [x EXCEPT !.status = "LISTED"].status = "LISTED"
  BY DEF Reservation
<1>2. Len(q) \in Nat /\ DOMAIN q = 1 .. Len(q) /\ 0 \notin DOMAIN q
      /\ \A i \in DOMAIN q : q[i] \in Reservation
  OBVIOUS
<1>3. CASE k = 0
  BY <1>2, <1>3 DEF Renew
<1>4. CASE k \in DOMAIN q
  <2> DEFINE new == Renew(q, k)
             x == [q[k] EXCEPT !.status = "LISTED"]
  <2>1. new = [q EXCEPT ![k] = x]
    BY <1>2, <1>4 DEF Renew
  <2>2. x \in Reservation /\ x.gri = q[k].gri /\ x.status = "LISTED"
    BY <1>1, <1>2, <1>4
  <2> HIDE DEF new, x
  <2>3. /\ new \in Seq(Reservation) /\ DOMAIN new = DOMAIN q /\ new[k] = x
        /\ \A i \in DOMAIN q : i # k => new[i] = q[i]
    BY <1>4, <2>1, <2>2
  <2>4. QED
    BY <1>4, <2>2, <2>3 DEF new
<1>5. QED
  BY <1>3, <1>4


-----------------------------------------------------------------------------
\* LAST, however many passes the loop makes: only what is marked goes.
LEMMA EraseFacts ==
  ASSUME NEW q \in Seq(Reservation)
  PROVE  /\ EraseMarked(q) \in Seq(Reservation)
         /\ ToSet(EraseMarked(q)) \subseteq ToSet(q)
         /\ \A x \in ToSet(q) : x.status = "LISTED" => x \in ToSet(EraseMarked(q))
<1>1. ASSUME NEW n
      PROVE  /\ Left(q, n) \in Seq(Reservation)
             /\ ToSet(Left(q, n)) \subseteq ToSet(q)
             /\ \A x \in ToSet(q) : x.status = "LISTED" => x \in ToSet(Left(q, n))
  <2> DEFINE I == {i \in DOMAIN q : q[i].status # "DELETE" \/ Place(q, i) % 2^n = 0}
  <2>1. \A i \in DOMAIN q : q[i].status = "LISTED" => i \in I
    OBVIOUS
  <2>2. Left(q, n) = Keep(q, I)
    BY DEF Left
  <2> HIDE DEF I
  <2>3. Left(q, n) \in Seq(Reservation) /\ ToSet(Left(q, n)) = {q[i] : i \in DOMAIN q \cap I}
    BY <2>2, KeepElements
  <2>4. QED
    BY <2>1, <2>3 DEF ToSet
<1>2. QED
  BY <1>1 DEF EraseMarked

-----------------------------------------------------------------------------
\* The deltas a TEWG comes with: of every reservation, and of none twice.
GoodDeltas(t, q, n) ==
  /\ t \in Seq(Delta)
  /\ \A i \in DOMAIN t : t[i].generated = Len(q) + 1
  /\ \A i, j \in DOMAIN t : t[i].gri = t[j].gri => i = j
  /\ \A i \in 1 .. n : \E j \in DOMAIN t : t[j].gri = q[i].gri

LEMMA AddDeltas ==
  ASSUME NEW q \in Seq(Reservation), NEW n \in 1 .. Len(q), NEW t, GoodDeltas(t, q, n - 1)
  PROVE  GoodDeltas(AddResvDeltas(t, [gri |-> q[n].gri, generated |-> n], Len(q) + 1), q, n)
<1> DEFINE r == [gri |-> q[n].gri, generated |-> n]
           now == Len(q) + 1
           old == {i \in DOMAIN t : t[i].gri = r.gri}
           c == Clone(r, now)
<1>1. /\ Len(q) \in Nat /\ n \in Nat /\ q[n].gri \in Gris /\ now \in Nat \ {0} /\ ~(now < n)
      /\ \A i \in 1 .. n : i = n \/ i \in 1 .. (n - 1)
  <2>1. Len(q) \in Nat /\ n \in Nat /\ n <= Len(q) /\ q[n] \in Reservation
    OBVIOUS
  <2>2. q[n].gri \in Gris
    BY <2>1 DEF Reservation
  <2>3. now \in Nat \ {0} /\ ~(now < n) /\ \A i \in 1 .. n : i = n \/ i \in 1 .. (n - 1)
    BY <2>1
  <2>4. QED
    BY <2>1, <2>2, <2>3
<1>2. r.gri = q[n].gri /\ r.generated = n
  OBVIOUS
<1>3. c \in Delta /\ c.gri = q[n].gri /\ c.generated = now
  BY <1>1 DEF Clone, Delta
<1>4. /\ t \in Seq(Delta) /\ Len(t) \in Nat /\ DOMAIN t = 1 .. Len(t)
      /\ \A i \in DOMAIN t : t[i].generated = now
      /\ \A i, j \in DOMAIN t : t[i].gri = t[j].gri => i = j
      /\ \A i \in 1 .. (n - 1) : \E j \in DOMAIN t : t[j].gri = q[i].gri
  BY DEF GoodDeltas
<1> HIDE DEF c, now, r
<1>5. CASE old = {}
  <2> DEFINE u == Append(t, c)
  <2>1. AddResvDeltas(t, r, now) = u
    BY <1>5 DEF AddResvDeltas, c
  <2>2. /\ u \in Seq(Delta) /\ DOMAIN u = 1 .. (Len(t) + 1)
        /\ \A i \in 1 .. Len(t) : u[i] = t[i]
        /\ u[Len(t) + 1] = c
    BY <1>3, <1>4, AppendProperties, LenProperties
  <2> HIDE DEF u
  <2>3. \A i \in DOMAIN u : i = Len(t) + 1 \/ i \in DOMAIN t
    BY <1>4, <2>2
  <2>4. \A i \in DOMAIN t : i \in DOMAIN u /\ u[i] = t[i] /\ t[i].gri # c.gri
    BY <1>2, <1>3, <1>4, <1>5, <2>2
  <2>5. Len(t) + 1 \in DOMAIN u
    BY <1>4, <2>2
  <2>6. \A i \in DOMAIN u : u[i].generated = now
    BY <1>3, <1>4, <2>2, <2>3, <2>4
  <2>7. \A i, j \in DOMAIN u : u[i].gri = u[j].gri => i = j
    BY <1>4, <2>2, <2>3, <2>4
  <2>8. \A i \in 1 .. n : \E j \in DOMAIN u : u[j].gri = q[i].gri
    BY <1>1, <1>3, <1>4, <2>2, <2>4, <2>5
  <2>9. QED
    BY <2>1, <2>2, <2>6, <2>7, <2>8 DEF GoodDeltas, now, r
<1>6. CASE old # {}
  <2>1. PICK k \in DOMAIN t : t[k].gri = q[n].gri
    BY <1>2, <1>6
  <2>2. old = {k}
    BY <1>2, <1>4, <2>1
  <2>3. ~(t[k].generated < r.generated) /\ k <= k
    BY <1>1, <1>2, <1>4, <2>1
  <2>4. AddResvDeltas(t, r, now) = t
    BY <2>2, <2>3 DEF AddResvDeltas
  <2>5. \A i \in 1 .. n : \E j \in DOMAIN t : t[j].gri = q[i].gri
    BY <1>1, <1>4, <2>1
  <2>6. QED
    BY <1>4, <2>4, <2>5 DEF GoodDeltas, now, r
<1>7. QED
  BY <1>5, <1>6


DeltasOn(f, q) ==
  \A n \in 0 .. Len(q) :
    f[n] = IF n = 0 THEN <<>>
           ELSE AddResvDeltas(f[n - 1], [gri |-> q[n].gri, generated |-> n], Len(q) + 1)

LEMMA DeltasSteps ==
  ASSUME NEW q \in Seq(Reservation)
  PROVE  DeltasOn(Deltas(q), q)
<1> DEFINE m == Len(q)
           D == Seq(Delta)
           Added(n, t) == AddResvDeltas(t, [gri |-> q[n].gri, generated |-> n], m + 1)
           step == [n \in 1 .. m |-> [t \in D |-> Added(n, t)]]
           Body(f) == [n \in 0 .. m |-> IF n = 0 THEN <<>> ELSE Added(n, f[n - 1])]
<1>1. m \in Nat
  OBVIOUS
<1>2. step \in [1 .. m -> [D -> D]] /\ <<>> \in D
  <2>1. ASSUME NEW n \in 1 .. m, NEW t \in D
        PROVE  Added(n, t) \in D
    <3> DEFINE c == Clone([gri |-> q[n].gri, generated |-> n], m + 1)
    <3>1. q[n] \in Reservation /\ m + 1 \in Nat \ {0}
      BY <1>1
    <3>2. q[n].gri \in Gris
      BY <3>1 DEF Reservation
    <3>3. c \in Delta
      BY <3>1, <3>2 DEF Clone, Delta
    <3>4. Added(n, t) = t \/ Added(n, t) = Append(t, c)
      BY DEF AddResvDeltas
    <3> HIDE DEF c, Added
    <3>5. QED
      BY <3>3, <3>4
  <2> HIDE DEF Added
  <2>2. QED
    BY <2>1
<1>3. \A n \in 1 .. m, t \in D : step[n][t] = Added(n, t)
  OBVIOUS
<1> HIDE DEF step, Added
<1>4. PICK f \in [0 .. m -> D] : Recurs(f, <<>>, step, m)
  BY <1>1, <1>2, Recursion
<1>5. f = Body(f)
  <2>1. \A n \in 0 .. m : n # 0 => n \in 1 .. m /\ n - 1 \in 0 .. m
    BY <1>1
  <2>2. \A n \in 0 .. m : f[n] = IF n = 0 THEN <<>> ELSE step[n][f[n - 1]]
    BY <1>4, Zenon DEF Recurs
  <2>3. \A n \in 0 .. m : f[n] = Body(f)[n]
    BY <1>3, <2>1, <2>2
  <2>4. QED
    BY <2>3
<1>6. Deltas(q) = CHOOSE g : g = Body(g)
  BY DEF Deltas, Added
<1> HIDE DEF Body
<1>7. Deltas(q) = Body(Deltas(q))
  BY <1>5, <1>6
<1> DEFINE s == Deltas(q)
<1>8. s = Body(s)
  BY <1>7
<1> HIDE DEF s
<1>9. \A n \in 0 .. m : s[n] = IF n = 0 THEN <<>> ELSE Added(n, s[n - 1])
  BY <1>8, Zenon DEF Body
<1>10. QED
  BY <1>9, Zenon DEF DeltasOn, Added, s

LEMMA DeltasFacts ==
  ASSUME NEW q \in Seq(Reservation)
  PROVE  GoodDeltas(Deltas(q)[Len(q)], q, Len(q))
<1> DEFINE s == Deltas(q)
           G == {n \in 0 .. Len(q) : GoodDeltas(s[n], q, n)}
<1>1. Len(q) \in Nat
  OBVIOUS
<1>2. \A n \in 0 .. Len(q) :
        s[n] = IF n = 0 THEN <<>>
               ELSE AddResvDeltas(s[n - 1], [gri |-> q[n].gri, generated |-> n], Len(q) + 1)
  <2>1. DeltasOn(s, q)
    BY DeltasSteps
  <2> HIDE DEF s
  <2>2. QED
    BY <2>1, Zenon DEF DeltasOn
<1> HIDE DEF s, G
<1>3. GoodDeltas(s[0], q, 0)
  <2>1. s[0] = <<>>
    <3>1. 0 \in 0 .. Len(q)
      BY <1>1
    <3>2. QED
      BY <1>2, <3>1, Zenon
  <2>2. <<>> \in Seq(Delta) /\ Len(<<>>) = 0
    OBVIOUS
  <2>3. DOMAIN <<>> = 1 .. 0
    BY <2>2, LenProperties
  <2>4. \A i : i \notin 1 .. 0
    OBVIOUS
  <2>5. QED
    BY <2>1, <2>2, <2>3, <2>4 DEF GoodDeltas
<1>4. ASSUME NEW n \in 1 .. Len(q), GoodDeltas(s[n - 1], q, n - 1)
      PROVE  GoodDeltas(s[n], q, n)
  <2>1. n \in 0 .. Len(q) /\ n # 0
    BY <1>1
  <2>2. s[n] = AddResvDeltas(s[n - 1], [gri |-> q[n].gri, generated |-> n], Len(q) + 1)
    BY <1>2, <2>1
  <2>3. QED
    BY <1>4, <2>2, AddDeltas
<1>5. 0 \in G /\ \A n \in 1 .. Len(q) : n - 1 \in G => n \in G
  BY <1>1, <1>3, <1>4 DEF G
<1>6. \A n \in 0 .. Len(q) : n \in G
  BY <1>1, <1>5, Climb
<1>7. QED
  BY <1>1, <1>6 DEF G, s


-----------------------------------------------------------------------------
\* What a push makes of the RDatabase.
Found(q, d, push) == LookupReservationInDomain(q, push.gri, d)

Marked(q, d, push) == IF push.head THEN Mark(q, d) ELSE q

Renewed(q, d, push) == Renew(Marked(q, d, push), Found(q, d, push))

Handled(q, d, push) ==
  IF push.last THEN EraseMarked(Renewed(q, d, push)) ELSE Renewed(q, d, push)

LEMMA HandledStep ==
  ASSUME NEW d, HandleAPIMessage(d)
  PROVE  /\ sock[d] # <<>> /\ sock' = [sock EXCEPT ![d] = Tail(sock[d])]
         /\ rdata' = Handled(rdata, d, Head(sock[d]))
         /\ toTedb' = IF Found(rdata, d, Head(sock[d])) = 0
                      THEN Append(toTedb, Head(sock[d]).gri) ELSE toTedb
         /\ known' = [w \in Workers |-> known[w] \ (GrisOf(rdata) \ GrisOf(rdata'))]
         /\ toResv' = toResv /\ request' = request /\ tewg' = tewg /\ listed' = listed
BY DEF HandleAPIMessage, Handled, Renewed, Marked, Found

\* A reservation that is listed stays so, unless its own domain starts a burst; and the
\* one of the push is listed if it was there.
LEMMA HandledFacts ==
  ASSUME NEW q \in Seq(Reservation), NEW d, NEW push
  PROVE  /\ Handled(q, d, push) \in Seq(Reservation)
         /\ \A g : Holds(q, g) /\ (push.head => d \notin Crosses[g]) => Holds(Handled(q, d, push), g)
         /\ Found(q, d, push) # 0 => Holds(Handled(q, d, push), push.gri)
<1> DEFINE k == Found(q, d, push)
           m == Marked(q, d, push)
           r == Renewed(q, d, push)
<1>1. k = 0 \/ (k \in DOMAIN q /\ q[k].gri = push.gri)
  BY LookupFacts DEF Found
<1>2. /\ m \in Seq(Reservation) /\ DOMAIN m = DOMAIN q
      /\ \A i \in DOMAIN q : m[i].gri = q[i].gri
  BY MarkFacts DEF Marked
<1>3. ASSUME NEW g, Holds(q, g), push.head => d \notin Crosses[g]
      PROVE  Holds(m, g)
  <2>1. PICK i \in DOMAIN q : q[i].gri = g /\ q[i].status = "LISTED"
    BY <1>3 DEF Holds, ToSet
  <2>2. m[i] = q[i]
    BY <1>3, <2>1, MarkFacts DEF Marked
  <2>3. QED
    BY <1>2, <2>1, <2>2 DEF Holds, ToSet
<1>4. r = Renew(m, k) /\ k \in {0} \cup DOMAIN m
  BY <1>1, <1>2 DEF Renewed
<1>5. Handled(q, d, push) = IF push.last THEN EraseMarked(r) ELSE r
  BY DEF Handled
<1> HIDE DEF k, m, r
<1>6. /\ r \in Seq(Reservation) /\ DOMAIN r = DOMAIN m
      /\ \A i \in DOMAIN m :
           /\ r[i].gri = m[i].gri
           /\ r[i] = m[i] \/ r[i].status = "LISTED"
           /\ i = k => r[i].status = "LISTED"
  BY <1>2, <1>4, RenewFacts
<1>7. ASSUME NEW g, Holds(m, g)
      PROVE  Holds(r, g)
  <2>1. PICK i \in DOMAIN m : m[i].gri = g /\ m[i].status = "LISTED"
    BY <1>7 DEF Holds, ToSet
  <2>2. r[i].gri = g /\ r[i].status = "LISTED" /\ r[i] \in ToSet(r)
    BY <1>6, <2>1 DEF ToSet
  <2>3. QED
    BY <2>2 DEF Holds
<1>8. ASSUME k # 0
      PROVE  Holds(r, push.gri)
  <2>1. k \in DOMAIN m /\ m[k].gri = push.gri
    BY <1>1, <1>2, <1>8
  <2>2. r[k].gri = push.gri /\ r[k].status = "LISTED" /\ r[k] \in ToSet(r)
    BY <1>6, <2>1 DEF ToSet
  <2>3. QED
    BY <2>2 DEF Holds
<1>9. Handled(q, d, push) \in Seq(Reservation)
      /\ \A g : Holds(r, g) => Holds(Handled(q, d, push), g)
  BY <1>5, <1>6, EraseFacts DEF Holds
<1>10. QED
  BY <1>3, <1>7, <1>8, <1>9 DEF k

-----------------------------------------------------------------------------
\* While a HEAD waits, its whole burst does.
BurstInv ==
  \A d \in Domains : \A i \in DOMAIN sock[d] :
    sock[d][i].head => i = 1 /\ listed[d] \subseteq GrisOf(sock[d])

\* Where a listed reservation of one domain is: still to be handled, on its way to the
\* TEDB manager or back, or in the RDatabase and not marked.
KeptInv ==
  \A g \in Loadable, d \in Domains :
    g \in listed[d] /\ Crosses[g] = {d} =>
      \/ g \in GrisOf(sock[d])
      \/ g \in ToSet(toTedb)
      \/ g \in ToSet(toResv)
      \/ Holds(rdata, g)

\* What a waiting request must find is in the RDatabase or ahead of it in the queue.
Ahead(p) ==
  \A g \in known[toResv[p]] :
    g \in GrisOf(rdata) \/ \E j \in DOMAIN toResv : j < p /\ toResv[j] = g

QueueInv ==
  \A p \in DOMAIN toResv : toResv[p] \in Workers =>
    /\ request[toResv[p]] = "forwarded"
    /\ \A j \in DOMAIN toResv : toResv[j] = toResv[p] => j = p
    /\ Ahead(p)

Inv == TypeOK /\ BurstInv /\ KeptInv /\ QueueInv /\ CountedOnce


LEMMA PushesFacts ==
  ASSUME NEW q \in Seq(Gris)
  PROVE  /\ Pushes(q) \in Seq(Push) /\ DOMAIN Pushes(q) = DOMAIN q
         /\ \A i \in DOMAIN q : Pushes(q)[i].head => i = 1
         /\ GrisOf(Pushes(q)) = ToSet(q)
<1> DEFINE p == Pushes(q)
<1>1. Len(q) \in Nat /\ DOMAIN q = 1 .. Len(q) /\ \A i \in DOMAIN q : q[i] \in Gris
  OBVIOUS
<1>2. /\ DOMAIN p = DOMAIN q
      /\ \A i \in DOMAIN q : p[i] = [gri |-> q[i], head |-> i = 1, last |-> i = Len(q)]
  BY DEF Pushes
<1>3. p = [i \in DOMAIN q |-> p[i]]
  BY DEF Pushes
<1> HIDE DEF p
<1>4. \A i \in DOMAIN q : p[i] \in Push /\ p[i].gri = q[i] /\ (p[i].head => i = 1)
  <2> DEFINE R(g, b, c) == [gri |-> g, head |-> b, last |-> c]
  <2>1. \A g \in Gris, b, c \in BOOLEAN :
          R(g, b, c) \in Push /\ R(g, b, c).gri = g /\ (R(g, b, c).head <=> b)
    BY DEF Push
  <2>2. \A i : (i = 1) \in BOOLEAN /\ (i = Len(q)) \in BOOLEAN
    OBVIOUS
  <2>3. \A i \in DOMAIN q : p[i] \in Push /\ p[i].gri = q[i] /\ (p[i].head <=> i = 1)
    <3> TAKE i \in DOMAIN q
    <3> DEFINE b == (i = 1)
               c == (i = Len(q))
    <3>1. p[i] = R(q[i], b, c) /\ q[i] \in Gris
      BY <1>1, <1>2
    <3>2. b \in BOOLEAN /\ c \in BOOLEAN
      BY <2>2
    <3> HIDE DEF b, c, R
    <3> DEFINE x == R(q[i], b, c)
    <3>3. x \in Push /\ x.gri = q[i] /\ (x.head <=> b)
      BY <2>1, <3>1, <3>2
    <3>4. p[i] = x
      BY <3>1
    <3> HIDE DEF x
    <3>5. QED
      BY <3>3, <3>4 DEF b
  <2>4. QED
    BY <2>3, Zenon
<1>5. p \in Seq(Push)
  <2>1. p \in [1 .. Len(q) -> Push]
    BY <1>1, <1>3, <1>4
  <2>2. QED
    BY <1>1, <2>1
<1>6. GrisOf(p) = ToSet(q)
  BY <1>2, <1>4 DEF GrisOf, ToSet
<1>7. QED
  BY <1>2, <1>4, <1>5, <1>6 DEF p

LEMMA StartStep ==
  ASSUME NEW d \in Domains, StartBurst(d)
  PROVE  /\ sock[d] = <<>>
         /\ \E q \in Seq(Gris) : /\ sock' = [sock EXCEPT ![d] = Pushes(q)]
                                 /\ listed' = [listed EXCEPT ![d] = ToSet(q)]
         /\ rdata' = rdata /\ toTedb' = toTedb /\ toResv' = toResv
         /\ request' = request /\ tewg' = tewg /\ known' = known
<1>1. Lists[d] \subseteq Seq(Gris)
  BY ResvAssumption
<1>2. QED
  BY <1>1 DEF StartBurst

LEMMA TypeInit == Init => TypeOK
<1> SUFFICES ASSUME Init
             PROVE  TypeOK
  OBVIOUS
<1>1. <<>> \in Seq(Push) /\ <<>> \in Seq(Reservation) /\ <<>> \in Seq(Gris)
      /\ <<>> \in Seq(Gris \cup Workers) /\ <<>> \in Seq(Delta)
  OBVIOUS
<1>2. QED
  BY <1>1 DEF Init, TypeOK, Delta

\* The two ways a message of the reservation manager's queue is handled.
LEMMA MessageStep ==
  ASSUME TypeOK, HandleMessage
  PROVE  /\ toResv # <<>> /\ toResv' = Tail(toResv) /\ Head(toResv) \in Gris \cup Workers
         /\ sock' = sock /\ toTedb' = toTedb /\ listed' = listed /\ known' = known
         /\ \/ /\ Head(toResv) \in Workers /\ rdata' = rdata
               /\ tewg' = [tewg EXCEPT ![Head(toResv)] = Deltas(rdata)[Len(rdata)]]
               /\ request' = [request EXCEPT ![Head(toResv)] = "answered"]
            \/ /\ Head(toResv) \in Gris \ Workers /\ request' = request /\ tewg' = tewg
               /\ rdata' = Append(rdata, [gri |-> Head(toResv), status |-> "LISTED"])
<1>1. toResv # <<>> /\ toResv \in Seq(Gris \cup Workers)
  BY DEF HandleMessage, TypeOK
<1>2. Head(toResv) \in Gris \cup Workers
  BY <1>1
<1>3. Head(toResv) \in Gris => Head(toResv) \notin Workers
  BY ResvAssumption
<1>4. QED
  BY <1>1, <1>2, <1>3 DEF HandleMessage, ReplyTewg, AddReservation

LEMMA TypeStep == TypeOK /\ [Next]_vars => TypeOK'
<1> SUFFICES ASSUME TypeOK, [Next]_vars
             PROVE  TypeOK'
  OBVIOUS
<1>1. ASSUME NEW d \in Domains, StartBurst(d)
      PROVE  TypeOK'
  <2>1. PICK q \in Seq(Gris) : /\ sock' = [sock EXCEPT ![d] = Pushes(q)]
                               /\ listed' = [listed EXCEPT ![d] = ToSet(q)]
    BY <1>1, StartStep
  <2>2. Pushes(q) \in Seq(Push) /\ ToSet(q) \in SUBSET Gris
    BY PushesFacts DEF ToSet
  <2>3. sock' \in [Domains -> Seq(Push)] /\ listed' \in [Domains -> SUBSET Gris]
    BY <2>1, <2>2 DEF TypeOK
  <2>4. QED
    BY <1>1, <2>3, StartStep DEF TypeOK
<1>2. ASSUME NEW d \in Domains, BreakBurst(d)
      PROVE  TypeOK'
  <2>1. sock' \in [Domains -> Seq(Push)] /\ listed' \in [Domains -> SUBSET Gris]
    <3>1. <<>> \in Seq(Push) /\ {} \in SUBSET Gris
      OBVIOUS
    <3>2. QED
      BY <1>2, <3>1 DEF TypeOK, BreakBurst
  <2>2. QED
    BY <1>2, <2>1 DEF TypeOK, BreakBurst
<1>3. ASSUME NEW d \in Domains, HandleAPIMessage(d)
      PROVE  TypeOK'
  <2>1. sock[d] \in Seq(Push) /\ sock[d] # <<>> /\ rdata \in Seq(Reservation)
    BY <1>3, HandledStep DEF TypeOK
  <2>2. Tail(sock[d]) \in Seq(Push) /\ Head(sock[d]) \in Push
    BY <2>1
  <2>3. Head(sock[d]).gri \in Gris
    BY <2>2 DEF Push
  <2>4. sock' \in [Domains -> Seq(Push)]
    BY <1>3, <2>2, HandledStep DEF TypeOK
  <2>5. rdata' \in Seq(Reservation)
    <3>1. rdata' = Handled(rdata, d, Head(sock[d]))
      BY <1>3, HandledStep
    <3>2. Handled(rdata, d, Head(sock[d])) \in Seq(Reservation)
      BY <2>1, HandledFacts, Zenon
    <3>3. QED
      BY <3>1, <3>2
  <2>6. toTedb' \in Seq(Gris)
    <3> DEFINE x == Head(sock[d]).gri
    <3>1. toTedb' = Append(toTedb, x) \/ toTedb' = toTedb
      BY <1>3, HandledStep
    <3>2. toTedb \in Seq(Gris) /\ x \in Gris
      BY <2>3 DEF TypeOK
    <3> HIDE DEF x
    <3>3. QED
      BY <3>1, <3>2
  <2>7. known' \in [Workers -> SUBSET Gris]
    BY <1>3, HandledStep DEF TypeOK
  <2>8. QED
    BY <1>3, <2>4, <2>5, <2>6, <2>7, HandledStep DEF TypeOK
<1>4. CASE AddResv
  <2>1. toTedb' \in Seq(Gris) /\ toResv' \in Seq(Gris \cup Workers)
    <3>1. toTedb \in Seq(Gris) /\ toTedb # <<>> /\ toResv \in Seq(Gris \cup Workers)
      BY <1>4 DEF TypeOK, AddResv
    <3>2. Head(toTedb) \in Gris \cup Workers /\ Tail(toTedb) \in Seq(Gris)
      BY <3>1
    <3>3. Append(toResv, Head(toTedb)) \in Seq(Gris \cup Workers)
      BY <3>1, <3>2, AppendElements
    <3>4. QED
      BY <1>4, <3>1, <3>2, <3>3 DEF AddResv, Post
  <2>2. QED
    BY <1>4, <2>1 DEF TypeOK, AddResv
<1>5. ASSUME NEW w \in Workers, AskForTewg(w)
      PROVE  TypeOK'
  <2>1. <<>> \in Seq([gri : Gris, generated : Nat \ {0}])
    OBVIOUS
  <2>2. QED
    BY <1>5, <2>1 DEF TypeOK, AskForTewg
<1>6. ASSUME NEW w \in Workers, ForwardRequest(w)
      PROVE  TypeOK'
  <2>1. toResv' \in Seq(Gris \cup Workers)
    <3>1. toResv \in Seq(Gris \cup Workers) /\ w \in Gris \cup Workers
      BY DEF TypeOK
    <3>2. QED
      BY <1>6, <3>1, AppendElements DEF ForwardRequest, Post
  <2>2. GrisOf(rdata) \cup (ToSet(toResv) \cap Gris) \in SUBSET Gris
    <3>1. \A i \in DOMAIN rdata : rdata[i] \in Reservation
      BY DEF TypeOK
    <3>2. \A i \in DOMAIN rdata : rdata[i].gri \in Gris
      BY <3>1 DEF Reservation
    <3>3. QED
      BY <3>2 DEF GrisOf
  <2>3. QED
    BY <1>6, <2>1, <2>2 DEF TypeOK, ForwardRequest
<1>7. CASE HandleMessage
  <2>1. toResv \in Seq(Gris \cup Workers) /\ toResv # <<>> /\ rdata \in Seq(Reservation)
    BY <1>7, MessageStep DEF TypeOK
  <2>2. toResv' \in Seq(Gris \cup Workers)
    BY <1>7, <2>1, MessageStep, SMTT(30)
  <2>3. CASE Head(toResv) \in Workers
    <3>1. Deltas(rdata)[Len(rdata)] \in Seq([gri : Gris, generated : Nat \ {0}])
      BY <2>1, DeltasFacts DEF GoodDeltas, Delta
    <3>2. rdata' = rdata /\ tewg' = [tewg EXCEPT ![Head(toResv)] = Deltas(rdata)[Len(rdata)]]
          /\ request' = [request EXCEPT ![Head(toResv)] = "answered"]
      BY <1>7, <2>3, MessageStep
    <3>3. QED
      BY <1>7, <2>2, <3>1, <3>2, MessageStep DEF TypeOK
  <2>4. CASE Head(toResv) \in Gris \ Workers
    <3> DEFINE r == [gri |-> Head(toResv), status |-> "LISTED"]
    <3>1. r \in Reservation
      BY <2>4 DEF Reservation
    <3>2. rdata' = Append(rdata, r) /\ tewg' = tewg /\ request' = request
      BY <1>7, <2>4, MessageStep
    <3> HIDE DEF r
    <3>3. rdata' \in Seq(Reservation)
      BY <2>1, <3>1, <3>2
    <3>4. QED
      BY <1>7, <2>2, <3>2, <3>3, MessageStep DEF TypeOK
  <2>5. QED
    BY <1>7, <2>3, <2>4, MessageStep
<1>8. CASE UNCHANGED vars
  BY <1>8 DEF TypeOK, vars
<1>9. QED
  BY <1>1, <1>2, <1>3, <1>4, <1>5, <1>6, <1>7, <1>8 DEF Next


-----------------------------------------------------------------------------
\* The pushes that are left when one was handled.
LEMMA TailFacts ==
  ASSUME NEW q \in Seq(Push), q # <<>>
  PROVE  /\ GrisOf(q) = {Head(q).gri} \cup GrisOf(Tail(q))
         /\ (\A i \in DOMAIN q : q[i].head => i = 1) => \A i \in DOMAIN Tail(q) : ~Tail(q)[i].head
<1> DEFINE t == Tail(q)
<1>1. ToSet(q) = {Head(q)} \cup ToSet(t)
  BY TailElements
<1>2. GrisOf(q) = {Head(q).gri} \cup GrisOf(t)
  <2>1. \A g : g \in GrisOf(q) <=> g = Head(q).gri \/ g \in GrisOf(t)
    BY <1>1, GriElements
  <2>2. QED
    BY <2>1
<1>3. ASSUME \A i \in DOMAIN q : q[i].head => i = 1, NEW i \in DOMAIN t
      PROVE  ~t[i].head
  <2>1. i + 1 \in DOMAIN q /\ t[i] = q[i + 1] /\ i + 1 # 1
    BY <1>3
  <2>2. QED
    BY <1>3, <2>1
<1>4. QED
  BY <1>2, <1>3

LEMMA BurstStep == TypeOK /\ BurstInv /\ [Next]_vars => BurstInv'
<1> SUFFICES ASSUME TypeOK, BurstInv, [Next]_vars
             PROVE  BurstInv'
  OBVIOUS
<1>1. ASSUME sock' = sock, listed' = listed
      PROVE  BurstInv'
  BY <1>1 DEF BurstInv
<1>2. ASSUME NEW d \in Domains, StartBurst(d)
      PROVE  BurstInv'
  <2>1. PICK q \in Seq(Gris) : /\ sock' = [sock EXCEPT ![d] = Pushes(q)]
                               /\ listed' = [listed EXCEPT ![d] = ToSet(q)]
    BY <1>2, StartStep
  <2>2. /\ sock'[d] = Pushes(q) /\ listed'[d] = ToSet(q)
        /\ \A e \in Domains \ {d} : sock'[e] = sock[e] /\ listed'[e] = listed[e]
    BY <2>1 DEF TypeOK
  <2>3. /\ \A i \in DOMAIN Pushes(q) : Pushes(q)[i].head => i = 1
        /\ GrisOf(Pushes(q)) = ToSet(q)
    BY PushesFacts
  <2>4. QED
    BY <2>2, <2>3 DEF BurstInv
<1>3. ASSUME NEW d \in Domains, BreakBurst(d)
      PROVE  BurstInv'
  <2>1. /\ sock'[d] = <<>>
        /\ \A e \in Domains \ {d} : sock'[e] = sock[e] /\ listed'[e] = listed[e]
    BY <1>3 DEF BreakBurst, TypeOK
  <2>2. \A i : i \notin DOMAIN <<>>
    OBVIOUS
  <2>3. QED
    BY <2>1, <2>2 DEF BurstInv
<1>4. ASSUME NEW d \in Domains, HandleAPIMessage(d)
      PROVE  BurstInv'
  <2>1. sock[d] \in Seq(Push) /\ sock[d] # <<>>
    BY <1>4, HandledStep DEF TypeOK
  <2>2. /\ sock'[d] = Tail(sock[d]) /\ listed' = listed
        /\ \A e \in Domains \ {d} : sock'[e] = sock[e]
    BY <1>4, HandledStep DEF TypeOK
  <2>3. \A i \in DOMAIN Tail(sock[d]) : ~Tail(sock[d])[i].head
    <3>1. \A i \in DOMAIN sock[d] : sock[d][i].head => i = 1
      BY DEF BurstInv
    <3>2. QED
      BY <2>1, <3>1, TailFacts
  <2>4. QED
    BY <2>2, <2>3 DEF BurstInv
<1>5. CASE AddResv
  BY <1>1, <1>5 DEF AddResv
<1>6. ASSUME NEW w \in Workers, AskForTewg(w) \/ ForwardRequest(w)
      PROVE  BurstInv'
  BY <1>1, <1>6 DEF AskForTewg, ForwardRequest
<1>7. CASE HandleMessage
  BY <1>1, <1>7, MessageStep
<1>8. CASE UNCHANGED vars
  BY <1>1, <1>8 DEF vars
<1>9. QED
  BY <1>2, <1>3, <1>4, <1>5, <1>6, <1>7, <1>8 DEF Next

-----------------------------------------------------------------------------
\* Where one listed reservation is; KeptInv says it of each.
Somewhere(g, d) ==
  \/ g \in GrisOf(sock[d])
  \/ g \in ToSet(toTedb)
  \/ g \in ToSet(toResv)
  \/ Holds(rdata, g)

LEMMA KeptForm ==
  KeptInv <=> \A g \in Loadable, d \in Domains :
                g \in listed[d] /\ Crosses[g] = {d} => Somewhere(g, d)
BY DEF KeptInv, Somewhere

LEMMA KeptStep == TypeOK /\ BurstInv /\ KeptInv /\ [Next]_vars => KeptInv'
<1> SUFFICES ASSUME TypeOK, BurstInv, KeptInv, [Next]_vars,
                    NEW g \in Loadable, NEW e \in Domains, g \in listed'[e], Crosses[g] = {e}
             PROVE  Somewhere(g, e)'
  BY DEF KeptInv, Somewhere
<1> HIDE DEF KeptInv
<1>1. g \in listed[e] => Somewhere(g, e)
  BY KeptForm
<1>2. ASSUME sock' = sock, listed' = listed, toTedb' = toTedb, rdata' = rdata,
             ToSet(toResv) \subseteq ToSet(toResv')
      PROVE  Somewhere(g, e)'
  BY <1>1, <1>2 DEF Somewhere
<1>3. ASSUME NEW d \in Domains, StartBurst(d)
      PROVE  Somewhere(g, e)'
  <2>1. PICK q \in Seq(Gris) : /\ sock' = [sock EXCEPT ![d] = Pushes(q)]
                               /\ listed' = [listed EXCEPT ![d] = ToSet(q)]
    BY <1>3, StartStep
  <2>2. /\ sock'[d] = Pushes(q) /\ listed'[d] = ToSet(q)
        /\ \A f \in Domains \ {d} : sock'[f] = sock[f] /\ listed'[f] = listed[f]
    BY <2>1 DEF TypeOK
  <2>3. CASE e = d
    BY <2>2, <2>3, PushesFacts DEF Somewhere
  <2>4. CASE e # d
    <3>1. sock'[e] = sock[e] /\ Somewhere(g, e)
      BY <1>1, <2>2, <2>4
    <3>2. QED
      BY <1>3, <3>1, StartStep DEF Somewhere
  <2>5. QED
    BY <2>3, <2>4
<1>4. ASSUME NEW d \in Domains, BreakBurst(d)
      PROVE  Somewhere(g, e)'
  <2>1. /\ listed'[d] = {}
        /\ \A f \in Domains \ {d} : sock'[f] = sock[f] /\ listed'[f] = listed[f]
    BY <1>4 DEF BreakBurst, TypeOK
  <2>2. sock'[e] = sock[e] /\ Somewhere(g, e)
    BY <1>1, <2>1
  <2>3. QED
    BY <1>4, <2>2 DEF BreakBurst, Somewhere
<1>5. ASSUME NEW d \in Domains, HandleAPIMessage(d)
      PROVE  Somewhere(g, e)'
  <2> DEFINE push == Head(sock[d])
  <2>1. /\ sock[d] \in Seq(Push) /\ sock[d] # <<>> /\ rdata \in Seq(Reservation)
        /\ toTedb \in Seq(Gris)
    BY <1>5, HandledStep DEF TypeOK
  <2>2. /\ sock'[d] = Tail(sock[d]) /\ listed' = listed /\ toResv' = toResv
        /\ \A f \in Domains \ {d} : sock'[f] = sock[f]
        /\ rdata' = Handled(rdata, d, push)
        /\ toTedb' = IF Found(rdata, d, push) = 0 THEN Append(toTedb, push.gri) ELSE toTedb
    BY <1>5, HandledStep DEF TypeOK
  <2>3. GrisOf(sock[d]) = {push.gri} \cup GrisOf(Tail(sock[d])) /\ push \in Push
    BY <2>1, TailFacts
  <2>4. push.gri \in Gris
    BY <2>3 DEF Push
  <2>5. ToSet(toTedb) \subseteq ToSet(toTedb')
        /\ (Found(rdata, d, push) = 0 => push.gri \in ToSet(toTedb'))
    BY <2>1, <2>2, <2>4, AppendElements
  <2>6. push.head => listed[d] \subseteq GrisOf(sock[d])
    <3>1. 1 \in DOMAIN sock[d] /\ push = sock[d][1]
      BY <2>1
    <3>2. QED
      BY <3>1 DEF BurstInv
  <2>7. ASSUME g = push.gri
        PROVE  Somewhere(g, e)'
    <3>1. Found(rdata, d, push) = 0 \/ Holds(rdata', g)
      BY <2>1, <2>2, <2>7, HandledFacts
    <3>2. QED
      BY <2>5, <2>7, <3>1 DEF Somewhere
  <2>8. ASSUME Holds(rdata, g), push.head => d \notin Crosses[g]
        PROVE  Somewhere(g, e)'
    <3>1. Holds(rdata', g)
      BY <2>1, <2>2, <2>8, HandledFacts
    <3>2. QED
      BY <3>1 DEF Somewhere
  <2> HIDE DEF push
  <2>9. ASSUME g \in GrisOf(sock[e])
        PROVE  Somewhere(g, e)'
    BY <2>2, <2>3, <2>7, <2>9 DEF Somewhere
  <2>10. ASSUME Holds(rdata, g), ~(push.head => d \notin Crosses[g])
         PROVE  Somewhere(g, e)'
    <3>1. d = e /\ g \in GrisOf(sock[e])
      BY <2>2, <2>6, <2>10
    <3>2. QED
      BY <2>9, <3>1
  <2>11. ASSUME g \in ToSet(toTedb) \/ g \in ToSet(toResv)
         PROVE  Somewhere(g, e)'
    BY <2>2, <2>5, <2>11 DEF Somewhere
  <2>12. QED
    BY <1>1, <2>2, <2>8, <2>9, <2>10, <2>11 DEF Somewhere
<1>6. CASE AddResv
  <2>1. toTedb \in Seq(Gris) /\ toTedb # <<>> /\ toResv \in Seq(Gris \cup Workers)
    BY <1>6 DEF TypeOK, AddResv
  <2>2. ToSet(toTedb) = {Head(toTedb)} \cup ToSet(Tail(toTedb)) /\ Head(toTedb) \in Gris
    BY <2>1, TailElements
  <2>3. /\ ToSet(toResv) \subseteq ToSet(toResv')
        /\ Head(toTedb) \in Loadable => Head(toTedb) \in ToSet(toResv')
    <3>1. toResv' = IF Head(toTedb) \in Loadable THEN Append(toResv, Head(toTedb)) ELSE toResv
      BY <1>6 DEF AddResv, Post
    <3>2. ToSet(Append(toResv, Head(toTedb))) = ToSet(toResv) \cup {Head(toTedb)}
      BY <2>1, <2>2, AppendElements
    <3>3. QED
      BY <3>1, <3>2
  <2>4. toTedb' = Tail(toTedb) /\ sock' = sock /\ rdata' = rdata /\ listed' = listed
    BY <1>6 DEF AddResv
  <2>5. QED
    BY <1>1, <2>2, <2>3, <2>4 DEF Somewhere
<1>7. ASSUME NEW w \in Workers, AskForTewg(w)
      PROVE  Somewhere(g, e)'
  BY <1>2, <1>7 DEF AskForTewg
<1>8. ASSUME NEW w \in Workers, ForwardRequest(w)
      PROVE  Somewhere(g, e)'
  <2>1. toResv \in Seq(Gris \cup Workers) /\ toResv' = Append(toResv, w)
    BY <1>8 DEF TypeOK, ForwardRequest, Post
  <2>2. ToSet(toResv) \subseteq ToSet(toResv')
    BY <2>1, AppendElements
  <2>3. QED
    BY <1>2, <1>8, <2>2 DEF ForwardRequest
<1>9. CASE HandleMessage
  <2>1. toResv \in Seq(Gris \cup Workers) /\ toResv # <<>> /\ rdata \in Seq(Reservation)
    BY <1>9, MessageStep DEF TypeOK
  <2>2. /\ ToSet(toResv) = {Head(toResv)} \cup ToSet(toResv')
        /\ sock' = sock /\ toTedb' = toTedb /\ listed' = listed
    BY <1>9, <2>1, TailElements, MessageStep
  <2>3. CASE Head(toResv) \in Workers
    <3>1. rdata' = rdata
      BY <1>9, <2>3, MessageStep
    <3>2. g # Head(toResv)
      BY <2>3, ResvAssumption
    <3>3. QED
      BY <1>1, <2>2, <3>1, <3>2 DEF Somewhere
  <2>4. CASE Head(toResv) \in Gris \ Workers
    <3> DEFINE r == [gri |-> Head(toResv), status |-> "LISTED"]
    <3>1. r \in Reservation /\ r.gri = Head(toResv) /\ r.status = "LISTED"
      BY <2>4 DEF Reservation
    <3>2. rdata' = Append(rdata, r)
      BY <1>9, <2>4, MessageStep
    <3> HIDE DEF r
    <3>3. ToSet(rdata') = ToSet(rdata) \cup {r}
      BY <2>1, <3>1, <3>2, AppendElements
    <3>4. Holds(rdata, g) \/ g = Head(toResv) => Holds(rdata', g)
      BY <3>1, <3>3 DEF Holds
    <3>5. QED
      BY <1>1, <2>2, <3>4 DEF Somewhere
  <2>5. QED
    BY <1>9, <2>3, <2>4, MessageStep
<1>10. CASE UNCHANGED vars
  BY <1>2, <1>10 DEF vars
<1>11. QED
  BY <1>3, <1>4, <1>5, <1>6, <1>7, <1>8, <1>9, <1>10 DEF Next


-----------------------------------------------------------------------------
\* A queue that gets longer: what waits in it has the same ahead of it.
LEMMA QueueGrows ==
  ASSUME TypeOK, QueueInv, NEW x \in Gris \cup Workers, toResv' = Append(toResv, x),
         rdata' = rdata,
         \A w \in Workers \ {x} : request'[w] = request[w] /\ known'[w] = known[w],
         x \in Workers => /\ x \notin ToSet(toResv)
                          /\ request'[x] = "forwarded"
                          /\ known'[x] \subseteq GrisOf(rdata) \cup ToSet(toResv)
  PROVE  QueueInv'
<1> DEFINE q == toResv
           n == Len(toResv)
<1>1. q \in Seq(Gris \cup Workers) /\ n \in Nat /\ DOMAIN q = 1 .. n
  BY DEF TypeOK
<1>2. /\ DOMAIN toResv' = 1 .. (n + 1)
      /\ \A i \in 1 .. n : toResv'[i] = q[i]
      /\ toResv'[n + 1] = x
  BY <1>1, AppendProperties, LenProperties
<1> SUFFICES ASSUME NEW p \in DOMAIN toResv', toResv'[p] \in Workers
             PROVE  /\ request'[toResv'[p]] = "forwarded"
                    /\ \A j \in DOMAIN toResv' : toResv'[j] = toResv'[p] => j = p
                    /\ Ahead(p)'
  BY DEF QueueInv
<1> HIDE DEF q, n
<1>3. /\ \A i \in DOMAIN toResv' : i = n + 1 \/ i \in DOMAIN q
      /\ \A i \in DOMAIN q : i < n + 1 /\ i \in DOMAIN toResv' /\ toResv'[i] = q[i]
      /\ toResv'[n + 1] = x
  BY <1>1, <1>2
<1>4. ASSUME NEW i \in DOMAIN q, q[i] = x
      PROVE  x \notin Workers
  BY <1>4 DEF ToSet, q
<1>5. CASE p = n + 1
  <2>1. \A j \in DOMAIN toResv' : toResv'[j] = x => j = p
    BY <1>3, <1>4, <1>5
  <2>2. \A g \in known'[x] :
          g \in GrisOf(rdata') \/ \E j \in DOMAIN toResv' : j < p /\ toResv'[j] = g
    <3> TAKE g \in known'[x]
    <3>1. CASE g \in GrisOf(rdata)
      BY <3>1
    <3>2. CASE g \in ToSet(toResv)
      <4>1. PICK j \in DOMAIN q : q[j] = g
        BY <3>2 DEF ToSet, q
      <4>2. QED
        BY <1>3, <1>5, <4>1
    <3>3. QED
      BY <1>3, <1>5, <3>1, <3>2
  <2>3. QED
    BY <1>3, <1>5, <2>1, <2>2 DEF Ahead
<1>6. CASE p \in DOMAIN q
  <2> DEFINE w == q[p]
  <2>1. toResv'[p] = w /\ w \in Workers /\ w # x
    BY <1>3, <1>4, <1>6
  <2>2. /\ request[w] = "forwarded"
        /\ \A j \in DOMAIN q : q[j] = w => j = p
        /\ \A g \in known[w] : g \in GrisOf(rdata) \/ \E j \in DOMAIN q : j < p /\ q[j] = g
    BY <1>6, <2>1 DEF QueueInv, Ahead, q
  <2> HIDE DEF w
  <2>3. request'[w] = "forwarded" /\ known'[w] = known[w]
    BY <2>1, <2>2
  <2>4. \A j \in DOMAIN toResv' : toResv'[j] = w => j = p
    BY <1>3, <2>1, <2>2
  <2>5. \A g \in known'[w] :
          g \in GrisOf(rdata') \/ \E j \in DOMAIN toResv' : j < p /\ toResv'[j] = g
    BY <1>3, <2>2, <2>3
  <2>6. QED
    BY <2>1, <2>3, <2>4, <2>5 DEF Ahead
<1>7. QED
  BY <1>3, <1>5, <1>6

\* A queue whose first message is handled: what waits in it moves up.
LEMMA QueueShrinks ==
  ASSUME TypeOK, QueueInv, toResv # <<>>, toResv' = Tail(toResv), known' = known,
         \A w \in Workers \ {Head(toResv)} : request'[w] = request[w],
         GrisOf(rdata) \subseteq GrisOf(rdata'),
         Head(toResv) \in GrisOf(rdata') \/ Head(toResv) \in Workers
  PROVE  QueueInv'
<1> DEFINE q == toResv
           n == Len(toResv)
<1>1. q \in Seq(Gris \cup Workers) /\ n \in Nat /\ DOMAIN q = 1 .. n /\ 1 \in DOMAIN q
      /\ Head(q) = q[1]
  BY DEF TypeOK
<1>2. DOMAIN toResv' = 1 .. (n - 1) /\ \A i \in 1 .. (n - 1) : toResv'[i] = q[i + 1]
  <2>1. Tail(q) \in Seq(Gris \cup Workers) /\ Len(Tail(q)) = n - 1
        /\ \A i \in 1 .. (n - 1) : Tail(q)[i] = q[i + 1]
    BY <1>1, HeadTailProperties
  <2>2. DOMAIN Tail(q) = 1 .. (n - 1)
    BY <2>1, LenProperties
  <2>3. QED
    BY <2>1, <2>2
<1> SUFFICES ASSUME NEW p \in DOMAIN toResv', toResv'[p] \in Workers
             PROVE  /\ request'[toResv'[p]] = "forwarded"
                    /\ \A j \in DOMAIN toResv' : toResv'[j] = toResv'[p] => j = p
                    /\ Ahead(p)'
  BY DEF QueueInv
<1> DEFINE w == q[p + 1]
<1>3. p + 1 \in DOMAIN q /\ toResv'[p] = w /\ w \in Workers /\ p \in Nat /\ p + 1 # 1
  BY <1>1, <1>2
<1>4. /\ request[w] = "forwarded"
      /\ \A j \in DOMAIN q : q[j] = w => j = p + 1
      /\ \A g \in known[w] : g \in GrisOf(rdata) \/ \E j \in DOMAIN q : j < p + 1 /\ q[j] = g
  BY <1>3 DEF QueueInv, Ahead
<1> HIDE DEF w, q, n
<1>5. w # Head(q)
  BY <1>1, <1>3, <1>4
<1>6. request'[toResv'[p]] = "forwarded"
  BY <1>3, <1>4, <1>5 DEF q
<1>7. \A j \in DOMAIN toResv' : toResv'[j] = toResv'[p] => j = p
  <2> SUFFICES ASSUME NEW j \in DOMAIN toResv', toResv'[j] = w
               PROVE  j = p
    BY <1>3
  <2>1. j + 1 \in DOMAIN q /\ q[j + 1] = w /\ j \in Nat
    BY <1>1, <1>2
  <2>2. j + 1 = p + 1
    BY <1>4, <2>1
  <2>3. QED
    BY <1>3, <2>1, <2>2
<1>8. \A g \in known'[w] :
        g \in GrisOf(rdata') \/ \E j \in DOMAIN toResv' : j < p /\ toResv'[j] = g
  <2> SUFFICES ASSUME NEW g \in known[w], g \notin GrisOf(rdata')
               PROVE  \E j \in DOMAIN toResv' : j < p /\ toResv'[j] = g
    OBVIOUS
  <2>1. PICK j \in DOMAIN q : j < p + 1 /\ q[j] = g
    BY <1>4
  <2>2. g \notin Workers
    BY <1>3, ResvAssumption DEF TypeOK
  <2>3. j # 1
    BY <1>1, <2>1, <2>2 DEF q
  <2>4. j - 1 \in 1 .. (n - 1) /\ (j - 1) + 1 = j /\ j - 1 < p
    BY <1>1, <1>3, <2>1, <2>3
  <2>5. toResv'[j - 1] = g
    BY <1>2, <2>1, <2>4
  <2>6. QED
    BY <1>2, <2>4, <2>5
<1>9. QED
  BY <1>3, <1>6, <1>7, <1>8 DEF Ahead

LEMMA QueueStep == TypeOK /\ QueueInv /\ [Next]_vars => QueueInv'
<1> SUFFICES ASSUME TypeOK, QueueInv, [Next]_vars
             PROVE  QueueInv'
  OBVIOUS
<1>1. ASSUME toResv' = toResv, request' = request, known' = known, rdata' = rdata
      PROVE  QueueInv'
  BY <1>1 DEF QueueInv, Ahead
<1>2. ASSUME NEW d \in Domains, StartBurst(d) \/ BreakBurst(d)
      PROVE  QueueInv'
  BY <1>1, <1>2 DEF StartBurst, BreakBurst
<1>3. ASSUME NEW d \in Domains, HandleAPIMessage(d)
      PROVE  QueueInv'
  <2>1. toResv' = toResv /\ request' = request
        /\ \A w \in Workers : known'[w] = known[w] \ (GrisOf(rdata) \ GrisOf(rdata'))
    BY <1>3, HandledStep
  <2>2. QED
    BY <2>1 DEF QueueInv, Ahead
<1>4. CASE AddResv
  <2>1. toTedb \in Seq(Gris) /\ toTedb # <<>>
    BY <1>4 DEF TypeOK, AddResv
  <2>2. Head(toTedb) \in Gris
    BY <2>1
  <2>3. Head(toTedb) \notin Workers
    BY <2>2, ResvAssumption
  <2>4. CASE toResv' = toResv
    BY <1>1, <1>4, <2>4 DEF AddResv
  <2>5. CASE toResv' = Append(toResv, Head(toTedb))
    BY <1>4, <2>2, <2>3, <2>5, QueueGrows DEF AddResv
  <2>6. QED
    BY <1>4, <2>4, <2>5 DEF AddResv, Post
<1>5. ASSUME NEW w \in Workers, AskForTewg(w)
      PROVE  QueueInv'
  <2>1. /\ toResv' = toResv /\ rdata' = rdata /\ request[w] # "forwarded"
        /\ \A v \in Workers \ {w} : request'[v] = request[v] /\ known'[v] = known[v]
    BY <1>5 DEF AskForTewg, TypeOK
  <2>2. \A p \in DOMAIN toResv : toResv[p] # w
    BY <2>1 DEF QueueInv
  <2>3. QED
    BY <2>1, <2>2 DEF QueueInv, Ahead
<1>6. ASSUME NEW w \in Workers, ForwardRequest(w)
      PROVE  QueueInv'
  <2>1. /\ toResv' = Append(toResv, w) /\ rdata' = rdata /\ request[w] = "asked"
        /\ \A v \in Workers \ {w} : request'[v] = request[v] /\ known'[v] = known[v]
        /\ request'[w] = "forwarded"
        /\ known'[w] = GrisOf(rdata) \cup (ToSet(toResv) \cap Gris)
    BY <1>6 DEF ForwardRequest, TypeOK, Post
  <2>2. w \notin ToSet(toResv)
    BY <2>1 DEF QueueInv, ToSet
  <2>3. QED
    BY <2>1, <2>2, QueueGrows
<1>7. CASE HandleMessage
  <2>1. toResv # <<>> /\ toResv' = Tail(toResv) /\ known' = known /\ rdata \in Seq(Reservation)
    BY <1>7, MessageStep DEF TypeOK
  <2>2. CASE Head(toResv) \in Workers
    <3>1. rdata' = rdata /\ request' = [request EXCEPT ![Head(toResv)] = "answered"]
      BY <1>7, <2>2, MessageStep
    <3>2. \A w \in Workers \ {Head(toResv)} : request'[w] = request[w]
      BY <3>1 DEF TypeOK
    <3>3. QED
      BY <2>1, <2>2, <3>1, <3>2, QueueShrinks
  <2>3. CASE Head(toResv) \in Gris \ Workers
    <3> DEFINE r == [gri |-> Head(toResv), status |-> "LISTED"]
    <3>1. r \in Reservation /\ r.gri = Head(toResv)
      BY <2>3 DEF Reservation
    <3>2. rdata' = Append(rdata, r) /\ request' = request
      BY <1>7, <2>3, MessageStep
    <3> HIDE DEF r
    <3>3. ToSet(rdata') = ToSet(rdata) \cup {r}
      BY <2>1, <3>1, <3>2, AppendElements
    <3>4. GrisOf(rdata) \subseteq GrisOf(rdata') /\ Head(toResv) \in GrisOf(rdata')
      BY <3>1, <3>3, GriElements
    <3>5. QED
      BY <2>1, <3>2, <3>4, QueueShrinks
  <2>4. QED
    BY <1>7, <2>2, <2>3, MessageStep
<1>8. CASE UNCHANGED vars
  BY <1>1, <1>8 DEF vars
<1>9. QED
  BY <1>2, <1>3, <1>4, <1>5, <1>6, <1>7, <1>8 DEF Next


-----------------------------------------------------------------------------
\* What CountedOnce says of one worker.
Counted(w) ==
  /\ request[w] = "answered" => known[w] \subseteq GrisOf(tewg[w])
  /\ \A i, j \in DOMAIN tewg[w] : tewg[w][i].gri = tewg[w][j].gri => i = j

LEMMA CountedStep == TypeOK /\ QueueInv /\ CountedOnce /\ [Next]_vars => CountedOnce'
<1> SUFFICES ASSUME TypeOK, QueueInv, CountedOnce, [Next]_vars, NEW v \in Workers
             PROVE  Counted(v)'
  BY DEF CountedOnce, Counted
<1>1. Counted(v)
  BY DEF CountedOnce, Counted
<1>2. ASSUME request'[v] = request[v], tewg'[v] = tewg[v], known'[v] \subseteq known[v]
      PROVE  Counted(v)'
  BY <1>1, <1>2 DEF Counted
<1>3. ASSUME NEW d \in Domains, StartBurst(d) \/ BreakBurst(d)
      PROVE  Counted(v)'
  BY <1>2, <1>3 DEF StartBurst, BreakBurst
<1>4. ASSUME NEW d \in Domains, HandleAPIMessage(d)
      PROVE  Counted(v)'
  BY <1>2, <1>4, HandledStep
<1>5. CASE AddResv
  BY <1>2, <1>5 DEF AddResv
<1>6. ASSUME NEW w \in Workers, AskForTewg(w)
      PROVE  Counted(v)'
  <2>1. CASE v = w
    <3>1. request'[v] = "asked" /\ tewg'[v] = <<>>
      BY <1>6, <2>1 DEF AskForTewg, TypeOK
    <3>2. \A i : i \notin DOMAIN <<>>
      OBVIOUS
    <3>3. QED
      BY <3>1, <3>2 DEF Counted
  <2>2. CASE v # w
    BY <1>2, <1>6, <2>2 DEF AskForTewg, TypeOK
  <2>3. QED
    BY <2>1, <2>2
<1>7. ASSUME NEW w \in Workers, ForwardRequest(w)
      PROVE  Counted(v)'
  <2>1. CASE v = w
    <3>1. request'[v] = "forwarded" /\ tewg'[v] = tewg[v]
      BY <1>7, <2>1 DEF ForwardRequest, TypeOK
    <3>2. QED
      BY <1>1, <3>1 DEF Counted
  <2>2. CASE v # w
    BY <1>2, <1>7, <2>2 DEF ForwardRequest, TypeOK
  <2>3. QED
    BY <2>1, <2>2
<1>8. CASE HandleMessage
  <2>1. toResv # <<>> /\ known' = known /\ rdata \in Seq(Reservation)
    BY <1>8, MessageStep DEF TypeOK
  <2>2. CASE Head(toResv) = v
    <3> DEFINE t == Deltas(rdata)[Len(rdata)]
    <3>1. Head(toResv) \notin Gris
      BY <2>2, ResvAssumption
    <3>2. tewg'[v] = t /\ rdata' = rdata
      BY <1>8, <2>2, <3>1, MessageStep DEF TypeOK
    <3>3. GoodDeltas(t, rdata, Len(rdata))
      BY <2>1, DeltasFacts
    <3> HIDE DEF t
    <3>4. GrisOf(rdata) \subseteq GrisOf(t)
      BY <2>1, <3>3 DEF GoodDeltas, GrisOf
    <3>5. known[v] \subseteq GrisOf(rdata)
      <4>1. 1 \in DOMAIN toResv /\ toResv[1] = v /\ \A j \in DOMAIN toResv : ~(j < 1)
        BY <2>1, <2>2 DEF TypeOK
      <4>2. QED
        BY <4>1 DEF QueueInv, Ahead
    <3>6. QED
      BY <2>1, <3>2, <3>3, <3>4, <3>5 DEF Counted, GoodDeltas
  <2>3. CASE Head(toResv) # v
    <3>1. request'[v] = request[v] /\ tewg'[v] = tewg[v]
      BY <1>8, <2>3, MessageStep DEF TypeOK
    <3>2. QED
      BY <1>2, <2>1, <3>1
  <2>4. QED
    BY <2>2, <2>3
<1>9. CASE UNCHANGED vars
  BY <1>2, <1>9 DEF vars
<1>10. QED
  BY <1>3, <1>4, <1>5, <1>6, <1>7, <1>8, <1>9 DEF Next

-----------------------------------------------------------------------------
LEMMA InvInit == Init => Inv
<1> SUFFICES ASSUME Init
             PROVE  Inv
  OBVIOUS
<1>1. \A i : i \notin DOMAIN <<>>
  OBVIOUS
<1>2. BurstInv /\ QueueInv /\ CountedOnce /\ KeptInv
  BY <1>1 DEF Init, BurstInv, QueueInv, CountedOnce, KeptInv
<1>3. QED
  BY <1>2, TypeInit DEF Inv

\* The inductive invariant of the path a reservation takes.
THEOREM Invariance == Spec => []Inv
<1>1. Inv /\ [Next]_vars => Inv'
  BY TypeStep, BurstStep, KeptStep, QueueStep, CountedStep DEF Inv
<1>2. QED
  BY InvInit, <1>1, PTL DEF Spec

\* Every variable keeps to its type.
THEOREM TypeCorrect == Spec => []TypeOK
<1>1. Inv => TypeOK
  BY DEF Inv
<1>2. QED
  BY Invariance, <1>1, PTL

\* However the bursts of the domains, the replies of the TEDB manager and the erasing
\* interleave: when all is handled, the RDatabase holds every valid reservation of the
\* last burst of its domain, if it stays in one domain.
THEOREM ListedStay == Spec => []NothingLost
<1>1. Inv => NothingLost
  <2> SUFFICES ASSUME Inv, Quiet, NEW g \in Loadable, NEW d \in Domains,
                      g \in listed[d], Crosses[g] = {d}
               PROVE  g \in GrisOf(rdata)
    BY DEF NothingLost
  <2>1. toTedb = <<>> /\ toResv = <<>> /\ sock[d] = <<>>
    BY DEF Quiet
  <2>2. ToSet(<<>>) = {} /\ GrisOf(<<>>) = {}
    BY DEF ToSet, GrisOf
  <2>3. Holds(rdata, g)
    BY <2>1, <2>2 DEF Inv, KeptInv
  <2>4. QED
    BY <2>3, HoldsGri
<1>2. QED
  BY Invariance, <1>1, PTL

\* A worker's TEWG has a delta of every reservation that was ahead of its request and not
\* erased before it was handled, and none twice, whatever the RDatabase holds twice.
THEOREM EachCounted == Spec => []CountedOnce
<1>1. Inv => CountedOnce
  BY DEF Inv
<1>2. QED
  BY Invariance, <1>1, PTL
=============================================================================

-------------------------- MODULE ApiServer_proofs --------------------------
(***************************************************************************)
(* The two API servers.  For any number of clients, addresses and GRIs and *)
(* any messages, the binary one writes answers to those who asked, keeps   *)
(* its connections scheduled, and ends only because of a GRI used twice or *)
(* a connection that went away.  For any number of calls, the XML-RPC one    *)
(* serves them one at a time, ends a loop before its timer only for the    *)
(* reply of the call, and gives nobody another's manifest.                 *)
(***************************************************************************)
EXTENDS ApiServer, XmlRpcApi, EventList_proofs, FiniteSetTheorems

\* Nothing is in a list of the event loop twice, or in the ready events as well: what runs
\* is out of the lists until it puts itself back.
OnceInv ==
  /\ Once(reads) /\ Once(writes) /\ Once(ready)
  /\ \A x \in ToSet(reads) : <<"read", x>> \notin ToSet(ready)
  /\ \A k \in ToSet(writes) : <<"write", k>> \notin ToSet(ready)

\* The reader of the port runs for a reply, and it alone takes replies.
PortInv == <<"read", "port">> \in ToSet(ready) => replies # <<>>

Reading(k) == k \in ToSet(reads) \/ <<"read", k>> \in ToSet(ready)
Writing(k) == k \in ToSet(writes) \/ <<"write", k>> \in ToSet(ready)

\* A reader has one address, from the connection until it is deleted.
ReaderInv ==
  /\ \A a, b \in Address : owner[a] = owner[b] /\ owner[a] # Nobody => a = b
  /\ \A a \in Address : owner[a] # Nobody => peer[owner[a]] \in {"joined", "left"}
  /\ \A k \in Client : Reading(k) => \E a \in Address : owner[a] = k
  /\ \A k \in Client : peer[k] \in {"away", "connecting"} =>
       fd[k] = Nobody /\ queue[k] = <<>>
  /\ \A k \in Client : fd[k] # Nobody => \E a \in Address : owner[a] = k

\* A writer is scheduled for its messages and for nothing else.
WriterInv == \A k \in Client : Writing(k) => queue[k] # <<>>

\* What the loop has of a connection: its bits are set for what is in the lists only, it is
\* there to read, and to write while it has messages.
Awake(k) ==
  /\ fd[k] \in readfd => k \in ToSet(reads)
  /\ fd[k] \in writefd => k \in ToSet(writes)
  /\ Reading(k)
  /\ queue[k] # <<>> => Writing(k)

\* No two connections have one number, and all are awake but those that got one whose bit
\* was set.
AwakeInv ==
  /\ \A k, d \in Client : fd[k] = fd[d] /\ fd[k] # Nobody => k = d
  /\ \A k \in Client \ heirs : fd[k] # Nobody => Awake(k)

\* The connection remembered for a GRI is open and has asked for it, unless it went away.
RouteInv ==
  /\ \A g \in Gri \ gone : clientConn[g] # Nobody =>
       /\ owner[clientConn[g]] # Nobody /\ g \in asked[owner[clientConn[g]]]
       /\ fd[owner[clientConn[g]]] # Nobody
  /\ \A k \in Client : \A i \in DOMAIN queue[k] : queue[k][i].gri \in asked[k] \cup gone
  /\ \A k \in Client : \A i \in DOMAIN got[k] : got[k][i].gri \in asked[k] \cup gone

\* A GRI that never clashed has one request or one reply, and its connection until then.
UseInv ==
  /\ \A i \in DOMAIN pending : pending[i].gri \notin clash => clientConn[pending[i].gri] # Nobody
  /\ \A i \in DOMAIN replies : replies[i].gri \notin clash => clientConn[replies[i].gri] # Nobody
  /\ \A i, j \in DOMAIN pending :
       pending[i].gri = pending[j].gri /\ pending[i].gri \notin clash => i = j
  /\ \A i, j \in DOMAIN replies :
       replies[i].gri = replies[j].gri /\ replies[i].gri \notin clash => i = j
  /\ \A i \in DOMAIN pending, j \in DOMAIN replies :
       pending[i].gri = replies[j].gri => pending[i].gri \in clash

\* Who has sent members of a group is known, and every request comes from somebody.
GroupInv ==
  /\ \A g \in Gri : ToSet(group[g]) \subseteq gathering[g]
  /\ \A i \in DOMAIN pending : /\ pending[i].from # <<>>
                               /\ \/ pending[i].gri \in clash
                                  \/ \E k \in Client : ToSet(pending[i].from) = {k}
  /\ \A i \in DOMAIN replies : replies[i].results # 0

IInv ==
  /\ TypeOK
  /\ OnceInv
  /\ PortInv
  /\ ReaderInv
  /\ WriterInv
  /\ AwakeInv
  /\ RouteInv
  /\ UseInv
  /\ GroupInv
  /\ DiesOfStrays

-----------------------------------------------------------------------------
Events == {"read", "write"} \X (Client \cup {"listen", "port"})
Results == [gri : Gri, grouped : BOOLEAN, last : BOOLEAN]

\* Every step is one of the actions.
LEMMA StepCases ==
  ASSUME [Next]_vars
  PROVE  \/ Fetch
         \/ HandleReply
         \/ \E k \in Client : Accept(k)
         \/ \E k \in Client : ReadFails(k)
         \/ \E k \in Client : ReadNothing(k)
         \/ \E k \in Client : HandleAPIMessage(k)
         \/ \E k \in Client : WriteNothing(k)
         \/ \E k \in Client : Write(k)
         \/ \E k \in Client : WriteFails(k)
         \/ \E k \in Client : Connect(k) \/ Leave(k)
         \/ \E k \in Client, m \in Message : Send(k, m)
         \/ \E i \in DOMAIN pending : Answer(i)
         \/ \E n \in Descriptor : OpenElsewhere(n) \/ CloseElsewhere(n)
         \/ UNCHANGED vars
BY DEF Next, Loop

\* Events made of the elements of a list.
LEMMA TaggedElements ==
  ASSUME NEW X, NEW q \in Seq(X), NEW how, NEW t, DOMAIN t = DOMAIN q,
         \A i \in DOMAIN q : t[i] = <<how, q[i]>>
  PROVE  /\ ToSet(t) = {<<how, x>> : x \in ToSet(q)}
         /\ Once(q) => Once(t)
<1>1. ToSet(t) = {<<how, x>> : x \in ToSet(q)}
  BY DEF ToSet
<1>2. Once(q) => Once(t)
  BY DEF Once
<1>3. QED
  BY <1>1, <1>2

\* What one turn of the loop takes from its lists.
LEMMA FetchFacts ==
  ASSUME TypeOK, Fetch
  PROVE  \E R \in SUBSET ToSet(reads), W \in SUBSET ToSet(writes) :
           /\ \A x \in R \ Client : Readable(x)
           /\ reads' \in Seq(Client \cup {"listen", "port"}) /\ writes' \in Seq(Client)
           /\ ToSet(reads') = ToSet(reads) \ R /\ ToSet(writes') = ToSet(writes) \ W
           /\ Once(reads) => Once(reads')
           /\ Once(writes) => Once(writes')
           /\ readfd' = readfd \ {Number(k) : k \in R \cap Client}
           /\ writefd' = writefd \ {Number(k) : k \in W}
           /\ ready' \in Seq(Events)
           /\ ToSet(ready') = {<<"read", x>> : x \in R} \cup {<<"write", k>> : k \in W}
           /\ Once(reads) /\ Once(writes) => Once(ready')
           /\ ready = <<>>
<1> DEFINE X == Client \cup {"listen", "port"}
           some(R) == Sieve(reads, R)
           rest(R) == Sieve(reads, ToSet(reads) \ R)
           those(W) == Sieve(writes, W)
           left(W) == Sieve(writes, ToSet(writes) \ W)
           fst(R) == [i \in DOMAIN some(R) |-> <<"read", some(R)[i]>>]
           snd(W) == [i \in DOMAIN those(W) |-> <<"write", those(W)[i]>>]
<1>1. reads \in Seq(X) /\ writes \in Seq(Client)
  BY DEF TypeOK
<1>2. PICK R \in SUBSET ToSet(reads), W \in SUBSET ToSet(writes) :
         /\ \A x \in R \ Client : Readable(x)
         /\ ready' = fst(R) \o snd(W)
         /\ reads' = rest(R)
         /\ writes' = left(W)
         /\ readfd' = readfd \ {Number(k) : k \in R \cap Client}
         /\ writefd' = writefd \ {Number(k) : k \in W}
  <2> DEFINE In(r) == r \cup {fd[k] : k \in {c \in Client : fd[c] \in readfd /\ Readable(c)}}
             Out(w) == w \cup (writefd \ others)
             Rd(r) == {x \in ToSet(reads) : IF x \in Client THEN Number(x) \in In(r)
                                            ELSE Readable(x)}
             Wr(w) == {k \in ToSet(writes) : Number(k) \in Out(w)}
  <2>1. PICK r \in SUBSET (readfd \cap others), w \in SUBSET (writefd \cap others) :
           /\ ready' = fst(Rd(r)) \o snd(Wr(w))
           /\ reads' = rest(Rd(r))
           /\ writes' = left(Wr(w))
           /\ readfd' = readfd \ {Number(k) : k \in Rd(r) \cap Client}
           /\ writefd' = writefd \ {Number(k) : k \in Wr(w)}
    BY Zenon DEF Fetch
  <2>2. \A x \in Rd(r) \ Client : Readable(x)
    OBVIOUS
  <2>3. Rd(r) \in SUBSET ToSet(reads) /\ Wr(w) \in SUBSET ToSet(writes)
    OBVIOUS
  <2> HIDE DEF Rd, Wr
  <2>4. QED
    BY <2>1, <2>2, <2>3, Zenon
<1> DEFINE a == some(R)
           b == those(W)
           f == fst(R)
           g == snd(W)
<1>3. ready = <<>>
  BY DEF Fetch
<1>4. /\ a \in Seq(X) /\ ToSet(a) = R /\ (Once(reads) => Once(a))
      /\ b \in Seq(Client) /\ ToSet(b) = W /\ (Once(writes) => Once(b))
  <2>1. /\ a \in Seq(X) /\ ToSet(a) = {x \in ToSet(reads) : x \in R} /\ (Once(reads) => Once(a))
        /\ b \in Seq(Client) /\ ToSet(b) = {x \in ToSet(writes) : x \in W}
        /\ Once(writes) => Once(b)
    <3> HIDE DEF X
    <3>1. QED
      BY <1>1, SieveElements
  <2> HIDE DEF a, b
  <2>2. QED
    BY <2>1
<1>5. /\ reads' \in Seq(X) /\ ToSet(reads') = ToSet(reads) \ R /\ (Once(reads) => Once(reads'))
      /\ writes' \in Seq(Client) /\ ToSet(writes') = ToSet(writes) \ W
      /\ Once(writes) => Once(writes')
  <2> DEFINE P == ToSet(reads) \ R
             Q == ToSet(writes) \ W
  <2>1. /\ reads' \in Seq(X) /\ ToSet(reads') = {x \in ToSet(reads) : x \in P}
        /\ Once(reads) => Once(reads')
        /\ writes' \in Seq(Client) /\ ToSet(writes') = {x \in ToSet(writes) : x \in Q}
        /\ Once(writes) => Once(writes')
    <3>1. reads' = Sieve(reads, P) /\ writes' = Sieve(writes, Q)
      BY <1>2
    <3> HIDE DEF X, P, Q
    <3>2. QED
      BY <1>1, <3>1, SieveElements
  <2>2. QED
    BY <2>1
<1>6. /\ DOMAIN f = DOMAIN a /\ \A i \in DOMAIN a : f[i] = <<"read", a[i]>>
      /\ DOMAIN g = DOMAIN b /\ \A i \in DOMAIN b : g[i] = <<"write", b[i]>>
  OBVIOUS
<1>7. ready' = f \o g
  BY <1>2
<1>8. f = [i \in DOMAIN a |-> f[i]] /\ g = [i \in DOMAIN b |-> g[i]]
  BY Zenon
<1> HIDE DEF a, b, f, g
<1>9. f \in Seq(Events) /\ g \in Seq(Events)
  <2>1. /\ Len(a) \in Nat /\ DOMAIN a = 1 .. Len(a) /\ \A i \in DOMAIN a : a[i] \in X
        /\ Len(b) \in Nat /\ DOMAIN b = 1 .. Len(b) /\ \A i \in DOMAIN b : b[i] \in Client
    BY <1>4
  <2>2. /\ \A x \in X : <<"read", x>> \in Events
        /\ \A x \in Client : <<"write", x>> \in Events
    BY DEF Events, X
  <2>3. \A i \in 1 .. Len(a) : f[i] \in Events
    BY <1>6, <2>1, <2>2
  <2>4. \A i \in 1 .. Len(b) : g[i] \in Events
    BY <1>6, <2>1, <2>2
  <2>5. f \in [1 .. Len(a) -> Events] /\ g \in [1 .. Len(b) -> Events]
    BY <1>8, <2>1, <2>4, <2>3
  <2>6. QED
    BY <2>1, <2>5
<1>10. /\ ToSet(f) = {<<"read", x>> : x \in R} /\ (Once(a) => Once(f))
       /\ ToSet(g) = {<<"write", x>> : x \in W} /\ (Once(b) => Once(g))
  <2> HIDE DEF X
  <2>1. ToSet(f) = {<<"read", x>> : x \in ToSet(a)} /\ (Once(a) => Once(f))
    BY <1>4, <1>6, TaggedElements
  <2>2. ToSet(g) = {<<"write", x>> : x \in ToSet(b)} /\ (Once(b) => Once(g))
    BY <1>4, <1>6, TaggedElements
  <2>3. QED
    BY <1>4, <2>1, <2>2
<1>11. ToSet(f) \cap ToSet(g) = {}
  BY <1>10
<1>12. /\ ready' \in Seq(Events) /\ ToSet(ready') = ToSet(f) \cup ToSet(g)
       /\ Once(f) /\ Once(g) => Once(ready')
  BY <1>7, <1>9, <1>11, JoinElements
<1> HIDE DEF X
<1>13. QED
  BY <1>2, <1>3, <1>4, <1>5, <1>10, <1>12 DEF X

\* An event that runs leaves the ready events.
LEMMA RunsFacts ==
  ASSUME TypeOK, NEW how, NEW x, Runs(how, x)
  PROVE  /\ up
         /\ ready' \in Seq(Events)
         /\ ToSet(ready) = {<<how, x>>} \cup ToSet(ready')
         /\ Once(ready) => Once(ready') /\ <<how, x>> \notin ToSet(ready')
<1>1. ready \in Seq(Events) /\ ready # <<>> /\ Head(ready) = <<how, x>> /\ ready' = Tail(ready)
  BY DEF TypeOK, Runs, Events
<1>2. QED
  BY <1>1, TailElements, SMTT(30) DEF Runs

-----------------------------------------------------------------------------
\* The type of every variable is kept by every action.
LEMMA ResultFacts ==
  ASSUME NEW g \in Gri, NEW a \in BOOLEAN, NEW b \in BOOLEAN
  PROVE  /\ [gri |-> g, grouped |-> a, last |-> b] \in Results
         /\ [gri |-> g, grouped |-> a, last |-> b].gri = g
BY DEF Results

LEMMA ResultsFacts ==
  ASSUME NEW g \in Gri, NEW q \in Seq(Results), NEW r \in Seq(Results), r # <<>>,
         \A i \in DOMAIN r : r[i].gri = g
  PROVE  /\ q \o r \in Seq(Results) /\ q \o r # <<>>
         /\ \A i \in DOMAIN (q \o r) :
              (q \o r)[i].gri = g \/ \E j \in DOMAIN q : (q \o r)[i] = q[j]
<1> DEFINE t == q \o r
           n == Len(r)
<1>1. /\ n \in Nat /\ n # 0 /\ DOMAIN r = 1 .. n /\ DOMAIN q = 1 .. Len(q)
      /\ t \in Seq(Results) /\ Len(t) = Len(q) + n /\ Len(q) \in Nat
      /\ \A i \in 1 .. (Len(q) + n) : t[i] = IF i <= Len(q) THEN q[i] ELSE r[i - Len(q)]
  BY ConcatProperties, LenProperties, EmptySeq
<1> HIDE DEF t, n
<1>2. t # <<>> /\ DOMAIN t = 1 .. (Len(q) + n)
  BY <1>1, EmptySeq, LenProperties
<1>3. ASSUME NEW i \in DOMAIN t
      PROVE  t[i].gri = g \/ \E j \in DOMAIN q : t[i] = q[j]
  <2>1. i \in 1 .. (Len(q) + n)
    BY <1>2
  <2>2. CASE i <= Len(q)
    BY <1>1, <2>1, <2>2
  <2>3. CASE ~(i <= Len(q))
    <3>1. i - Len(q) \in 1 .. n /\ t[i] = r[i - Len(q)]
      BY <1>1, <2>1, <2>3
    <3>2. QED
      BY <1>1, <3>1
  <2>4. QED
    BY <2>2, <2>3
<1>4. QED
  BY <1>1, <1>2, <1>3 DEF t

\* Where a reply goes: to the writer whose reader is at the address, or to nobody.
LEMMA ReplyFacts ==
  ASSUME TypeOK, PortInv, GroupInv, HandleReply
  PROVE  \E g \in Gri :
           /\ replies # <<>> /\ g = Head(replies).gri /\ replies' = Tail(replies)
           /\ replies' \in Seq([gri : Gri, results : Nat])
           /\ clientConn' = [clientConn EXCEPT ![g] = Nobody]
           /\ \/ /\ clientConn[g] = Nobody \/ owner[clientConn[g]] = Nobody
                 /\ up' \in BOOLEAN /\ UNCHANGED <<queue, writes, writefd>>
              \/ \E k \in Client :
                   /\ clientConn[g] \in Address /\ owner[clientConn[g]] = k /\ up' = up
                   /\ queue' = [queue EXCEPT ![k] = queue'[k]]
                   /\ queue'[k] \in Seq(Results) /\ queue'[k] # <<>>
                   /\ \A i \in DOMAIN queue'[k] :
                        queue'[k][i].gri = g \/ \E j \in DOMAIN queue[k] : queue'[k][i] = queue[k][j]
                   /\ IF queue[k] = <<>> THEN ScheduleWriter(k) ELSE UNCHANGED <<writes, writefd>>
<1> DEFINE r == Head(replies)
<1>1. replies # <<>>
  BY RunsFacts DEF HandleReply, PortInv
<1>2. /\ replies \in Seq([gri : Gri, results : Nat])
      /\ replies' = Tail(replies)
      /\ clientConn' = [clientConn EXCEPT ![r.gri] = Nobody]
  BY DEF HandleReply, TypeOK
<1>3. /\ r \in [gri : Gri, results : Nat] /\ replies' \in Seq([gri : Gri, results : Nat])
  BY <1>1, <1>2, HeadTailProperties
<1>4. r.results # 0 /\ r.gri \in Gri /\ r.results \in Nat
  <2>1. 1 \in DOMAIN replies /\ r = replies[1]
    BY <1>1, <1>2
  <2>2. QED
    BY <1>3, <2>1 DEF GroupInv
<1>5. clientConn[r.gri] \in Address \cup {Nobody}
  BY <1>4 DEF TypeOK
<1> HIDE DEF r
<1>6. CASE clientConn[r.gri] = Nobody \/ owner[clientConn[r.gri]] = Nobody
  <2>1. up' \in BOOLEAN /\ UNCHANGED <<queue, writes, writefd>>
    BY <1>6 DEF HandleReply, r
  <2>2. QED
    BY <1>1, <1>2, <1>3, <1>4, <1>6, <2>1 DEF r
<1>7. CASE clientConn[r.gri] # Nobody /\ owner[clientConn[r.gri]] # Nobody
  <2> DEFINE k == owner[clientConn[r.gri]]
  <2>1. clientConn[r.gri] \in Address /\ k \in Client
    BY <1>5, <1>7 DEF TypeOK
  <2>2. PostReplies(k, r) /\ up' = up
    BY <1>7 DEF HandleReply, r
  <2> HIDE DEF k
  <2>3. /\ queue' = [queue EXCEPT ![k] = @ \o [i \in 1 .. r.results |->
                       [gri |-> r.gri, grouped |-> r.results > 1, last |-> r.results \in {1, i}]]]
        /\ IF queue[k] = <<>> THEN ScheduleWriter(k) ELSE UNCHANGED <<writes, writefd>>
    BY <2>2 DEF PostReplies
  <2>4. queue \in [Client -> Seq(Results)]
    BY DEF TypeOK, Results
  <2>5. /\ queue'[k] = queue[k] \o [i \in 1 .. r.results |->
                       [gri |-> r.gri, grouped |-> r.results > 1, last |-> r.results \in {1, i}]]
        /\ queue' = [queue EXCEPT ![k] = queue'[k]]
    BY <2>1, <2>3, <2>4
  <2>6. /\ queue'[k] \in Seq(Results) /\ queue'[k] # <<>>
        /\ \A i \in DOMAIN queue'[k] :
             queue'[k][i].gri = r.gri \/ \E j \in DOMAIN queue[k] : queue'[k][i] = queue[k][j]
    <3> DEFINE new == [i \in 1 .. r.results |->
                        [gri |-> r.gri, grouped |-> r.results > 1, last |-> r.results \in {1, i}]]
    <3>1. queue[k] \in Seq(Results)
      BY <2>1, <2>4
    <3>2. \A i \in 1 .. r.results : (r.results > 1) \in BOOLEAN /\ (r.results \in {1, i}) \in BOOLEAN
      OBVIOUS
    <3>3. \A i \in 1 .. r.results : new[i] \in Results /\ new[i].gri = r.gri
      <4> TAKE i \in 1 .. r.results
      <4>1. new[i] = [gri |-> r.gri, grouped |-> r.results > 1, last |-> r.results \in {1, i}]
        OBVIOUS
      <4> HIDE DEF new
      <4>2. /\ [gri |-> r.gri, grouped |-> r.results > 1, last |-> r.results \in {1, i}] \in Results
            /\ [gri |-> r.gri, grouped |-> r.results > 1, last |-> r.results \in {1, i}].gri = r.gri
        BY <1>4, <3>2, ResultFacts
      <4>3. QED
        BY <4>1, <4>2
    <3>4. queue'[k] = queue[k] \o new /\ DOMAIN new = 1 .. r.results
      BY <2>5
    <3>8. new = [i \in 1 .. r.results |-> new[i]]
      BY Zenon
    <3> HIDE DEF new
    <3>5. new \in Seq(Results) /\ Len(new) = r.results
      <4>1. new \in [1 .. r.results -> Results]
        BY <3>3, <3>8
      <4>2. QED
        BY <1>4, <4>1
    <3>6. new # <<>> /\ \A i \in DOMAIN new : new[i].gri = r.gri
      BY <1>4, <3>3, <3>4, <3>5, EmptySeq
    <3>7. QED
      BY <1>4, <3>1, <3>4, <3>5, <3>6, ResultsFacts
  <2>7. QED
    BY <1>1, <1>2, <1>3, <1>4, <2>1, <2>2, <2>3, <2>5, <2>6 DEF r, k
<1>8. QED
  BY <1>6, <1>7

\* A writer that is scheduled is put into the list or taken to be there.
LEMMA ScheduledTyped ==
  ASSUME TypeOK, NEW k \in Client, ScheduleWriter(k) \/ UNCHANGED <<writes, writefd>>
  PROVE  /\ writes' \in Seq(Client) /\ writefd' \subseteq Descriptor
         /\ writes' = writes \/ writes' = Append(writes, k)
<1>1. writes \in Seq(Client) /\ fd[k] \in Descriptor \cup {Nobody} /\ writefd \subseteq Descriptor
  BY DEF TypeOK
<1>2. /\ writes' = writes \/ writes' = Append(writes, k)
      /\ writefd' = writefd \/ (fd[k] # Nobody /\ writefd' = writefd \cup {fd[k]})
  BY DEF ScheduleWriter, ListedOrNot
<1>3. QED
  BY <1>1, <1>2, AppendProperties

\* The message a reader reads, and where the reader is.
LEMMA MessageFacts ==
  ASSUME TypeOK, ReaderInv, NEW k \in Client, HandleAPIMessage(k)
  PROVE  \E m \in Message :
           /\ m.gri \in Gri /\ m.kind \in Kind
           /\ m = Head(inbox[k])
           /\ inbox[k] # <<>> /\ inbox' \in [Client -> Seq(Message)]
           /\ ReaderOf(k) \in Address /\ owner[ReaderOf(k)] = k
<1>1. inbox[k] \in Seq(Message) /\ inbox[k] # <<>> /\ inbox' = [inbox EXCEPT ![k] = Tail(@)]
  BY DEF TypeOK, HandleAPIMessage
<1>2. Head(inbox[k]) \in Message /\ Tail(inbox[k]) \in Seq(Message)
  BY <1>1, HeadTailProperties
<1>3. \E a \in Address : owner[a] = k
  <2>1. Reading(k)
    BY RunsFacts DEF HandleAPIMessage, Reading
  <2>2. QED
    BY <2>1 DEF ReaderInv
<1>4. inbox' \in [Client -> Seq(Message)]
  BY <1>1, <1>2 DEF TypeOK
<1>5. ReaderOf(k) \in Address /\ owner[ReaderOf(k)] = k
  BY <1>3, Zenon DEF ReaderOf
<1>6. Head(inbox[k]).gri \in Gri /\ Head(inbox[k]).kind \in Kind
  BY <1>2, MessageAssumption
<1>7. QED
  BY <1>1, <1>2, <1>4, <1>5, <1>6

LEMMA TypeStep ==
  ASSUME TypeOK, PortInv, ReaderInv, WriterInv, GroupInv, [Next]_vars
  PROVE  TypeOK'
<1>1. ASSUME Fetch
      PROVE  TypeOK'
  <2>1. /\ ready' \in Seq(Events) /\ reads' \in Seq(Client \cup {"listen", "port"})
        /\ writes' \in Seq(Client) /\ readfd' \subseteq readfd /\ writefd' \subseteq writefd
    BY <1>1, FetchFacts
  <2>2. UNCHANGED <<peer, inbox, sends, got, up, fd, others, owner, queue, group, clientConn,
                    pending, replies, asked, gathering, clash, gone, heirs>>
    BY <1>1 DEF TypeOK, Fetch, client, sockets, core, seen
  <2>3. readfd' \subseteq Descriptor /\ writefd' \subseteq Descriptor
    BY <2>1 DEF TypeOK
  <2>4. QED
    BY <2>1, <2>2, <2>3 DEF TypeOK, Events
<1>2. ASSUME HandleReply
      PROVE  TypeOK'
  <2>1. /\ replies' \in Seq([gri : Gri, results : Nat])
        /\ clientConn' \in [Gri -> Address \cup {Nobody}]
        /\ up' \in BOOLEAN
    <3>1. clientConn \in [Gri -> Address \cup {Nobody}] /\ up \in BOOLEAN
      BY DEF TypeOK
    <3>2. PICK g \in Gri :
             /\ replies' \in Seq([gri : Gri, results : Nat])
             /\ clientConn' = [clientConn EXCEPT ![g] = Nobody]
             /\ up' \in BOOLEAN \/ up' = up
      BY <1>2, ReplyFacts
    <3>3. QED
      BY <3>1, <3>2
  <2>2. queue' \in [Client -> Seq(Results)] /\ writes' \in Seq(Client) /\ writefd' \subseteq Descriptor
    <3>1. CASE UNCHANGED <<queue, writes, writefd>>
      BY <3>1 DEF TypeOK, Results
    <3>2. CASE \E k \in Client :
                 /\ queue' = [queue EXCEPT ![k] = queue'[k]] /\ queue'[k] \in Seq(Results)
                 /\ ScheduleWriter(k) \/ UNCHANGED <<writes, writefd>>
      <4>1. queue \in [Client -> Seq(Results)]
        BY DEF TypeOK, Results
      <4>2. QED
        BY <3>2, <4>1, ScheduledTyped
    <3>3. QED
      BY <1>2, <3>1, <3>2, ReplyFacts
  <2>3. ready' \in Seq(Events) /\ reads' \in Seq(Client \cup {"listen", "port"})
    <3>1. ready' \in Seq(Events)
      BY <1>2, RunsFacts DEF HandleReply
    <3>2. reads' = Append(reads, "port") /\ reads \in Seq(Client \cup {"listen", "port"})
      BY <1>2 DEF HandleReply, TypeOK
    <3>3. QED
      BY <3>1, <3>2
  <2>4. UNCHANGED <<peer, inbox, sends, got, fd, others, owner, readfd, group, pending, asked,
                    gathering, clash, gone, heirs>>
    BY <1>2 DEF TypeOK, HandleReply, client, sockets, seen
  <2>5. QED
    BY <2>1, <2>2, <2>3, <2>4 DEF TypeOK, Events, Results
<1>3. ASSUME NEW k \in Client, Accept(k)
      PROVE  TypeOK'
  <2>1. ready' \in Seq(Events)
    BY <1>3, RunsFacts DEF Accept
  <2>2. PICK n \in Descriptor :
           /\ fd' = [fd EXCEPT ![k] = n]
           /\ reads' = Append(ListedOrNot(reads, k, readfd, n), "listen")
           /\ readfd' = readfd \cup {n}
           /\ heirs' = IF n \in readfd \cup writefd THEN heirs \cup {k} ELSE heirs
    BY <1>3 DEF Accept, Unused
  <2>3. reads' \in Seq(Client \cup {"listen", "port"})
    <3>1. ListedOrNot(reads, k, readfd, n) \in Seq(Client \cup {"listen", "port"})
      BY DEF TypeOK, ListedOrNot
    <3>2. QED
      BY <2>2, <3>1
  <2>4. /\ fd' \in [Client -> Descriptor \cup {Nobody}] /\ readfd' \subseteq Descriptor
        /\ heirs' \subseteq Client
    BY <2>2 DEF TypeOK
  <2>5. /\ owner' \in [Address -> Client \cup {Nobody}]
        /\ peer' \in [Client -> {"away", "connecting", "joined", "left"}]
    BY <1>3 DEF TypeOK, Accept
  <2>6. UNCHANGED <<inbox, sends, got, up, others, queue, writes, writefd, group, clientConn,
                    pending, replies, asked, gathering, clash, gone>>
    BY <1>3 DEF Accept, core, seen
  <2>7. QED
    BY <2>1, <2>3, <2>4, <2>5, <2>6 DEF TypeOK, Events
<1>4. ASSUME NEW k \in Client, ReadFails(k)
      PROVE  TypeOK'
  <2>1. ready' \in Seq(Events)
    BY <1>4, RunsFacts DEF ReadFails
  <2>2. Waiting(k) \subseteq Gri
    BY DEF TypeOK, Waiting
  <2>3. QED
    <3>1. UNCHANGED <<sends, got, up, others, queue, reads, writes, readfd, writefd, group,
                      clientConn, pending, replies, asked, gathering, clash, heirs>>
      BY <1>4 DEF ReadFails, bits, core, seen
    <3>2. /\ fd' \in [Client -> Descriptor \cup {Nobody}]
          /\ owner' \in [Address -> Client \cup {Nobody}]
          /\ gone' \subseteq Gri
      BY <1>4, <2>2 DEF ReadFails, TypeOK
    <3>3. /\ inbox' \in [Client -> Seq(Message)]
          /\ peer' \in [Client -> {"away", "connecting", "joined", "left"}]
      BY <1>4 DEF ReadFails, TypeOK
    <3>4. QED
      BY <2>1, <3>1, <3>2, <3>3 DEF TypeOK, Events
<1>5. ASSUME NEW k \in Client, HandleAPIMessage(k)
      PROVE  TypeOK'
  <2>1. PICK m \in Message :
           /\ m.gri \in Gri /\ m.kind \in Kind /\ m = Head(inbox[k])
           /\ inbox' \in [Client -> Seq(Message)] /\ ReaderOf(k) \in Address
    BY <1>5, MessageFacts
  <2>2. /\ ready' \in Seq(Events) /\ reads' \in Seq(Client \cup {"listen", "port"})
        /\ readfd' \subseteq Descriptor
    <3>1. ready' \in Seq(Events)
      BY <1>5, RunsFacts DEF HandleAPIMessage
    <3>2. /\ reads' \in {reads, Append(reads, k)} /\ reads \in Seq(Client \cup {"listen", "port"})
          /\ fd[k] # Nobody /\ readfd' = readfd \cup {fd[k]}
      BY <1>5 DEF HandleAPIMessage, TypeOK, ListedOrNot
    <3>3. readfd' \subseteq Descriptor
      BY <3>2 DEF TypeOK
    <3>4. QED
      BY <3>1, <3>2, <3>3
  <2>3. /\ group' \in [Gri -> Seq(Client)]
        /\ pending' \in Seq([gri : Gri, from : Seq(Client)])
        /\ clientConn' \in [Gri -> Address \cup {Nobody}]
    <3> DEFINE g == m.gri
    <3>7. /\ group \in [Gri -> Seq(Client)] /\ g \in Gri
          /\ pending \in Seq([gri : Gri, from : Seq(Client)])
          /\ clientConn \in [Gri -> Address \cup {Nobody}] /\ ReaderOf(k) \in Address
      BY <2>1 DEF TypeOK
    <3> HIDE DEF g
    <3>6. ASSUME NEW from \in Seq(Client), Post(k, g, from)
          PROVE  /\ pending' \in Seq([gri : Gri, from : Seq(Client)])
                 /\ clientConn' \in [Gri -> Address \cup {Nobody}]
      BY <3>6, <3>7, AppendProperties DEF Post
    <3>1. CASE HandleSingle(k, m.gri)
      <4>1. <<k>> \in Seq(Client)
        OBVIOUS
      <4>2. QED
        BY <3>1, <3>6, <3>7, <4>1 DEF HandleSingle, g
    <3>2. CASE HandleMember(k, m.gri)
      BY <2>1, <3>2 DEF TypeOK, HandleMember
    <3>3. CASE HandleLast(k, m.gri)
      <4>1. Append(group[g], k) \in Seq(Client)
        BY <3>7, AppendProperties
      <4>2. QED
        <5>1. Post(k, g, Append(group[g], k)) /\ group' = [group EXCEPT ![g] = <<>>]
          BY <3>3 DEF HandleLast, g
        <5>2. group' \in [Gri -> Seq(Client)]
          BY <3>7, <5>1
        <5>3. QED
          BY <3>6, <4>1, <5>1, <5>2
    <3>4. CASE HandleOther
      BY <3>4 DEF TypeOK, HandleOther
    <3>5. QED
      BY <1>5, <2>1, <3>1, <3>2, <3>3, <3>4 DEF TypeOK, HandleAPIMessage
  <2>4. /\ asked' \in [Client -> SUBSET Gri]
        /\ gathering' \in [Gri -> SUBSET Client]
        /\ clash' \subseteq Gri
    <3>1. Observe(k, m)
      BY <1>5, <2>1 DEF TypeOK, HandleAPIMessage
    <3>2. CASE m.kind = "other"
      BY <3>1, <3>2 DEF TypeOK, Observe, seen
    <3>3. CASE m.kind # "other"
      <4>1. /\ asked' = [asked EXCEPT ![k] = @ \cup {m.gri}]
            /\ \E G \in SUBSET Client : gathering' = [gathering EXCEPT ![m.gri] = G]
            /\ clash' \in {clash, clash \cup {m.gri}}
        <5>1. gathering[m.gri] \subseteq Client
          BY <2>1 DEF TypeOK
        <5>2. QED
          BY <3>1, <3>3, <5>1 DEF Observe
      <4>2. QED
        BY <2>1, <4>1 DEF TypeOK
    <3>4. QED
      BY <3>2, <3>3
  <2>5. UNCHANGED <<peer, sends, got, up, fd, others, owner, queue, writes, writefd, replies, gone,
                    heirs>>
    BY <1>5 DEF TypeOK, HandleAPIMessage, sockets
  <2>6. QED
    BY <2>1, <2>2, <2>3, <2>4, <2>5 DEF TypeOK, Events
<1>6. ASSUME NEW k \in Client, WriteNothing(k)
      PROVE  TypeOK'
  <2>1. ready' \in Seq(Events)
    BY <1>6, RunsFacts DEF WriteNothing
  <2>2. UNCHANGED <<peer, inbox, sends, got, up, fd, others, owner, queue, reads, writes, readfd,
                    writefd, group, clientConn, pending, replies, asked, gathering, clash, gone,
                    heirs>>
    BY <1>6 DEF TypeOK, WriteNothing, client, sockets, bits, core, seen
  <2>3. QED
    BY <2>1, <2>2 DEF TypeOK, Events
<1>7. ASSUME NEW k \in Client, Write(k)
      PROVE  TypeOK'
  <2>1. ready' \in Seq(Events) /\ <<"write", k>> \in ToSet(ready)
    <3>1. Runs("write", k)
      BY <1>7 DEF Write
    <3>2. QED
      BY <3>1, RunsFacts
  <2>2. queue[k] # <<>> /\ queue[k] \in Seq(Results) /\ got[k] \in Seq(Results)
    BY <2>1 DEF TypeOK, WriterInv, Writing, Results
  <2>3. Head(queue[k]) \in Results /\ Tail(queue[k]) \in Seq(Results)
    BY <2>2, HeadTailProperties
  <2>4. queue' \in [Client -> Seq(Results)] /\ got' \in [Client -> Seq(Results)]
    <3>1. /\ queue \in [Client -> Seq(Results)] /\ got \in [Client -> Seq(Results)]
          /\ queue' = [queue EXCEPT ![k] = Tail(@)]
          /\ got' = [got EXCEPT ![k] = Append(@, Head(queue[k]))]
      BY <1>7 DEF TypeOK, Write, Results
    <3>2. Append(got[k], Head(queue[k])) \in Seq(Results)
      BY <2>2, <2>3, AppendProperties
    <3>3. QED
      BY <2>3, <3>1, <3>2
  <2>5. writes' \in Seq(Client) /\ writefd' \subseteq Descriptor
    <3>1. ScheduleWriter(k) \/ UNCHANGED <<writes, writefd>>
      BY <1>7 DEF Write
    <3>2. QED
      BY <3>1, ScheduledTyped
  <2>6. UNCHANGED <<peer, inbox, sends, up, fd, others, owner, reads, readfd, group, clientConn,
                    pending, replies, asked, gathering, clash, gone, heirs>>
    BY <1>7 DEF TypeOK, Write, client, sockets, core, seen
  <2>7. QED
    BY <2>1, <2>4, <2>5, <2>6 DEF TypeOK, Events, Results
<1>8. ASSUME NEW k \in Client, WriteFails(k)
      PROVE  TypeOK'
  <2>1. ready' \in Seq(Events) /\ <<"write", k>> \in ToSet(ready)
    <3>1. Runs("write", k)
      BY <1>8 DEF WriteFails
    <3>2. QED
      BY <3>1, RunsFacts
  <2>2. queue[k] # <<>> /\ queue[k] \in Seq(Results)
    BY <2>1 DEF TypeOK, WriterInv, Writing, Results
  <2>3. Tail(queue[k]) \in Seq(Results)
    BY <2>2, HeadTailProperties
  <2>4. queue' \in [Client -> Seq(Results)]
    BY <1>8, <2>2, <2>3 DEF TypeOK, WriteFails, Results
  <2>5. Waiting(k) \subseteq Gri
    BY DEF TypeOK, Waiting
  <2>6. fd' \in [Client -> Descriptor \cup {Nobody}] /\ gone' \subseteq Gri
    BY <1>8, <2>5 DEF TypeOK, WriteFails
  <2>7. UNCHANGED <<peer, inbox, sends, got, up, others, owner, reads, writes, readfd, writefd, group,
                    clientConn, pending, replies, asked, gathering, clash, heirs>>
    BY <1>8 DEF TypeOK, WriteFails, client, bits, core, seen
  <2>8. QED
    BY <2>1, <2>4, <2>6, <2>7 DEF TypeOK, Events, Results
<1>9. ASSUME NEW k \in Client, Connect(k) \/ Leave(k)
      PROVE  TypeOK'
  BY <1>9 DEF TypeOK, Connect, Leave, sockets, loop, bits, core, seen
<1>10. ASSUME NEW k \in Client, NEW m \in Message, Send(k, m)
       PROVE  TypeOK'
  <2>1. inbox' \in [Client -> Seq(Message)]
    BY <1>10 DEF TypeOK, Send
  <2>2. sends' \in 0 .. MaxSends
    BY <1>10, BoundAssumption DEF TypeOK, Send
  <2>3. QED
    BY <1>10, <2>1, <2>2 DEF TypeOK, Send, sockets, loop, bits, core, seen
<1>11. ASSUME NEW i \in DOMAIN pending, Answer(i)
       PROVE  TypeOK'
  <2>1. pending' \in Seq([gri : Gri, from : Seq(Client)])
    <3>1. pending \in Seq([gri : Gri, from : Seq(Client)]) /\ pending' = RemoveAt(pending, i)
      BY <1>11 DEF Answer, TypeOK
    <3>2. QED
      BY <1>11, <3>1, RemoveAtElements
  <2>2. replies' \in Seq([gri : Gri, results : Nat])
    <3>1. pending[i].gri \in Gri /\ Len(pending[i].from) \in Nat
      <4>3. pending \in Seq([gri : Gri, from : Seq(Client)])
        BY DEF TypeOK
      <4>1. pending[i] \in [gri : Gri, from : Seq(Client)]
        <5> DEFINE R == [gri : Gri, from : Seq(Client)]
        <5> HIDE DEF R
        <5>1. pending \in Seq(R) /\ i \in DOMAIN pending => pending[i] \in R
          OBVIOUS
        <5>2. QED
          BY <1>11, <4>3, <5>1 DEF R
      <4>2. QED
        BY <4>1
    <3>2. PICK n \in {1, Len(pending[i].from)} :
             replies' = Append(replies, [gri |-> pending[i].gri, results |-> n])
      BY <1>11 DEF TypeOK, Answer
    <3>3. n \in Nat
      BY <3>1
    <3>4. [gri |-> pending[i].gri, results |-> n] \in [gri : Gri, results : Nat]
      BY <3>1, <3>3
    <3>5. replies \in Seq([gri : Gri, results : Nat])
      BY DEF TypeOK
    <3>6. QED
      BY <3>2, <3>4, <3>5, AppendProperties
  <2>3. QED
    BY <1>11, <2>1, <2>2 DEF TypeOK, Answer, client, sockets, loop, bits, seen
<1>12. ASSUME UNCHANGED vars
       PROVE  TypeOK'
  BY <1>12 DEF TypeOK, vars, client, sockets, loop, bits, core, seen
<1>13. ASSUME NEW k \in Client, ReadNothing(k)
       PROVE  TypeOK'
  <2>1. ready' \in Seq(Events)
    BY <1>13, RunsFacts DEF ReadNothing
  <2>2. owner' \in [Address -> Client \cup {Nobody}]
    BY <1>13 DEF ReadNothing, TypeOK
  <2>3. UNCHANGED <<peer, inbox, sends, got, up, fd, others, queue, reads, writes, readfd, writefd,
                    group, clientConn, pending, replies, asked, gathering, clash, gone, heirs>>
    BY <1>13 DEF ReadNothing, client, sockets, bits, core, seen
  <2>4. QED
    BY <2>1, <2>2, <2>3 DEF TypeOK, Events
<1>14. ASSUME NEW n \in Descriptor, OpenElsewhere(n) \/ CloseElsewhere(n)
       PROVE  TypeOK'
  BY <1>14 DEF TypeOK, OpenElsewhere, CloseElsewhere, client, loop, bits, core, seen
<1>15. QED
  BY <1>1, <1>2, <1>3, <1>4, <1>5, <1>6, <1>7, <1>8, <1>9, <1>10, <1>11, <1>12, <1>13, <1>14,
     StepCases

-----------------------------------------------------------------------------
\* The lists of the loop.
Readers == Client \cup {"listen", "port"}

\* One event runs at a time.
LEMMA OneRuns ==
  ASSUME NEW how, NEW x, NEW way, NEW y, Runs(how, x), Runs(way, y)
  PROVE  how = way /\ x = y
<1>1. <<how, x>> = <<way, y>>
  BY DEF Runs
<1>2. <<how, x>>[1] = how /\ <<how, x>>[2] = x /\ <<way, y>>[1] = way /\ <<way, y>>[2] = y
  OBVIOUS
<1>3. QED
  BY <1>1, <1>2

\* What has run and goes back into the list of readers is in one place again.
LEMMA BackFacts ==
  ASSUME TypeOK, OnceInv, NEW x \in Readers, Runs("read", x), reads' = Append(reads, x)
  PROVE  /\ Once(reads') /\ Once(ready') /\ ToSet(reads') = ToSet(reads) \cup {x}
         /\ \A y \in ToSet(reads') : <<"read", y>> \notin ToSet(ready')
<1>1. /\ ToSet(ready) = {<<"read", x>>} \cup ToSet(ready')
      /\ Once(ready') /\ <<"read", x>> \notin ToSet(ready')
  BY RunsFacts DEF OnceInv
<1>2. x \notin ToSet(reads) /\ reads \in Seq(Readers) /\ Once(reads)
  BY <1>1 DEF OnceInv, TypeOK, Readers
<1>3. Once(reads') /\ ToSet(reads') = ToSet(reads) \cup {x}
  BY <1>2, AppendElements
<1>4. QED
  BY <1>1, <1>3 DEF OnceInv

\* What has run and does not go back.
LEMMA GoneFacts ==
  ASSUME TypeOK, OnceInv, NEW how, NEW x, Runs(how, x)
  PROVE  /\ Once(ready') /\ <<how, x>> \notin ToSet(ready')
         /\ ToSet(ready) = {<<how, x>>} \cup ToSet(ready')
         /\ \A y \in ToSet(reads) : <<"read", y>> \notin ToSet(ready')
         /\ \A y \in ToSet(writes) : <<"write", y>> \notin ToSet(ready')
BY RunsFacts DEF OnceInv

\* A writer that is not scheduled can be.
LEMMA ScheduleFacts ==
  ASSUME TypeOK, OnceInv, NEW k \in Client, k \notin ToSet(writes)
  PROVE  Once(Append(writes, k)) /\ ToSet(Append(writes, k)) = ToSet(writes) \cup {k}
BY AppendElements DEF TypeOK, OnceInv

\* The reader and the writer of a new connection are in no list yet.
LEMMA AcceptFacts ==
  ASSUME TypeOK, OnceInv, ReaderInv, NEW k \in Client, Accept(k)
  PROVE  /\ ~Reading(k) /\ Once(reads')
         /\ ToSet(reads') \in {ToSet(reads) \cup {"listen"}, ToSet(reads) \cup {k, "listen"}}
         /\ \A y \in ToSet(reads') : <<"read", y>> \notin ToSet(ready')
<1>1. /\ Runs("read", "listen") /\ peer[k] = "connecting"
      /\ \E s \in {reads, Append(reads, k)} : reads' = Append(s, "listen")
  BY DEF Accept, ListedOrNot
<1>2. ~Reading(k)
  BY <1>1, AddressAssumption DEF ReaderInv
<1>3. /\ "listen" \notin ToSet(reads) /\ <<"read", "listen">> \notin ToSet(ready')
      /\ ToSet(ready') \subseteq ToSet(ready)
  BY <1>1, GoneFacts DEF OnceInv
<1>4. reads \in Seq(Readers) /\ Once(reads) /\ k \in Readers /\ "listen" \in Readers /\ k # "listen"
  BY ClientAssumption DEF TypeOK, OnceInv, Readers
<1>5. k \notin ToSet(reads)
  BY <1>2 DEF Reading
<1>6. PICK s \in {reads, Append(reads, k)} : reads' = Append(s, "listen")
  BY <1>1
<1>7. /\ s \in Seq(Readers) /\ Once(s) /\ ToSet(s) \in {ToSet(reads), ToSet(reads) \cup {k}}
  <2>1. CASE s = reads
    BY <1>4, <2>1
  <2>2. CASE s = Append(reads, k)
    BY <1>4, <1>5, <2>2, AppendElements
  <2>3. QED
    BY <1>6, <2>1, <2>2
<1>8. "listen" \notin ToSet(s)
  BY <1>3, <1>4, <1>7
<1>9. Once(reads') /\ ToSet(reads') = ToSet(s) \cup {"listen"}
  BY <1>4, <1>6, <1>7, <1>8, AppendElements
<1>10. <<"read", k>> \notin ToSet(ready')
  BY <1>2, <1>3 DEF Reading
<1>11. QED
  BY <1>1, <1>2, <1>3, <1>7, <1>9, <1>10, GoneFacts

LEMMA OnceStep ==
  ASSUME TypeOK, OnceInv, PortInv, ReaderInv, WriterInv, GroupInv, [Next]_vars
  PROVE  OnceInv'
<1>1. ASSUME Fetch
      PROVE  OnceInv'
  <2>1. PICK R \in SUBSET ToSet(reads), W \in SUBSET ToSet(writes) :
           /\ ToSet(reads') = ToSet(reads) \ R /\ (Once(reads) => Once(reads'))
           /\ ToSet(writes') = ToSet(writes) \ W /\ (Once(writes) => Once(writes'))
           /\ ToSet(ready') = {<<"read", x>> : x \in R} \cup {<<"write", k>> : k \in W}
           /\ Once(reads) /\ Once(writes) => Once(ready')
    BY <1>1, FetchFacts
  <2>2. Once(reads) /\ Once(writes)
    BY DEF OnceInv
  <2>3. /\ \A x \in ToSet(reads') : <<"read", x>> \notin ToSet(ready')
        /\ \A k \in ToSet(writes') : <<"write", k>> \notin ToSet(ready')
    BY <2>1
  <2>4. QED
    BY <2>1, <2>2, <2>3 DEF OnceInv
<1>2. ASSUME HandleReply
      PROVE  OnceInv'
  <2>1. Runs("read", "port") /\ reads' = Append(reads, "port") /\ "port" \in Readers
    BY <1>2 DEF HandleReply, Readers
  <2>2. CASE writes' = writes
    BY <2>1, <2>2, BackFacts, GoneFacts DEF OnceInv
  <2>3. ASSUME NEW k \in Client, queue[k] = <<>>, writes' = Append(writes, k)
        PROVE  OnceInv'
    <3>1. k \notin ToSet(writes) /\ <<"write", k>> \notin ToSet(ready)
      BY <2>3 DEF WriterInv, Writing
    <3>2. Once(writes') /\ ToSet(writes') = ToSet(writes) \cup {k}
      BY <2>3, <3>1, ScheduleFacts
    <3>3. \A y \in ToSet(writes') : <<"write", y>> \notin ToSet(ready')
      BY <2>1, <3>1, <3>2, GoneFacts
    <3>4. QED
      BY <2>1, <3>2, <3>3, BackFacts DEF OnceInv
  <2>4. \A k \in Client : ScheduleWriter(k) => writes' = writes \/ writes' = Append(writes, k)
    BY ScheduledTyped
  <2>5. QED
    BY <1>2, <2>2, <2>3, <2>4, ReplyFacts
<1>3. ASSUME NEW k \in Client, Accept(k)
      PROVE  OnceInv'
  <2>1. Runs("read", "listen") /\ writes' = writes
    BY <1>3 DEF Accept
  <2>2. QED
    BY <1>3, <2>1, AcceptFacts, GoneFacts DEF OnceInv
<1>4. ASSUME NEW k \in Client, HandleAPIMessage(k)
      PROVE  OnceInv'
  <2>1. /\ Runs("read", k) /\ reads' \in {reads, Append(reads, k)} /\ writes' = writes
        /\ k \in Readers
    BY <1>4 DEF HandleAPIMessage, Readers, ListedOrNot
  <2>2. QED
    BY <2>1, BackFacts, GoneFacts DEF OnceInv
<1>5. ASSUME NEW how, NEW x, Runs(how, x), UNCHANGED <<reads, writes>>
      PROVE  OnceInv'
  BY <1>5, GoneFacts DEF OnceInv
<1>6. ASSUME NEW k \in Client, Write(k)
      PROVE  OnceInv'
  <2>1. Runs("write", k) /\ reads' = reads
    BY <1>6 DEF Write
  <2>2. CASE writes' = writes
    BY <1>5, <2>1, <2>2
  <2>3. CASE writes' = Append(writes, k)
    <3>1. k \notin ToSet(writes) /\ <<"write", k>> \notin ToSet(ready')
      BY <2>1, GoneFacts DEF OnceInv
    <3>2. Once(writes') /\ ToSet(writes') = ToSet(writes) \cup {k}
      BY <2>3, <3>1, ScheduleFacts
    <3>3. QED
      BY <2>1, <3>1, <3>2, GoneFacts DEF OnceInv
  <2>4. QED
    BY <1>6, <2>2, <2>3, ScheduledTyped DEF Write
<1>7. CASE UNCHANGED <<reads, writes, ready>>
  BY <1>7 DEF OnceInv
<1>8. \A k \in Client : ReadFails(k) \/ ReadNothing(k) => Runs("read", k) /\ UNCHANGED <<reads, writes>>
  BY DEF ReadFails, ReadNothing
<1>9. \A k \in Client : WriteNothing(k) \/ WriteFails(k) => Runs("write", k) /\ UNCHANGED <<reads, writes>>
  BY DEF WriteNothing, WriteFails
<1>10. \/ \E k \in Client : Connect(k) \/ Leave(k)
       \/ \E k \in Client, m \in Message : Send(k, m)
       \/ \E i \in DOMAIN pending : Answer(i)
       \/ \E n \in Descriptor : OpenElsewhere(n) \/ CloseElsewhere(n)
       \/ UNCHANGED vars
       => UNCHANGED <<reads, writes, ready>>
  BY DEF Connect, Leave, Send, Answer, OpenElsewhere, CloseElsewhere, vars, loop
<1>11. QED
  BY <1>1, <1>2, <1>3, <1>4, <1>5, <1>6, <1>7, <1>8, <1>9, <1>10, StepCases

\* The event loop fetches the port for a reply, and only its reader takes it.
LEMMA PortStep ==
  ASSUME TypeOK, OnceInv, PortInv, [Next]_vars
  PROVE  PortInv'
<1>1. CASE Fetch
  <2>1. PICK R \in SUBSET ToSet(reads), W \in SUBSET ToSet(writes) :
           /\ \A x \in R \ Client : Readable(x)
           /\ ToSet(ready') = {<<"read", x>> : x \in R} \cup {<<"write", k>> : k \in W}
    BY <1>1, FetchFacts
  <2>2. "port" \in R => replies # <<>>
    BY <2>1, ClientAssumption DEF Readable
  <2>3. replies' = replies
    BY <1>1 DEF Fetch, core
  <2>4. QED
    BY <2>1, <2>2, <2>3 DEF PortInv
<1>2. CASE HandleReply
  <2>1. Runs("read", "port")
    BY <1>2 DEF HandleReply
  <2>2. QED
    BY <2>1, GoneFacts DEF PortInv
<1>3. ASSUME NEW how, NEW x, Runs(how, x), replies' = replies
      PROVE  PortInv'
  BY <1>3, GoneFacts DEF PortInv
<1>4. \A k \in Client :
        /\ Accept(k) => Runs("read", "listen") /\ replies' = replies
        /\ ReadFails(k) \/ ReadNothing(k) \/ HandleAPIMessage(k) => Runs("read", k) /\ replies' = replies
        /\ WriteNothing(k) \/ Write(k) \/ WriteFails(k) => Runs("write", k) /\ replies' = replies
  BY DEF Accept, ReadFails, ReadNothing, HandleAPIMessage, WriteNothing, Write, WriteFails, core
<1>5. ASSUME NEW i \in DOMAIN pending, Answer(i)
      PROVE  PortInv'
  <2>1. PICK r : replies' = Append(replies, r)
    BY <1>5 DEF Answer
  <2>2. replies' # <<>>
    <3>1. replies \in Seq([gri : Gri, results : Nat])
      BY DEF TypeOK
    <3>2. Len(replies') = Len(replies) + 1 /\ Len(replies) \in Nat
      BY <2>1, <3>1
    <3>3. QED
      BY <3>2
  <2>3. QED
    BY <2>2 DEF PortInv
<1>6. CASE UNCHANGED <<ready, replies>>
  BY <1>6 DEF PortInv
<1>7. \/ \E k \in Client : Connect(k) \/ Leave(k)
      \/ \E k \in Client, m \in Message : Send(k, m)
      \/ \E n \in Descriptor : OpenElsewhere(n) \/ CloseElsewhere(n)
      \/ UNCHANGED vars
      => UNCHANGED <<ready, replies>>
  BY DEF Connect, Leave, Send, OpenElsewhere, CloseElsewhere, vars, loop, core
<1>8. QED
  BY <1>1, <1>2, <1>3, <1>4, <1>5, <1>6, <1>7, StepCases

\* Fetch moves events, and changes nothing of who is to read or to write.
LEMMA FetchMoves ==
  ASSUME TypeOK, Fetch, NEW k \in Client
  PROVE  /\ Reading(k)' <=> Reading(k)
         /\ Writing(k)' <=> Writing(k)
<1>1. PICK R \in SUBSET ToSet(reads), W \in SUBSET ToSet(writes) :
         /\ ToSet(reads') = ToSet(reads) \ R /\ ToSet(writes') = ToSet(writes) \ W
         /\ ToSet(ready') = {<<"read", x>> : x \in R} \cup {<<"write", d>> : d \in W}
         /\ ready = <<>>
  BY FetchFacts
<1>2. ToSet(ready) = {}
  BY <1>1 DEF ToSet
<1>3. Reading(k)' <=> Reading(k)
  BY <1>1, <1>2 DEF Reading
<1>4. Writing(k)' <=> Writing(k)
  BY <1>1, <1>2 DEF Writing
<1>5. QED
  BY <1>3, <1>4

\* A reader that fails was to read, and is no more.
LEMMA FailFacts ==
  ASSUME TypeOK, OnceInv, NEW k \in Client, ReadFails(k) \/ ReadNothing(k)
  PROVE  Reading(k) /\ ~ Reading(k)'
<1>1. Runs("read", k) /\ reads' = reads
  BY DEF ReadFails, ReadNothing
<1>2. /\ <<"read", k>> \in ToSet(ready) /\ <<"read", k>> \notin ToSet(ready')
      /\ k \notin ToSet(reads)
  BY <1>1, GoneFacts DEF OnceInv
<1>3. QED
  BY <1>1, <1>2 DEF Reading

\* Who is to read after a step was before, or has just been accepted.
LEMMA ReadingFacts ==
  ASSUME TypeOK, OnceInv, ReaderInv, [Next]_vars, NEW k \in Client
  PROVE  Reading(k)' => Reading(k) \/ Accept(k)
<1>1. CASE Fetch
  BY <1>1, FetchMoves
<1>2. CASE HandleReply
  <2>1. Runs("read", "port") /\ reads' = Append(reads, "port") /\ "port" \in Readers
    BY <1>2 DEF HandleReply, Readers
  <2>2. k # "port"
    BY ClientAssumption
  <2>3. ToSet(reads') = ToSet(reads) \cup {"port"} /\ ToSet(ready') \subseteq ToSet(ready)
    BY <2>1, BackFacts, GoneFacts
  <2>4. QED
    BY <2>2, <2>3 DEF Reading
<1>3. ASSUME NEW d \in Client, Accept(d)
      PROVE  Reading(k)' => Reading(k) \/ Accept(k)
  <2>1. Runs("read", "listen") /\ k # "listen"
    BY <1>3, ClientAssumption DEF Accept
  <2>2. /\ ToSet(reads') \in {ToSet(reads) \cup {"listen"}, ToSet(reads) \cup {d, "listen"}}
        /\ ToSet(ready') \subseteq ToSet(ready)
    BY <1>3, <2>1, AcceptFacts, GoneFacts
  <2>3. k # d => (Reading(k)' => Reading(k))
    BY <2>1, <2>2 DEF Reading
  <2>4. QED
    BY <1>3, <2>3
<1>4. ASSUME NEW d \in Client, HandleAPIMessage(d)
      PROVE  Reading(k)' => Reading(k)
  <2>1. Runs("read", d) /\ reads' \in {reads, Append(reads, d)} /\ d \in Readers
    BY <1>4 DEF HandleAPIMessage, Readers, ListedOrNot
  <2>2. /\ ToSet(reads') \subseteq ToSet(reads) \cup {d} /\ <<"read", d>> \in ToSet(ready)
        /\ ToSet(ready') \subseteq ToSet(ready)
    BY <2>1, BackFacts, GoneFacts
  <2>3. QED
    BY <2>2 DEF Reading
<1>5. ASSUME NEW how, NEW x, Runs(how, x), reads' = reads
      PROVE  Reading(k)' => Reading(k)
  <2>1. ToSet(ready') \subseteq ToSet(ready)
    BY <1>5, GoneFacts
  <2>2. QED
    BY <1>5, <2>1 DEF Reading
<1>6. CASE UNCHANGED <<reads, ready>>
  BY <1>6 DEF Reading
<1>7. \A d \in Client :
        /\ ReadFails(d) \/ ReadNothing(d) => Runs("read", d) /\ reads' = reads
        /\ WriteNothing(d) \/ Write(d) \/ WriteFails(d) => Runs("write", d) /\ reads' = reads
  BY DEF ReadFails, ReadNothing, WriteNothing, Write, WriteFails
<1>8. \/ \E d \in Client : Connect(d) \/ Leave(d)
      \/ \E d \in Client, m \in Message : Send(d, m)
      \/ \E i \in DOMAIN pending : Answer(i)
      \/ \E n \in Descriptor : OpenElsewhere(n) \/ CloseElsewhere(n)
      \/ UNCHANGED vars
      => UNCHANGED <<reads, ready>>
  BY DEF Connect, Leave, Send, Answer, OpenElsewhere, CloseElsewhere, vars, loop
<1>9. QED
  BY <1>1, <1>2, <1>3, <1>4, <1>5, <1>6, <1>7, <1>8, StepCases

\* A reader that runs leaves the writers alone; a writer that runs is done until it is
\* scheduled again.
LEMMA WritingFacts ==
  ASSUME TypeOK, OnceInv, NEW how, NEW x, Runs(how, x), writes' = writes
  PROVE  \A k \in Client : Writing(k)' <=> Writing(k) /\ <<how, x>> # <<"write", k>>
<1> TAKE k \in Client
<1>1. /\ ToSet(ready) = {<<how, x>>} \cup ToSet(ready') /\ <<how, x>> \notin ToSet(ready')
      /\ k \in ToSet(writes) => <<"write", k>> \notin ToSet(ready)
  BY GoneFacts DEF OnceInv
<1> DEFINE e == <<"write", k>>
           f == <<how, x>>
<1>2. /\ Writing(k) <=> k \in ToSet(writes) \/ e \in ToSet(ready)
      /\ Writing(k)' <=> k \in ToSet(writes) \/ e \in ToSet(ready')
  BY DEF Writing
<1>3. /\ ToSet(ready) = {f} \cup ToSet(ready') /\ f \notin ToSet(ready')
      /\ k \in ToSet(writes) => e \notin ToSet(ready)
  BY <1>1
<1> HIDE DEF e, f
<1>4. Writing(k)' <=> Writing(k) /\ f # e
  BY <1>2, <1>3
<1>5. QED
  BY <1>4 DEF e, f

\* Of the others nothing is put into the list of writers by what runs.
LEMMA WritingMoves ==
  ASSUME TypeOK, OnceInv, NEW how, NEW x, Runs(how, x), NEW k \in Client,
         writes' = writes \/ writes' = Append(writes, k)
  PROVE  \A d \in Client : d # k /\ Writing(d)' => Writing(d)
<1>1. ToSet(writes') \subseteq ToSet(writes) \cup {k}
  <2>1. writes \in Seq(Client)
    BY DEF TypeOK
  <2>2. ToSet(Append(writes, k)) = ToSet(writes) \cup {k}
    BY <2>1, AppendElements
  <2>3. QED
    BY <2>2
<1>2. ToSet(ready') \subseteq ToSet(ready)
  BY GoneFacts
<1>3. QED
  BY <1>1, <1>2 DEF Writing

LEMMA WriterStep ==
  ASSUME TypeOK, OnceInv, PortInv, ReaderInv, WriterInv, GroupInv, [Next]_vars
  PROVE  WriterInv'
<1>1. ASSUME queue' = queue, \A k \in Client : Writing(k)' => Writing(k)
      PROVE  WriterInv'
  BY <1>1 DEF WriterInv
<1>2. CASE Fetch
  BY <1>1, <1>2, FetchMoves DEF Fetch
<1>3. ASSUME NEW how, NEW x, Runs(how, x), UNCHANGED <<queue, writes>>
      PROVE  WriterInv'
  BY <1>1, <1>3, WritingFacts
<1>4. CASE HandleReply
  <2>1. Runs("read", "port")
    BY <1>4 DEF HandleReply
  <2>2. CASE UNCHANGED <<queue, writes>>
    BY <1>3, <2>1, <2>2
  <2>3. ASSUME NEW k \in Client, queue' = [queue EXCEPT ![k] = queue'[k]], queue'[k] # <<>>,
               writes' = writes \/ writes' = Append(writes, k)
        PROVE  WriterInv'
    <3>1. \A d \in Client : d # k => queue'[d] = queue[d]
      BY <2>3 DEF TypeOK
    <3>2. \A d \in Client : d # k /\ Writing(d)' => Writing(d)
      BY <2>1, <2>3, WritingMoves
    <3>3. QED
      BY <2>3, <3>1, <3>2 DEF WriterInv
  <2>4. \A k \in Client : ScheduleWriter(k) => writes' = writes \/ writes' = Append(writes, k)
    BY ScheduledTyped
  <2>5. QED
    BY <1>4, <2>2, <2>3, <2>4, ReplyFacts
<1>5. ASSUME NEW k \in Client, Write(k) \/ WriteFails(k)
      PROVE  WriterInv'
  <2>1. /\ Runs("write", k)
        /\ \A d \in Client : d # k => queue'[d] = queue[d]
        /\ writes' = writes \/ (queue'[k] # <<>> /\ ScheduleWriter(k))
    BY <1>5 DEF Write, WriteFails, TypeOK
  <2>2. writes' = writes \/ writes' = Append(writes, k)
    BY <2>1, ScheduledTyped
  <2>3. \A d \in Client : d # k /\ Writing(d)' => Writing(d)
    BY <2>1, <2>2, WritingMoves
  <2>4. Writing(k)' => queue'[k] # <<>>
    <3>1. CASE writes' = writes
      BY <2>1, <3>1, WritingFacts
    <3>2. QED
      BY <2>1, <3>1
  <2>5. QED
    BY <2>1, <2>3, <2>4 DEF WriterInv
<1>6. CASE UNCHANGED <<queue, writes, ready>>
  BY <1>1, <1>6 DEF Writing
<1>7. \A k \in Client :
        /\ Accept(k) => Runs("read", "listen") /\ UNCHANGED <<queue, writes>>
        /\ ReadFails(k) \/ ReadNothing(k) \/ HandleAPIMessage(k) =>
             Runs("read", k) /\ UNCHANGED <<queue, writes>>
        /\ WriteNothing(k) => Runs("write", k) /\ UNCHANGED <<queue, writes>>
  BY DEF Accept, ReadFails, ReadNothing, HandleAPIMessage, WriteNothing
<1>8. \/ \E d \in Client : Connect(d) \/ Leave(d)
      \/ \E d \in Client, m \in Message : Send(d, m)
      \/ \E i \in DOMAIN pending : Answer(i)
      \/ \E n \in Descriptor : OpenElsewhere(n) \/ CloseElsewhere(n)
      \/ UNCHANGED vars
      => UNCHANGED <<queue, writes, ready>>
  BY DEF Connect, Leave, Send, Answer, OpenElsewhere, CloseElsewhere, vars, loop
<1>9. QED
  BY <1>2, <1>3, <1>4, <1>5, <1>6, <1>7, <1>8, StepCases

-----------------------------------------------------------------------------
\* The numbers of the connections, and what the loop has of them.

\* What runs leaves the other connections as they are, as long as it sets and puts into the
\* lists nothing of theirs.
LEMMA OthersAwake ==
  ASSUME TypeOK, OnceInv, AwakeInv, NEW how, NEW x, Runs(how, x),
         NEW d \in Client \ heirs, x # d, fd[d] # Nobody, fd'[d] = fd[d],
         queue'[d] = queue[d], NEW S, fd[d] \notin S,
         readfd' \subseteq readfd \cup S, writefd' \subseteq writefd \cup S,
         ToSet(reads) \subseteq ToSet(reads'), ToSet(writes) \subseteq ToSet(writes')
  PROVE  Awake(d)'
<1>1. Awake(d)
  BY DEF AwakeInv
<1>2. ToSet(ready) = {<<how, x>>} \cup ToSet(ready')
  BY GoneFacts
<1>3. <<how, x>> # <<"read", d>> /\ <<how, x>> # <<"write", d>>
  OBVIOUS
<1>4. /\ <<"read", d>> \in ToSet(ready) => <<"read", d>> \in ToSet(ready')
      /\ <<"write", d>> \in ToSet(ready) => <<"write", d>> \in ToSet(ready')
  <2> DEFINE e == <<how, x>>
             f == <<"read", d>>
             g == <<"write", d>>
  <2>1. ToSet(ready) = {e} \cup ToSet(ready') /\ e # f /\ e # g
    BY <1>2, <1>3
  <2> HIDE DEF e, f, g
  <2>2. /\ f \in ToSet(ready) => f \in ToSet(ready')
        /\ g \in ToSet(ready) => g \in ToSet(ready')
    BY <2>1
  <2>3. QED
    BY <2>2 DEF f, g
<1>5. QED
  BY <1>1, <1>4 DEF Awake, Reading, Writing

\* What goes to the end of a list leaves the others in it.
LEMMA EndOfLists ==
  ASSUME TypeOK, NEW k \in Client
  PROVE  /\ ToSet(Append(writes, k)) = ToSet(writes) \cup {k}
         /\ ToSet(Append(reads, k)) = ToSet(reads) \cup {k}
         /\ ToSet(Append(reads, "port")) = ToSet(reads) \cup {"port"}
         /\ ToSet(Append(reads, "listen")) = ToSet(reads) \cup {"listen"}
         /\ ToSet(Append(Append(reads, k), "listen")) = ToSet(reads) \cup {k, "listen"}
<1>1. reads \in Seq(Readers) /\ writes \in Seq(Client)
  BY DEF TypeOK, Readers
<1>2. k \in Readers /\ "port" \in Readers /\ "listen" \in Readers
  BY DEF Readers
<1>3. Append(reads, k) \in Seq(Readers) /\ ToSet(Append(reads, k)) = ToSet(reads) \cup {k}
  BY <1>1, <1>2, AppendElements
<1>4. ToSet(Append(Append(reads, k), "listen")) = ToSet(reads) \cup {k, "listen"}
  <2> DEFINE q == Append(reads, k)
  <2>1. q \in Seq(Readers) /\ ToSet(q) = ToSet(reads) \cup {k}
    BY <1>3
  <2> HIDE DEF q
  <2>2. ToSet(Append(q, "listen")) = ToSet(q) \cup {"listen"}
    BY <1>2, <2>1, AppendElements
  <2>3. ToSet(Append(q, "listen")) = ToSet(reads) \cup {k, "listen"}
    BY <2>1, <2>2
  <2>4. QED
    BY <2>3 DEF q
<1>5. ToSet(Append(writes, k)) = ToSet(writes) \cup {k}
  BY <1>1, AppendElements
<1>6. ToSet(Append(reads, "port")) = ToSet(reads) \cup {"port"}
  BY <1>1, <1>2, AppendElements
<1>7. ToSet(Append(reads, "listen")) = ToSet(reads) \cup {"listen"}
  BY <1>1, <1>2, AppendElements
<1>8. QED
  BY <1>3, <1>4, <1>5, <1>6, <1>7

\* A writer that is in no list is awake as soon as it is scheduled.
LEMMA ScheduleWakes ==
  ASSUME TypeOK, NEW k \in Client, fd[k] # Nobody, fd[k] \notin writefd, ScheduleWriter(k)
  PROVE  /\ ToSet(writes') = ToSet(writes) \cup {k}
         /\ writefd' = writefd \cup {fd[k]}
BY EndOfLists DEF ScheduleWriter, ListedOrNot

\* Scheduling a writer leaves the others.
LEMMA ScheduleLeaves ==
  ASSUME TypeOK, NEW k \in Client, ScheduleWriter(k) \/ UNCHANGED <<writes, writefd>>
  PROVE  ToSet(writes) \subseteq ToSet(writes') /\ writefd' \subseteq writefd \cup {fd[k]}
BY EndOfLists DEF ScheduleWriter, ListedOrNot

LEMMA AwakeStep ==
  ASSUME TypeOK, OnceInv, PortInv, ReaderInv, WriterInv, AwakeInv, GroupInv, [Next]_vars
  PROVE  AwakeInv'
<1> DEFINE Apart == \A k, d \in Client : fd[k] = fd[d] /\ fd[k] # Nobody => k = d
           Wakes(d) == d \notin heirs /\ fd[d] # Nobody => Awake(d)
<1>1. Apart /\ \A d \in Client : Wakes(d)
  BY DEF AwakeInv
<1>2. ASSUME Apart', \A d \in Client : Wakes(d)'
      PROVE  AwakeInv'
  BY <1>2 DEF AwakeInv
<1>3. ASSUME \A k \in Client : fd'[k] \in {fd[k], Nobody}
      PROVE  Apart'
  BY <1>1, <1>3
<1> HIDE DEF Apart
<1>4. ASSUME UNCHANGED <<fd, queue, reads, writes, ready, readfd, writefd, heirs>>
      PROVE  AwakeInv'
  <2>1. Apart'
    BY <1>3, <1>4
  <2>2. \A d \in Client : Wakes(d)'
    BY <1>1, <1>4 DEF Awake, Reading, Writing
  <2>3. QED
    BY <1>2, <2>1, <2>2
<1>5. CASE Fetch
  <2>1. UNCHANGED <<fd, queue, heirs>>
    BY <1>5 DEF Fetch, sockets
  <2>2. PICK R \in SUBSET ToSet(reads), W \in SUBSET ToSet(writes) :
           /\ ToSet(reads') = ToSet(reads) \ R /\ ToSet(writes') = ToSet(writes) \ W
           /\ readfd' = readfd \ {Number(k) : k \in R \cap Client}
           /\ writefd' = writefd \ {Number(k) : k \in W}
    BY <1>5, FetchFacts
  <2>3. ASSUME NEW d \in Client, d \notin heirs, fd[d] # Nobody
        PROVE  Awake(d)'
    <3>1. Awake(d) /\ Number(d) = fd[d]
      BY <1>1, <2>3 DEF Number
    <3>2. fd[d] \in readfd' => d \in ToSet(reads')
      BY <2>2, <3>1 DEF Awake
    <3>3. fd[d] \in writefd' => d \in ToSet(writes')
      BY <2>2, <3>1 DEF Awake
    <3>4. Reading(d)' /\ (queue[d] # <<>> => Writing(d)')
      BY <1>5, <3>1, FetchMoves DEF Awake
    <3>5. QED
      BY <2>1, <3>2, <3>3, <3>4 DEF Awake
  <2>4. Apart'
    BY <1>3, <2>1
  <2>5. QED
    BY <1>2, <2>1, <2>3, <2>4
<1>6. ASSUME NEW how, NEW x, Runs(how, x), NEW d \in Client, x # d, NEW S, fd[d] \notin S,
             fd'[d] = fd[d], queue'[d] = queue[d],
             readfd' \subseteq readfd \cup S, writefd' \subseteq writefd \cup S,
             ToSet(reads) \subseteq ToSet(reads'), ToSet(writes) \subseteq ToSet(writes'),
             heirs \subseteq heirs'
      PROVE  Wakes(d)'
  BY <1>6, OthersAwake
<1>7. CASE HandleReply
  <2>1. /\ Runs("read", "port") /\ reads' = Append(reads, "port")
        /\ UNCHANGED <<fd, readfd, heirs>>
    BY <1>7 DEF HandleReply, sockets
  <2>2. Apart'
    BY <1>3, <2>1
  <2>3. ASSUME NEW d \in Client, NEW S, fd[d] \notin S, queue'[d] = queue[d],
               writefd' \subseteq writefd \cup S, ToSet(writes) \subseteq ToSet(writes')
        PROVE  Wakes(d)'
    <3>1. ToSet(reads) \subseteq ToSet(reads') /\ "port" # d
      BY <2>1, EndOfLists, ClientAssumption
    <3>2. QED
      BY <1>6, <2>1, <2>3, <3>1
  <2>4. CASE UNCHANGED <<queue, writes, writefd>>
    <3>1. /\ \A d \in Client : queue'[d] = queue[d]
          /\ writefd' \subseteq writefd \cup {} /\ ToSet(writes) \subseteq ToSet(writes')
      BY <2>4
    <3>2. ASSUME NEW d \in Client
          PROVE  Wakes(d)'
      <4>1. fd[d] \notin {}
        OBVIOUS
      <4>2. QED
        BY <2>3, <3>1, <4>1
    <3>3. QED
      BY <1>2, <2>2, <3>2
  <2>5. ASSUME NEW k \in Client, queue' = [queue EXCEPT ![k] = queue'[k]],
               IF queue[k] = <<>> THEN ScheduleWriter(k) ELSE UNCHANGED <<writes, writefd>>
        PROVE  AwakeInv'
    <3>1. /\ ToSet(writes) \subseteq ToSet(writes') /\ writefd' \subseteq writefd \cup {fd[k]}
      BY <2>5, ScheduleLeaves
    <3>2. \A d \in Client : d # k => queue'[d] = queue[d]
      BY <2>5 DEF TypeOK
    <3>3. ASSUME NEW d \in Client, d # k
          PROVE  Wakes(d)'
      <4>1. CASE fd[d] = Nobody
        BY <2>1, <4>1
      <4>2. CASE fd[d] # Nobody
        <5>1. fd[d] \notin {fd[k]}
          BY <1>1, <3>3, <4>2 DEF Apart
        <5>2. QED
          BY <2>3, <3>1, <3>2, <3>3, <5>1
      <4>3. QED
        BY <4>1, <4>2
    <3>4. ASSUME k \notin heirs, fd[k] # Nobody
          PROVE  Awake(k)'
      <4>1. Awake(k)
        BY <1>1, <3>4
      <4>2. ToSet(reads) \subseteq ToSet(reads')
        BY <2>1, EndOfLists
      <4>3. Reading(k)' /\ (Writing(k) => Writing(k)')
        <5>1. ToSet(ready) = {<<"read", "port">>} \cup ToSet(ready') /\ k # "port"
          BY <2>1, GoneFacts, ClientAssumption
        <5>2. <<"read", k>> # <<"read", "port">> /\ <<"write", k>> # <<"read", "port">>
          BY <5>1
        <5>3. QED
          BY <3>1, <4>1, <4>2, <5>1, <5>2 DEF Awake, Reading, Writing
      <4>4. fd'[k] \in readfd' => k \in ToSet(reads')
        BY <2>1, <4>1, <4>2 DEF Awake
      <4>5. CASE queue[k] # <<>>
        BY <2>1, <2>5, <4>1, <4>3, <4>4, <4>5 DEF Awake
      <4>6. CASE queue[k] = <<>>
        <5>1. k \notin ToSet(writes)
          BY <4>6 DEF WriterInv, Writing
        <5>2. fd[k] \notin writefd
          BY <4>1, <5>1 DEF Awake
        <5>3. k \in ToSet(writes')
          BY <2>5, <3>4, <4>6, <5>2, ScheduleWakes
        <5>4. QED
          BY <4>3, <4>4, <5>3 DEF Awake, Writing
      <4>7. QED
        BY <4>5, <4>6
    <3>5. \A d \in Client : Wakes(d)'
      BY <2>1, <3>3, <3>4
    <3>6. QED
      BY <1>2, <2>2, <3>5
  <2>6. QED
    BY <1>7, <2>4, <2>5, ReplyFacts
<1>8. ASSUME NEW k \in Client, Accept(k)
      PROVE  AwakeInv'
  <2>1. PICK n \in Descriptor :
           /\ n \notin Taken
           /\ fd' = [fd EXCEPT ![k] = n]
           /\ reads' = Append(ListedOrNot(reads, k, readfd, n), "listen")
           /\ readfd' = readfd \cup {n}
           /\ heirs' = IF n \in readfd \cup writefd THEN heirs \cup {k} ELSE heirs
    BY <1>8 DEF Accept, IsNext, Unused
  <2>2. Runs("read", "listen") /\ UNCHANGED <<queue, writes, writefd>> /\ queue[k] = <<>>
    BY <1>8 DEF Accept, ReaderInv
  <2>3. /\ fd'[k] = n /\ \A d \in Client : d # k => fd'[d] = fd[d]
        /\ \A d \in Client : fd[d] # n
    BY <2>1 DEF TypeOK, Taken
  <2>4. Apart'
    BY <1>1, <2>3 DEF Apart
  <2>5. ToSet(reads) \subseteq ToSet(reads') /\ (n \notin readfd => k \in ToSet(reads'))
    BY <2>1, EndOfLists DEF ListedOrNot
  <2>6. ASSUME NEW d \in Client, d # k
        PROVE  Wakes(d)'
    <3>1. /\ fd'[d] = fd[d] /\ fd[d] \notin {n} /\ heirs \subseteq heirs' /\ "listen" # d
          /\ writefd' \subseteq writefd \cup {n}
      BY <2>1, <2>2, <2>3, <2>6, ClientAssumption
    <3>2. QED
      BY <1>6, <2>1, <2>2, <2>5, <3>1
  <2>7. ASSUME k \notin heirs'
        PROVE  Awake(k)'
    <3>1. n \notin readfd /\ n \notin writefd
      BY <2>1, <2>7
    <3>2. QED
      BY <2>2, <2>3, <2>5, <3>1 DEF Awake, Reading
  <2>8. \A d \in Client : Wakes(d)'
    BY <2>6, <2>7
  <2>9. QED
    BY <1>2, <2>4, <2>8
<1>9. ASSUME NEW how, NEW k \in Client, Runs(how, k), NEW S, S \subseteq {fd[k]},
             fd'[k] \in {fd[k], Nobody}, \A d \in Client : d # k => fd'[d] = fd[d] /\ queue'[d] = queue[d],
             readfd' \subseteq readfd \cup S, writefd' \subseteq writefd \cup S,
             ToSet(reads) \subseteq ToSet(reads'), ToSet(writes) \subseteq ToSet(writes'),
             heirs' = heirs, Wakes(k)'
      PROVE  AwakeInv'
  <2>1. Apart'
    BY <1>3, <1>9
  <2>2. ASSUME NEW d \in Client, d # k
        PROVE  Wakes(d)'
    <3>1. CASE fd[d] = Nobody
      BY <1>9, <2>2, <3>1
    <3>2. CASE fd[d] # Nobody
      <4>1. fd[d] \notin S
        BY <1>1, <1>9, <2>2, <3>2 DEF Apart
      <4>2. /\ k # d /\ fd'[d] = fd[d] /\ queue'[d] = queue[d] /\ heirs \subseteq heirs'
        BY <1>9, <2>2
      <4>3. QED
        BY <1>6, <1>9, <4>1, <4>2
    <3>3. QED
      BY <3>1, <3>2
  <2>3. QED
    BY <1>2, <1>9, <2>1, <2>2
<1>10. ASSUME NEW how, NEW k \in Client, Runs(how, k), fd'[k] = Nobody,
              \A d \in Client : d # k => fd'[d] = fd[d] /\ queue'[d] = queue[d],
              UNCHANGED <<reads, writes, readfd, writefd, heirs>>
       PROVE  AwakeInv'
  <2>1. Wakes(k)'
    BY <1>10
  <2>2. {} \subseteq {fd[k]} /\ readfd' \subseteq readfd \cup {} /\ writefd' \subseteq writefd \cup {}
    BY <1>10
  <2>3. QED
    BY <1>9, <1>10, <2>1, <2>2
<1>11. ASSUME NEW k \in Client, ReadFails(k) \/ ReadNothing(k) \/ WriteNothing(k) \/ WriteFails(k)
       PROVE  AwakeInv'
  <2>1. /\ fd'[k] = Nobody /\ \A d \in Client : d # k => fd'[d] = fd[d] /\ queue'[d] = queue[d]
        /\ UNCHANGED <<reads, writes, readfd, writefd, heirs>>
    BY <1>11 DEF ReadFails, ReadNothing, WriteNothing, WriteFails, TypeOK, sockets, bits
  <2>2. Runs("read", k) \/ Runs("write", k)
    BY <1>11 DEF ReadFails, ReadNothing, WriteNothing, WriteFails
  <2>3. QED
    BY <1>10, <2>1, <2>2
<1>12. ASSUME NEW k \in Client, HandleAPIMessage(k)
       PROVE  AwakeInv'
  <2>1. /\ Runs("read", k) /\ fd[k] # Nobody
        /\ UNCHANGED <<fd, queue, writes, writefd, heirs>>
        /\ reads' = ListedOrNot(reads, k, readfd, fd[k]) /\ readfd' = readfd \cup {fd[k]}
    BY <1>12 DEF HandleAPIMessage, sockets
  <2>2. ToSet(reads) \subseteq ToSet(reads') /\ (fd[k] \notin readfd => k \in ToSet(reads'))
    BY <2>1, EndOfLists DEF ListedOrNot
  <2>3. ASSUME k \notin heirs
        PROVE  Awake(k)'
    <3>1. Awake(k) /\ k \notin ToSet(reads)
      BY <1>1, <2>1, <2>3, GoneFacts DEF OnceInv
    <3>2. k \in ToSet(reads')
      BY <2>2, <3>1 DEF Awake
    <3>3. Writing(k)' <=> Writing(k)
      BY <2>1, WritingFacts
    <3>4. QED
      BY <2>1, <3>1, <3>2, <3>3 DEF Awake, Reading
  <2>4. Wakes(k)'
    BY <2>1, <2>3
  <2>5. {fd[k]} \subseteq {fd[k]} /\ writefd' \subseteq writefd \cup {fd[k]}
    BY <2>1
  <2>6. QED
    BY <1>9, <2>1, <2>2, <2>4, <2>5
<1>13. ASSUME NEW k \in Client, Write(k)
       PROVE  AwakeInv'
  <2>1. /\ Runs("write", k) /\ fd[k] # Nobody
        /\ UNCHANGED <<fd, reads, readfd, heirs>>
        /\ \A d \in Client : d # k => queue'[d] = queue[d]
        /\ IF queue'[k] # <<>> THEN ScheduleWriter(k) ELSE UNCHANGED <<writes, writefd>>
    BY <1>13 DEF Write, sockets, TypeOK
  <2>2. ToSet(writes) \subseteq ToSet(writes') /\ writefd' \subseteq writefd \cup {fd[k]}
    BY <2>1, ScheduleLeaves
  <2>3. ASSUME k \notin heirs
        PROVE  Awake(k)'
    <3>1. Awake(k) /\ k \notin ToSet(writes) /\ ToSet(ready) = {<<"write", k>>} \cup ToSet(ready')
      BY <1>1, <2>1, <2>3, GoneFacts DEF OnceInv
    <3>2. fd[k] \notin writefd
      BY <3>1 DEF Awake
    <3>3. Reading(k)'
      <4>1. <<"read", k>> # <<"write", k>>
        OBVIOUS
      <4>2. QED
        BY <2>1, <3>1, <4>1 DEF Awake, Reading
    <3>4. CASE queue'[k] # <<>>
      <4>1. k \in ToSet(writes')
        BY <2>1, <3>2, <3>4, ScheduleWakes
      <4>2. QED
        BY <2>1, <3>1, <3>3, <4>1 DEF Awake, Writing
    <3>5. CASE queue'[k] = <<>>
      BY <2>1, <3>1, <3>2, <3>3, <3>5 DEF Awake
    <3>6. QED
      BY <3>4, <3>5
  <2>4. Wakes(k)'
    BY <2>1, <2>3
  <2>5. {fd[k]} \subseteq {fd[k]} /\ readfd' \subseteq readfd \cup {fd[k]}
    BY <2>1
  <2>6. QED
    BY <1>9, <2>1, <2>2, <2>4, <2>5
<1>14. \/ \E d \in Client : Connect(d) \/ Leave(d)
       \/ \E d \in Client, m \in Message : Send(d, m)
       \/ \E i \in DOMAIN pending : Answer(i)
       \/ \E n \in Descriptor : OpenElsewhere(n) \/ CloseElsewhere(n)
       \/ UNCHANGED vars
       => UNCHANGED <<fd, queue, reads, writes, ready, readfd, writefd, heirs>>
  BY DEF Connect, Leave, Send, Answer, OpenElsewhere, CloseElsewhere, vars, sockets, loop, bits
<1>15. QED
  BY <1>4, <1>5, <1>7, <1>8, <1>11, <1>12, <1>13, <1>14, StepCases

\* The readers and their addresses.
LEMMA ReaderStep ==
  ASSUME TypeOK, OnceInv, PortInv, ReaderInv, WriterInv, GroupInv, [Next]_vars
  PROVE  ReaderInv'
<1>1. ASSUME owner' = owner, \A k \in Client : ~Accept(k),
             UNCHANGED <<fd, queue>> \/ \E k \in Client : peer[k] \notin {"away", "connecting"} /\
               \A d \in Client : d # k => queue'[d] = queue[d] /\ fd'[d] = fd[d],
             \A k \in Client : fd'[k] \in {fd[k], Nobody},
             \A k \in Client : \/ peer'[k] = peer[k]
                               \/ peer[k] = "away" /\ peer'[k] = "connecting"
                               \/ peer[k] = "joined" /\ peer'[k] = "left"
      PROVE  ReaderInv'
  <2>1. \A a, b \in Address : owner'[a] = owner'[b] /\ owner'[a] # Nobody => a = b
    BY <1>1 DEF ReaderInv
  <2>2. \A a \in Address : owner'[a] # Nobody => owner[a] \in Client
    BY <1>1 DEF TypeOK
  <2>3. \A a \in Address : owner'[a] # Nobody => peer'[owner'[a]] \in {"joined", "left"}
    BY <1>1, <2>2 DEF ReaderInv
  <2>4. \A k \in Client : Reading(k)' => \E a \in Address : owner'[a] = k
    BY <1>1, ReadingFacts DEF ReaderInv
  <2>5. \A k \in Client : peer'[k] \in {"away", "connecting"} => fd'[k] = Nobody /\ queue'[k] = <<>>
    BY <1>1 DEF ReaderInv
  <2>6. \A k \in Client : fd'[k] # Nobody => \E a \in Address : owner'[a] = k
    BY <1>1 DEF ReaderInv
  <2>7. QED
    BY <2>1, <2>3, <2>4, <2>5, <2>6 DEF ReaderInv
<1>2. ASSUME NEW k \in Client, Accept(k)
      PROVE  ReaderInv'
  <2>1. PICK a \in Address : owner[a] = Nobody /\ owner' = [owner EXCEPT ![a] = k]
    BY <1>2 DEF Accept, Allocates
  <2>2. /\ peer[k] = "connecting" /\ queue' = queue
        /\ peer' = [peer EXCEPT ![k] = "joined"] /\ \E n : fd' = [fd EXCEPT ![k] = n]
    BY <1>2 DEF Accept
  <2>3. /\ owner'[a] = k /\ peer'[k] = "joined"
        /\ \A b \in Address : b # a => owner'[b] = owner[b]
        /\ \A d \in Client : d # k => peer'[d] = peer[d] /\ fd'[d] = fd[d]
    BY <2>1, <2>2 DEF TypeOK
  <2>4. \A b \in Address : owner[b] # k
    BY <2>2, AddressAssumption DEF ReaderInv
  <2>5. \A b, c \in Address : owner'[b] = owner'[c] /\ owner'[b] # Nobody => b = c
    BY <2>1, <2>3, <2>4 DEF ReaderInv
  <2>6. \A b \in Address : owner'[b] # Nobody => peer'[owner'[b]] \in {"joined", "left"}
    <3>1. ASSUME NEW b \in Address, b # a, owner'[b] # Nobody
          PROVE  peer'[owner'[b]] \in {"joined", "left"}
      <4>1. owner'[b] = owner[b] /\ owner[b] \in Client /\ owner[b] # k
        BY <2>3, <2>4, <3>1 DEF TypeOK
      <4>2. QED
        BY <2>3, <3>1, <4>1 DEF ReaderInv
    <3>2. QED
      BY <2>3, <3>1
  <2>7. \A d \in Client : Reading(d)' => \E b \in Address : owner'[b] = d
    <3>1. ASSUME NEW d \in Client, d # k, Reading(d)'
          PROVE  \E b \in Address : owner'[b] = d
      <4>1. ~Accept(d)
        <5>1. ASSUME Accept(d)
              PROVE  FALSE
          <6>1. peer' = [peer EXCEPT ![d] = "joined"] /\ peer[d] = "connecting"
            BY <5>1 DEF Accept
          <6>2. peer'[d] = "joined"
            BY <6>1 DEF TypeOK
          <6>3. QED
            BY <2>3, <3>1, <6>1, <6>2
        <5>2. QED
          BY <5>1
      <4>2. PICK b \in Address : owner[b] = d
        BY <3>1, <4>1, ReadingFacts DEF ReaderInv
      <4>3. b # a
        BY <2>1, <4>2, AddressAssumption
      <4>4. QED
        BY <2>3, <4>2, <4>3
    <3>2. QED
      BY <2>3, <3>1
  <2>8. \A d \in Client : peer'[d] \in {"away", "connecting"} => fd'[d] = Nobody /\ queue'[d] = <<>>
    BY <2>2, <2>3 DEF ReaderInv
  <2>9. \A d \in Client : fd'[d] # Nobody => \E b \in Address : owner'[b] = d
    <3>1. ASSUME NEW d \in Client, d # k, fd'[d] # Nobody
          PROVE  \E b \in Address : owner'[b] = d
      <4>1. PICK b \in Address : owner[b] = d
        BY <2>3, <3>1 DEF ReaderInv
      <4>2. b # a
        BY <2>1, <4>1, AddressAssumption
      <4>3. QED
        BY <2>3, <4>1, <4>2
    <3>2. QED
      BY <2>3, <3>1
  <2>10. QED
    BY <2>5, <2>6, <2>7, <2>8, <2>9 DEF ReaderInv
<1>3. ASSUME NEW k \in Client, ReadFails(k) \/ ReadNothing(k)
      PROVE  ReaderInv'
  <2>1. PICK a \in Address : owner[a] = k /\ owner' = [owner EXCEPT ![a] = Nobody]
    <3>1. \E a \in Address : owner[a] = k
      BY <1>3, FailFacts DEF ReaderInv
    <3>2. ReaderOf(k) \in Address /\ owner[ReaderOf(k)] = k
      BY <3>1, Zenon DEF ReaderOf
    <3>3. QED
      BY <1>3, <3>2 DEF ReadFails, ReadNothing
  <2>2. /\ owner'[a] = Nobody /\ peer'[k] \in {"joined", "left"} /\ queue' = queue
        /\ fd'[k] = Nobody /\ \A b \in Address : b # a => owner'[b] = owner[b]
        /\ \A d \in Client : d # k => peer'[d] = peer[d] /\ fd'[d] = fd[d]
    <3>1. peer[k] \in {"joined", "left"}
      BY <2>1, AddressAssumption DEF ReaderInv
    <3>2. owner'[a] = Nobody /\ queue' = queue /\ \A b \in Address : b # a => owner'[b] = owner[b]
      BY <1>3, <2>1 DEF TypeOK, ReadFails, ReadNothing
    <3>3. /\ peer'[k] \in {"joined", "left"} /\ fd'[k] = Nobody
          /\ \A d \in Client : d # k => peer'[d] = peer[d] /\ fd'[d] = fd[d]
      BY <1>3, <3>1 DEF TypeOK, ReadFails, ReadNothing, client, sockets
    <3>4. QED
      BY <3>2, <3>3
  <2>3. \A b, c \in Address : owner'[b] = owner'[c] /\ owner'[b] # Nobody => b = c
    BY <2>2 DEF ReaderInv
  <2>4. \A b \in Address : owner'[b] # Nobody => peer'[owner'[b]] \in {"joined", "left"}
    <3>1. ASSUME NEW b \in Address, owner'[b] # Nobody
          PROVE  peer'[owner'[b]] \in {"joined", "left"}
      <4>1. owner'[b] = owner[b] /\ owner[b] \in Client
        BY <2>2, <3>1 DEF TypeOK
      <4>2. peer[owner[b]] \in {"joined", "left"}
        BY <3>1, <4>1 DEF ReaderInv
      <4>3. QED
        BY <2>2, <4>1, <4>2
    <3>2. QED
      BY <3>1
  <2>5. \A d \in Client : Reading(d)' => \E b \in Address : owner'[b] = d
    <3>1. ASSUME NEW d \in Client, Reading(d)'
          PROVE  \E b \in Address : owner'[b] = d
      <4>1. d # k
        BY <1>3, <3>1, FailFacts
      <4>2. ~Accept(d)
        <5>1. ASSUME Accept(d)
              PROVE  FALSE
          <6>1. Runs("read", "listen") /\ Runs("read", k)
            BY <1>3, <5>1 DEF Accept, ReadFails, ReadNothing
          <6>2. k = "listen"
            BY <6>1 DEF Runs
          <6>3. QED
            BY <6>2, ClientAssumption
        <5>2. QED
          BY <5>1
      <4>3. PICK b \in Address : owner[b] = d
        BY <3>1, <4>2, ReadingFacts DEF ReaderInv
      <4>4. b # a
        BY <2>1, <4>1, <4>3
      <4>5. QED
        BY <2>2, <4>3, <4>4
    <3>2. QED
      BY <3>1
  <2>6. \A d \in Client : peer'[d] \in {"away", "connecting"} => fd'[d] = Nobody /\ queue'[d] = <<>>
    BY <2>2 DEF ReaderInv
  <2>7. \A d \in Client : fd'[d] # Nobody => \E b \in Address : owner'[b] = d
    <3>1. ASSUME NEW d \in Client, fd'[d] # Nobody
          PROVE  \E b \in Address : owner'[b] = d
      <4>1. PICK b \in Address : owner[b] = d
        BY <2>2, <3>1 DEF ReaderInv
      <4>2. b # a
        BY <2>1, <2>2, <3>1, <4>1
      <4>3. QED
        BY <2>2, <4>1, <4>2
    <3>2. QED
      BY <3>1
  <2>8. QED
    BY <2>3, <2>4, <2>5, <2>6, <2>7 DEF ReaderInv
<1>4. ASSUME NEW how, NEW x, Runs(how, x), x # "listen"
      PROVE  \A k \in Client : ~Accept(k)
  BY <1>4, OneRuns DEF Accept
<1>5. CASE HandleReply
  <2>1. owner' = owner /\ peer' = peer /\ fd' = fd /\ Runs("read", "port")
    BY <1>5 DEF HandleReply, client, sockets
  <2>2. UNCHANGED <<fd, queue>> \/ \E k \in Client : peer[k] \notin {"away", "connecting"} /\
               \A d \in Client : d # k => queue'[d] = queue[d] /\ fd'[d] = fd[d]
    <3>1. CASE UNCHANGED <<queue, writes>>
      BY <2>1, <3>1
    <3>2. ASSUME NEW k \in Client, NEW a \in Address, owner[a] = k,
                 queue' = [queue EXCEPT ![k] = queue'[k]]
          PROVE  /\ peer[k] \notin {"away", "connecting"}
                 /\ \A d \in Client : d # k => queue'[d] = queue[d] /\ fd'[d] = fd[d]
      <4>1. peer[k] \in {"joined", "left"}
        BY <3>2, AddressAssumption DEF ReaderInv
      <4>2. QED
        BY <2>1, <3>2, <4>1 DEF TypeOK
    <3>3. QED
      BY <1>5, <3>1, <3>2, ReplyFacts
  <2>3. QED
    BY <1>1, <1>4, <2>1, <2>2
<1>6. ASSUME NEW k \in Client, Write(k) \/ WriteFails(k)
      PROVE  ReaderInv'
  <2>1. /\ Runs("write", k) /\ owner' = owner /\ peer' = peer
        /\ \A d \in Client : d # k => queue'[d] = queue[d] /\ fd'[d] = fd[d]
    BY <1>6 DEF Write, WriteFails, TypeOK, client, sockets
  <2>2. peer[k] \notin {"away", "connecting"}
    <3>1. queue[k] # <<>>
      BY <2>1, GoneFacts DEF WriterInv, Writing
    <3>2. QED
      BY <3>1 DEF ReaderInv
  <2>3. \A d \in Client : ~Accept(d)
    BY <2>1, OneRuns DEF Accept
  <2>4. \A d \in Client : fd'[d] \in {fd[d], Nobody}
    BY <1>6 DEF Write, WriteFails, TypeOK, sockets
  <2>5. QED
    BY <1>1, <2>1, <2>2, <2>3, <2>4
<1>7. ASSUME UNCHANGED <<owner, peer, fd, queue>>, \A k \in Client : ~Accept(k)
      PROVE  ReaderInv'
  BY <1>1, <1>7
<1>8. ASSUME Fetch
      PROVE  ReaderInv'
  <2>1. UNCHANGED <<owner, peer, fd, queue>> /\ ready = <<>>
    BY <1>8 DEF Fetch, client, sockets
  <2>2. QED
    BY <1>7, <2>1 DEF Accept, Runs
<1>9. ASSUME NEW k \in Client, HandleAPIMessage(k) \/ WriteNothing(k)
      PROVE  ReaderInv'
  <2>1. UNCHANGED <<owner, peer, fd, queue>>
    BY <1>9 DEF HandleAPIMessage, WriteNothing, client, sockets
  <2>2. Runs("read", k) \/ Runs("write", k)
    BY <1>9 DEF HandleAPIMessage, WriteNothing
  <2>3. QED
    BY <1>4, <1>7, <2>1, <2>2, ClientAssumption
<1>10. ASSUME ready' = ready
       PROVE  \A k \in Client : ~Accept(k)
  <2>1. ASSUME NEW k \in Client, Accept(k)
        PROVE  FALSE
    BY <1>10, <2>1, GoneFacts DEF Accept
  <2>2. QED
    BY <2>1
<1>11. ASSUME NEW k \in Client, Connect(k) \/ Leave(k)
       PROVE  ReaderInv'
  <2>1. UNCHANGED <<owner, fd, queue, ready>>
    BY <1>11 DEF Connect, Leave, sockets, loop
  <2>2. \A d \in Client : \/ peer'[d] = peer[d]
                          \/ peer[d] = "away" /\ peer'[d] = "connecting"
                          \/ peer[d] = "joined" /\ peer'[d] = "left"
    BY <1>11 DEF Connect, Leave, TypeOK
  <2>3. QED
    BY <1>1, <1>10, <2>1, <2>2
<1>12. \/ \E d \in Client, m \in Message : Send(d, m)
       \/ \E i \in DOMAIN pending : Answer(i)
       \/ \E n \in Descriptor : OpenElsewhere(n) \/ CloseElsewhere(n)
       \/ UNCHANGED vars
       => UNCHANGED <<owner, peer, fd, queue, ready>>
  BY DEF Send, Answer, OpenElsewhere, CloseElsewhere, vars, client, sockets, loop
<1>13. QED
  BY <1>2, <1>3, <1>5, <1>6, <1>7, <1>8, <1>9, <1>10, <1>11, <1>12, StepCases

-----------------------------------------------------------------------------
\* What is in a list after an element was put at its end, or its first one taken.
LEMMA EndPlaces ==
  ASSUME NEW X, NEW q \in Seq(X), NEW x \in X
  PROVE  \A i \in DOMAIN Append(q, x) :
           \/ i = Len(q) + 1 /\ Append(q, x)[i] = x
           \/ i \in DOMAIN q /\ Append(q, x)[i] = q[i]
BY AppendProperties, LenProperties

LEMMA TailPlaces ==
  ASSUME NEW X, NEW q \in Seq(X), q # <<>>
  PROVE  /\ 1 \in DOMAIN q /\ q[1] = Head(q)
         /\ \A i \in DOMAIN Tail(q) : i + 1 \in DOMAIN q /\ i + 1 # 1 /\ Tail(q)[i] = q[i + 1]
<1> DEFINE n == Len(q)
           t == Tail(q)
<1>1. /\ n \in Nat /\ n # 0 /\ DOMAIN q = 1 .. n /\ DOMAIN t = 1 .. (n - 1)
      /\ \A i \in 1 .. (n - 1) : t[i] = q[i + 1]
      /\ Head(q) = q[1]
  BY HeadTailProperties, LenProperties, EmptySeq
<1> HIDE DEF n, t
<1>2. /\ 1 \in DOMAIN q /\ q[1] = Head(q)
      /\ \A i \in DOMAIN t : i + 1 \in DOMAIN q /\ i + 1 # 1 /\ t[i] = q[i + 1]
  BY <1>1
<1>3. QED
  BY <1>2 DEF t

\* What a message changes: nothing, a group that gets a member, or a request.
LEMMA MessageMoves ==
  ASSUME TypeOK, ReaderInv, NEW k \in Client, HandleAPIMessage(k)
  PROVE  \/ UNCHANGED <<group, pending, clientConn, asked, gathering, clash>>
         \/ \E g \in Gri :
              /\ asked' = [asked EXCEPT ![k] = @ \cup {g}]
              /\ clash' = IF InUse(g) \/ gathering[g] \ {k} # {} THEN clash \cup {g} ELSE clash
              /\ \/ /\ group' = [group EXCEPT ![g] = Append(@, k)]
                    /\ gathering' = [gathering EXCEPT ![g] = @ \cup {k}]
                    /\ UNCHANGED <<pending, clientConn>>
                 \/ /\ clientConn' = [clientConn EXCEPT ![g] = ReaderOf(k)]
                    /\ \E from \in Seq(Client) :
                         /\ pending' = Append(pending, [gri |-> g, from |-> from])
                         /\ \/ from = <<k>> /\ UNCHANGED <<group, gathering>>
                            \/ /\ from = Append(group[g], k)
                               /\ group' = [group EXCEPT ![g] = <<>>]
                               /\ gathering' = [gathering EXCEPT ![g] = {}]
<1>1. PICK m \in Message : m.gri \in Gri /\ m.kind \in Kind /\ m = Head(inbox[k])
  BY MessageFacts
<1> DEFINE g == m.gri
<1>2. /\ Observe(k, m)
      /\ \/ m.kind = "single" /\ HandleSingle(k, g)
         \/ m.kind = "member" /\ HandleMember(k, g)
         \/ m.kind = "last" /\ HandleLast(k, g)
         \/ m.kind = "other" /\ HandleOther
  BY <1>1 DEF HandleAPIMessage
<1>3. g \in Gri /\ gathering \in [Gri -> SUBSET Client] /\ group[g] \in Seq(Client)
  BY <1>1 DEF TypeOK
<1> HIDE DEF g
<1>4. m.kind # "other" =>
        /\ asked' = [asked EXCEPT ![k] = @ \cup {g}]
        /\ clash' = IF InUse(g) \/ gathering[g] \ {k} # {} THEN clash \cup {g} ELSE clash
        /\ gathering' = [gathering EXCEPT ![g] =
             CASE m.kind = "member" -> @ \cup {k} [] m.kind = "last" -> {} [] OTHER -> @]
  BY <1>2 DEF Observe, g
<1>5. CASE m.kind = "single" /\ HandleSingle(k, g)
  <2>1. gathering' = gathering
    BY <1>3, <1>4, <1>5
  <2>2. /\ pending' = Append(pending, [gri |-> g, from |-> <<k>>]) /\ group' = group
        /\ clientConn' = [clientConn EXCEPT ![g] = ReaderOf(k)]
    BY <1>5 DEF HandleSingle, Post
  <2>3. <<k>> \in Seq(Client)
    OBVIOUS
  <2>4. QED
    BY <1>3, <1>4, <1>5, <2>1, <2>2, <2>3
<1>6. CASE m.kind = "member" /\ HandleMember(k, g)
  <2>1. gathering' = [gathering EXCEPT ![g] = @ \cup {k}]
    BY <1>3, <1>4, <1>6
  <2>2. QED
    BY <1>3, <1>4, <1>6, <2>1 DEF HandleMember
<1>7. CASE m.kind = "last" /\ HandleLast(k, g)
  <2>1. gathering' = [gathering EXCEPT ![g] = {}]
    BY <1>3, <1>4, <1>7
  <2>2. /\ pending' = Append(pending, [gri |-> g, from |-> Append(group[g], k)])
        /\ clientConn' = [clientConn EXCEPT ![g] = ReaderOf(k)]
        /\ group' = [group EXCEPT ![g] = <<>>]
    BY <1>7 DEF HandleLast, Post
  <2>3. Append(group[g], k) \in Seq(Client)
    BY <1>3, AppendProperties
  <2>4. QED
    BY <1>3, <1>4, <1>7, <2>1, <2>2, <2>3
<1>8. CASE m.kind = "other" /\ HandleOther
  BY <1>2, <1>8 DEF HandleOther, Observe, seen
<1>9. QED
  BY <1>2, <1>5, <1>6, <1>7, <1>8

\* The histories only grow.
LEMMA Grows ==
  ASSUME TypeOK, ReaderInv, [Next]_vars
  PROVE  /\ clash \subseteq clash' /\ gone \subseteq gone'
         /\ \A k \in Client : asked[k] \subseteq asked'[k]
<1>1. ASSUME NEW k \in Client, HandleAPIMessage(k)
      PROVE  clash \subseteq clash' /\ gone' = gone /\ \A d \in Client : asked[d] \subseteq asked'[d]
  <2>1. gone' = gone
    BY <1>1 DEF HandleAPIMessage
  <2>2. CASE UNCHANGED <<asked, clash>>
    BY <2>1, <2>2
  <2>3. ASSUME NEW g \in Gri, asked' = [asked EXCEPT ![k] = @ \cup {g}],
               clash' = IF InUse(g) \/ gathering[g] \ {k} # {} THEN clash \cup {g} ELSE clash
        PROVE  clash \subseteq clash' /\ \A d \in Client : asked[d] \subseteq asked'[d]
    BY <2>3 DEF TypeOK
  <2>4. QED
    BY <1>1, <2>1, <2>2, <2>3, MessageMoves
<1>2. \/ Fetch
      \/ HandleReply
      \/ \E k \in Client : Accept(k)
      \/ \E k \in Client : ReadNothing(k)
      \/ \E k \in Client : WriteNothing(k)
      \/ \E k \in Client : Write(k)
      \/ \E d \in Client : Connect(d) \/ Leave(d)
      \/ \E d \in Client, m \in Message : Send(d, m)
      \/ \E i \in DOMAIN pending : Answer(i)
      \/ \E n \in Descriptor : OpenElsewhere(n) \/ CloseElsewhere(n)
      \/ UNCHANGED vars
      => UNCHANGED <<asked, clash, gone>>
  BY DEF Fetch, HandleReply, Accept, ReadNothing, WriteNothing, Write, Connect, Leave, Send, Answer,
         OpenElsewhere, CloseElsewhere, vars, seen
<1>3. \A k \in Client : ReadFails(k) \/ WriteFails(k) =>
        UNCHANGED <<asked, clash>> /\ gone' = gone \cup Waiting(k)
  BY DEF ReadFails, WriteFails, seen
<1>4. QED
  BY <1>1, <1>2, <1>3, StepCases

\* A GRI of which nobody's connection went away has an open one with a reader that asked.
ConnInv == \A g \in Gri \ gone : clientConn[g] # Nobody =>
             /\ owner[clientConn[g]] # Nobody /\ g \in asked[owner[clientConn[g]]]
             /\ fd[owner[clientConn[g]]] # Nobody

LEMMA ConnStep ==
  ASSUME TypeOK, OnceInv, PortInv, ReaderInv, WriterInv, GroupInv, RouteInv, [Next]_vars
  PROVE  ConnInv'
<1>1. ConnInv /\ clash \subseteq clash' /\ gone \subseteq gone' /\ \A k \in Client : asked[k] \subseteq asked'[k]
  BY Grows DEF RouteInv, ConnInv
<1>2. /\ clientConn \in [Gri -> Address \cup {Nobody}]
      /\ owner \in [Address -> Client \cup {Nobody}]
      /\ fd \in [Client -> Descriptor \cup {Nobody}]
  BY DEF TypeOK
<1>3. ASSUME UNCHANGED <<owner, fd>>, \A g \in Gri : clientConn'[g] \in {clientConn[g], Nobody}
      PROVE  ConnInv'
  BY <1>1, <1>2, <1>3 DEF ConnInv
<1>4. ASSUME NEW k \in Client, Accept(k)
      PROVE  ConnInv'
  <2>1. PICK a \in Address : owner[a] = Nobody /\ owner' = [owner EXCEPT ![a] = k]
    BY <1>4 DEF Accept, Allocates
  <2>2. clientConn' = clientConn
    BY <1>4 DEF Accept
  <2>3. PICK n \in Descriptor : fd' = [fd EXCEPT ![k] = n]
    BY <1>4 DEF Accept, Unused
  <2>4. \A d \in Client : fd[d] # Nobody => fd'[d] # Nobody
    BY <1>2, <2>3, DescriptorAssumption
  <2>5. QED
    BY <1>1, <1>2, <2>1, <2>2, <2>4 DEF ConnInv
<1>5. ASSUME NEW k \in Client, ReadFails(k) \/ ReadNothing(k)
      PROVE  ConnInv'
  <2>1. owner' = [owner EXCEPT ![ReaderOf(k)] = Nobody] /\ clientConn' = clientConn
    BY <1>5 DEF ReadFails, ReadNothing
  <2>2. ReaderOf(k) \in Address /\ owner[ReaderOf(k)] = k
    <3>1. \E a \in Address : owner[a] = k
      BY <1>5, FailFacts DEF ReaderInv
    <3>2. QED
      BY <3>1, Zenon DEF ReaderOf
  <2>3. \A d \in Client : d # k => fd'[d] = fd[d]
    BY <1>5 DEF ReadFails, ReadNothing, sockets, TypeOK
  <2>4. \A g \in Gri \ gone' : clientConn[g] # ReaderOf(k)
    <3>1. CASE ReadFails(k)
      BY <3>1 DEF ReadFails, Waiting
    <3>2. CASE ReadNothing(k)
      BY <1>1, <2>2, <3>2, AddressAssumption DEF ReadNothing, ConnInv
    <3>3. QED
      BY <1>5, <3>1, <3>2
  <2>5. \A g \in Gri \ gone' : clientConn[g] # Nobody => owner[clientConn[g]] # k
    <3>1. ASSUME NEW g \in Gri \ gone', clientConn[g] # Nobody, owner[clientConn[g]] = k
          PROVE  FALSE
      <4>1. clientConn[g] \in Address
        BY <1>2, <3>1
      <4>2. clientConn[g] = ReaderOf(k)
        BY <2>2, <3>1, <4>1, AddressAssumption DEF ReaderInv
      <4>3. QED
        BY <2>4, <3>1, <4>2
    <3>2. QED
      BY <3>1
  <2>6. QED
    BY <1>1, <1>2, <2>1, <2>3, <2>4, <2>5 DEF ConnInv
<1>6. ASSUME NEW k \in Client, HandleAPIMessage(k)
      PROVE  ConnInv'
  <2>1. /\ ReaderOf(k) \in Address /\ owner[ReaderOf(k)] = k /\ owner' = owner
        /\ fd' = fd /\ fd[k] # Nobody
    <3>1. owner' = owner /\ fd' = fd /\ fd[k] # Nobody
      BY <1>6 DEF HandleAPIMessage, sockets
    <3>2. QED
      BY <1>6, <3>1, MessageFacts
  <2>2. CASE clientConn' = clientConn
    BY <1>3, <2>1, <2>2
  <2>3. ASSUME NEW g \in Gri, asked' = [asked EXCEPT ![k] = @ \cup {g}],
               clientConn' = [clientConn EXCEPT ![g] = ReaderOf(k)]
        PROVE  ConnInv'
    <3>1. g \in asked'[k] /\ k # Nobody
      BY <2>3, AddressAssumption DEF TypeOK
    <3>2. ASSUME NEW h \in Gri \ gone', clientConn'[h] # Nobody
          PROVE  /\ owner'[clientConn'[h]] # Nobody /\ h \in asked'[owner'[clientConn'[h]]]
                 /\ fd'[owner'[clientConn'[h]]] # Nobody
      <4>1. CASE h = g
        BY <1>2, <2>1, <2>3, <3>1, <4>1
      <4>2. CASE h # g
        BY <1>1, <1>2, <2>1, <2>3, <3>2, <4>2 DEF ConnInv
      <4>3. QED
        BY <4>1, <4>2
    <3>3. QED
      BY <3>2 DEF ConnInv
  <2>4. QED
    BY <1>6, <2>2, <2>3, MessageMoves
<1>7. ASSUME HandleReply
      PROVE  ConnInv'
  <2>1. UNCHANGED <<owner, fd>>
    BY <1>7 DEF HandleReply, sockets
  <2>2. PICK g \in Gri : clientConn' = [clientConn EXCEPT ![g] = Nobody]
    BY <1>7, ReplyFacts
  <2>3. QED
    BY <1>2, <1>3, <2>1, <2>2
<1>8. ASSUME NEW k \in Client, WriteFails(k)
      PROVE  ConnInv'
  <2>1. UNCHANGED <<owner, clientConn>> /\ gone' = gone \cup Waiting(k) /\ fd[k] # Nobody
    BY <1>8 DEF WriteFails
  <2>2. \A d \in Client : d # k => fd'[d] = fd[d]
    BY <1>8 DEF WriteFails, TypeOK
  <2>3. ReaderOf(k) \in Address /\ owner[ReaderOf(k)] = k
    <3>1. \E a \in Address : owner[a] = k
      BY <2>1 DEF ReaderInv
    <3>2. QED
      BY <3>1, Zenon DEF ReaderOf
  <2>4. \A g \in Gri \ gone' : clientConn[g] # Nobody => owner[clientConn[g]] # k
    <3>1. ASSUME NEW g \in Gri \ gone', clientConn[g] # Nobody, owner[clientConn[g]] = k
          PROVE  FALSE
      <4>1. clientConn[g] \in Address
        BY <1>2, <3>1
      <4>2. clientConn[g] = ReaderOf(k)
        BY <2>3, <3>1, <4>1, AddressAssumption DEF ReaderInv
      <4>3. g \in Waiting(k) /\ g \notin Waiting(k)
        BY <2>1, <3>1, <4>2 DEF Waiting
      <4>4. QED
        BY <4>3
    <3>2. QED
      BY <3>1
  <2>5. QED
    BY <1>1, <1>2, <2>1, <2>2, <2>4 DEF ConnInv
<1>9. \/ Fetch
      \/ \E k \in Client : WriteNothing(k)
      \/ \E k \in Client : Write(k)
      \/ \E d \in Client : Connect(d) \/ Leave(d)
      \/ \E d \in Client, m \in Message : Send(d, m)
      \/ \E i \in DOMAIN pending : Answer(i)
      \/ \E n \in Descriptor : OpenElsewhere(n) \/ CloseElsewhere(n)
      \/ UNCHANGED vars
      => UNCHANGED <<owner, fd, clientConn>>
  BY DEF Fetch, WriteNothing, Write, Connect, Leave, Send, Answer, OpenElsewhere, CloseElsewhere,
         vars, sockets
<1>10. QED
  BY <1>3, <1>4, <1>5, <1>6, <1>7, <1>8, <1>9, StepCases

\* What the core has and what it has answered.
LEMMA CoreTypes ==
  ASSUME TypeOK
  PROVE  /\ \A i \in DOMAIN pending : pending[i].gri \in Gri /\ pending[i].from \in Seq(Client)
         /\ \A i \in DOMAIN replies : replies[i].gri \in Gri /\ replies[i].results \in Nat
<1> DEFINE R == [gri : Gri, from : Seq(Client)]
           P == [gri : Gri, results : Nat]
<1>1. pending \in Seq(R) /\ replies \in Seq(P)
  BY DEF TypeOK
<1> HIDE DEF R, P
<1>2. /\ \A i \in DOMAIN pending : pending[i] \in R
      /\ \A i \in DOMAIN replies : replies[i] \in P
  BY <1>1
<1>3. QED
  BY <1>2 DEF R, P

\* Nothing is queued or written that was not asked for, unless a connection went away.
LEMMA RouteStep ==
  ASSUME TypeOK, OnceInv, PortInv, ReaderInv, WriterInv, GroupInv, RouteInv, [Next]_vars
  PROVE  RouteInv'
<1>1. ConnInv /\ ConnInv' /\ gone \subseteq gone' /\ \A k \in Client : asked[k] \subseteq asked'[k]
  BY ConnStep, Grows DEF RouteInv, ConnInv
<1> DEFINE QueueInv == \A k \in Client : \A i \in DOMAIN queue[k] : queue[k][i].gri \in asked[k] \cup gone
           GotInv == \A k \in Client : \A i \in DOMAIN got[k] : got[k][i].gri \in asked[k] \cup gone
<1>2. QueueInv /\ GotInv
  BY DEF RouteInv
<1>3. ASSUME UNCHANGED <<queue, got>>
      PROVE  QueueInv' /\ GotInv'
  BY <1>1, <1>2, <1>3
<1>4. ASSUME HandleReply
      PROVE  QueueInv' /\ GotInv'
  <2>1. got' = got
    BY <1>4 DEF HandleReply
  <2>2. CASE queue' = queue
    BY <1>3, <2>1, <2>2
  <2>3. ASSUME NEW g \in Gri, NEW k \in Client, clientConn[g] \in Address, owner[clientConn[g]] = k,
               queue' = [queue EXCEPT ![k] = queue'[k]],
               \A i \in DOMAIN queue'[k] :
                 queue'[k][i].gri = g \/ \E j \in DOMAIN queue[k] : queue'[k][i] = queue[k][j]
        PROVE  QueueInv' /\ GotInv'
    <3>1. g \in asked'[k] \cup gone'
      BY <1>1, <2>3, AddressAssumption DEF ConnInv
    <3>2. \A d \in Client : d # k => queue'[d] = queue[d]
      BY <2>3 DEF TypeOK
    <3>3. \A i \in DOMAIN queue'[k] : queue'[k][i].gri \in asked'[k] \cup gone'
      BY <1>1, <1>2, <2>3, <3>1
    <3>4. QED
      BY <1>1, <1>2, <2>1, <3>2, <3>3
  <2>4. QED
    BY <1>4, <2>2, <2>3, ReplyFacts
<1>5. ASSUME NEW k \in Client, Write(k) \/ WriteFails(k)
      PROVE  QueueInv' /\ GotInv'
  <2>1. /\ Runs("write", k) /\ queue' = [queue EXCEPT ![k] = Tail(@)]
        /\ got' = got \/ got' = [got EXCEPT ![k] = Append(@, Head(queue[k]))]
    BY <1>5 DEF Write, WriteFails
  <2>2. /\ queue \in [Client -> Seq(Results)] /\ got \in [Client -> Seq(Results)]
        /\ queue[k] \in Seq(Results) /\ got[k] \in Seq(Results)
    BY DEF TypeOK, Results
  <2>3. queue[k] # <<>>
    BY <2>1, GoneFacts DEF WriterInv, Writing
  <2>4. /\ 1 \in DOMAIN queue[k] /\ queue[k][1] = Head(queue[k])
        /\ \A i \in DOMAIN Tail(queue[k]) : \E j \in DOMAIN queue[k] : Tail(queue[k])[i] = queue[k][j]
    BY <2>2, <2>3, TailPlaces
  <2>5. /\ queue'[k] = Tail(queue[k])
        /\ \A d \in Client : d # k => queue'[d] = queue[d] /\ got'[d] = got[d]
        /\ got'[k] = got[k] \/ got'[k] = Append(got[k], Head(queue[k]))
    BY <2>1, <2>2
  <2>6. \A i \in DOMAIN queue'[k] : queue'[k][i].gri \in asked'[k] \cup gone'
    BY <1>1, <1>2, <2>4, <2>5
  <2>7. \A i \in DOMAIN got'[k] : got'[k][i].gri \in asked'[k] \cup gone'
    <3>1. CASE got'[k] = got[k]
      BY <1>1, <1>2, <3>1
    <3>2. CASE got'[k] = Append(got[k], Head(queue[k]))
      <4>1. Head(queue[k]) \in Results /\ Head(queue[k]).gri \in asked'[k] \cup gone'
        BY <1>1, <1>2, <2>2, <2>4
      <4>2. \A i \in DOMAIN got'[k] :
              got'[k][i] = Head(queue[k]) \/ \E j \in DOMAIN got[k] : got'[k][i] = got[k][j]
        <5>1. ToSet(got'[k]) = ToSet(got[k]) \cup {Head(queue[k])}
          BY <2>2, <3>2, <4>1, AppendElements
        <5>2. QED
          BY <5>1 DEF ToSet
      <4>3. QED
        BY <1>1, <1>2, <4>1, <4>2
    <3>3. QED
      BY <2>5, <3>1, <3>2
  <2>8. QED
    BY <1>1, <1>2, <2>5, <2>6, <2>7
<1>6. \/ Fetch
      \/ \E k \in Client : Accept(k)
      \/ \E k \in Client : ReadFails(k) \/ ReadNothing(k)
      \/ \E k \in Client : HandleAPIMessage(k)
      \/ \E k \in Client : WriteNothing(k)
      \/ \E d \in Client : Connect(d) \/ Leave(d)
      \/ \E d \in Client, m \in Message : Send(d, m)
      \/ \E i \in DOMAIN pending : Answer(i)
      \/ \E n \in Descriptor : OpenElsewhere(n) \/ CloseElsewhere(n)
      \/ UNCHANGED vars
      => UNCHANGED <<queue, got>>
  BY DEF Fetch, Accept, ReadFails, ReadNothing, HandleAPIMessage, WriteNothing, Connect, Leave, Send, Answer,
         OpenElsewhere, CloseElsewhere, vars
<1>7. QueueInv' /\ GotInv'
  BY <1>3, <1>4, <1>5, <1>6, StepCases
<1>8. QED
  BY <1>1, <1>7 DEF RouteInv, ConnInv

\* A request goes to the core, which has none of its GRI then, or the GRI has clashed.
LEMMA UsePost ==
  ASSUME TypeOK, UseInv, NEW k \in Client, NEW g \in Gri, NEW from \in Seq(Client),
         ReaderOf(k) \in Address,
         pending' = Append(pending, [gri |-> g, from |-> from]),
         clientConn' = [clientConn EXCEPT ![g] = ReaderOf(k)], replies' = replies,
         clash \subseteq clash', InUse(g) => g \in clash'
  PROVE  UseInv'
<1> DEFINE R == [gri : Gri, from : Seq(Client)]
           x == [gri |-> g, from |-> from]
<1>1. pending \in Seq(R) /\ x \in R /\ x.gri = g
  BY DEF TypeOK
<1>2. \A i \in DOMAIN pending' :
        \/ i = Len(pending) + 1 /\ pending'[i] = x
        \/ i \in DOMAIN pending /\ pending'[i] = pending[i]
  <2> HIDE DEF R, x
  <2>1. pending' = Append(pending, x)
    BY DEF x
  <2>2. QED
    BY <1>1, <2>1, EndPlaces
<1> HIDE DEF R, x
<1>3. g \notin clash' =>
        /\ \A i \in DOMAIN pending : pending[i].gri # g
        /\ \A i \in DOMAIN replies : replies[i].gri # g
  BY DEF InUse
<1>4. \A h \in Gri : clientConn'[h] = clientConn[h] \/ h = g
  BY DEF TypeOK
<1>5. clientConn'[g] # Nobody
  BY AddressAssumption DEF TypeOK
<1>6. /\ \A i \in DOMAIN pending : pending[i].gri \in Gri
      /\ \A i \in DOMAIN replies : replies[i].gri \in Gri
  BY CoreTypes
<1>7. \A i \in DOMAIN pending' : pending'[i].gri \notin clash' => clientConn'[pending'[i].gri] # Nobody
  BY <1>1, <1>2, <1>4, <1>5, <1>6 DEF UseInv
<1>8. \A i \in DOMAIN replies' : replies'[i].gri \notin clash' => clientConn'[replies'[i].gri] # Nobody
  BY <1>4, <1>5, <1>6 DEF UseInv
<1>9. \A i, j \in DOMAIN pending' :
        pending'[i].gri = pending'[j].gri /\ pending'[i].gri \notin clash' => i = j
  BY <1>1, <1>2, <1>3 DEF UseInv
<1>10. \A i, j \in DOMAIN replies' :
        replies'[i].gri = replies'[j].gri /\ replies'[i].gri \notin clash' => i = j
  BY DEF UseInv
<1>11. \A i \in DOMAIN pending', j \in DOMAIN replies' :
         pending'[i].gri = replies'[j].gri => pending'[i].gri \in clash'
  BY <1>1, <1>2, <1>3 DEF UseInv
<1>12. QED
  BY <1>7, <1>8, <1>9, <1>10, <1>11 DEF UseInv

\* The core answers a request: its reply has the place of the request.
LEMMA UseAnswer ==
  ASSUME TypeOK, UseInv, NEW k \in DOMAIN pending, Answer(k)
  PROVE  UseInv'
<1> DEFINE R == [gri : Gri, from : Seq(Client)]
           P == [gri : Gri, results : Nat]
           g == pending[k].gri
<1>1. pending \in Seq(R) /\ replies \in Seq(P) /\ pending' = RemoveAt(pending, k)
  BY DEF TypeOK, Answer
<1>2. /\ UNCHANGED <<clientConn, clash>>
      /\ \E n \in {1, Len(pending[k].from)} : replies' = Append(replies, [gri |-> g, results |-> n])
  BY DEF Answer, seen
<1>3. g \in Gri /\ Len(pending[k].from) \in Nat
  BY CoreTypes
<1>4. PICK x \in P : x.gri = g /\ replies' = Append(replies, x)
  BY <1>2, <1>3
<1> HIDE DEF R, P
<1>5. \A i \in DOMAIN pending' :
        \E p \in DOMAIN pending :
          p # k /\ pending'[i] = pending[p] /\ p = IF i < k THEN i ELSE i + 1
  BY <1>1, RemoveAtElements
<1>6. \A i \in DOMAIN replies' :
        \/ i = Len(replies) + 1 /\ replies'[i] = x
        \/ i \in DOMAIN replies /\ replies'[i] = replies[i]
  BY <1>1, <1>4, EndPlaces
<1>7. \A i \in DOMAIN pending' : i \in Int /\ k \in Int
  <2>1. pending' \in Seq(R)
    BY <1>1, RemoveAtElements
  <2>2. QED
    BY <1>1, <2>1
<1> HIDE DEF g
<1>8. \A i \in DOMAIN pending' : pending'[i].gri \notin clash' => clientConn'[pending'[i].gri] # Nobody
  BY <1>2, <1>5 DEF UseInv
<1>9. \A i \in DOMAIN replies' : replies'[i].gri \notin clash' => clientConn'[replies'[i].gri] # Nobody
  BY <1>2, <1>4, <1>6 DEF UseInv, g
<1>10. \A i, j \in DOMAIN pending' :
        pending'[i].gri = pending'[j].gri /\ pending'[i].gri \notin clash' => i = j
  <2>1. ASSUME NEW i \in DOMAIN pending', NEW j \in DOMAIN pending',
               pending'[i].gri = pending'[j].gri, pending'[i].gri \notin clash'
        PROVE  i = j
    <3>1. PICK p \in DOMAIN pending :
             p # k /\ pending'[i] = pending[p] /\ p = IF i < k THEN i ELSE i + 1
      BY <1>5
    <3>2. PICK q \in DOMAIN pending :
             q # k /\ pending'[j] = pending[q] /\ q = IF j < k THEN j ELSE j + 1
      BY <1>5
    <3>3. p = q
      BY <1>2, <2>1, <3>1, <3>2 DEF UseInv
    <3>4. QED
      BY <1>7, <3>1, <3>2, <3>3
  <2>2. QED
    BY <2>1
<1>11. \A i, j \in DOMAIN replies' :
         replies'[i].gri = replies'[j].gri /\ replies'[i].gri \notin clash' => i = j
  <2>1. \A i \in DOMAIN replies : replies[i].gri = g => g \in clash
    BY DEF UseInv, g
  <2>2. QED
    BY <1>2, <1>4, <1>6, <2>1 DEF UseInv
<1>12. \A i \in DOMAIN pending', j \in DOMAIN replies' :
         pending'[i].gri = replies'[j].gri => pending'[i].gri \in clash'
  <2>1. \A p \in DOMAIN pending : p # k /\ pending[p].gri = g => g \in clash
    BY DEF UseInv, g
  <2>2. QED
    BY <1>2, <1>4, <1>5, <1>6, <2>1 DEF UseInv
<1>13. QED
  BY <1>8, <1>9, <1>10, <1>11, <1>12 DEF UseInv

\* A reply is taken, and the connection of its GRI forgotten: nobody else needs it.
LEMMA UseReply ==
  ASSUME TypeOK, UseInv, NEW g \in Gri, replies # <<>>, g = Head(replies).gri,
         replies' = Tail(replies), clientConn' = [clientConn EXCEPT ![g] = Nobody],
         UNCHANGED <<pending, clash>>
  PROVE  UseInv'
<1> DEFINE P == [gri : Gri, results : Nat]
<1>1. replies \in Seq(P)
  BY DEF TypeOK
<1> HIDE DEF P
<1>2. /\ 1 \in DOMAIN replies /\ replies[1].gri = g
      /\ \A i \in DOMAIN replies' : i + 1 \in DOMAIN replies /\ i + 1 # 1 /\ replies'[i] = replies[i + 1]
  BY <1>1, TailPlaces
<1>3. \A h \in Gri : clientConn'[h] = clientConn[h] \/ h = g
  BY DEF TypeOK
<1>4. /\ \A i \in DOMAIN pending : pending[i].gri \in Gri
      /\ \A i \in DOMAIN replies : replies[i].gri \in Gri
  BY CoreTypes
<1>5. \A i \in DOMAIN replies' : i \in Int
  <2>1. replies' \in Seq(P)
    BY <1>1, HeadTailProperties
  <2>2. QED
    BY <2>1
<1>6. \A i \in DOMAIN pending' : pending'[i].gri \notin clash' => clientConn'[pending'[i].gri] # Nobody
  BY <1>2, <1>3, <1>4 DEF UseInv
<1>7. \A i \in DOMAIN replies' : replies'[i].gri \notin clash' => clientConn'[replies'[i].gri] # Nobody
  BY <1>2, <1>3, <1>4 DEF UseInv
<1>8. \A i, j \in DOMAIN replies' :
         replies'[i].gri = replies'[j].gri /\ replies'[i].gri \notin clash' => i = j
  <2>1. ASSUME NEW i \in DOMAIN replies', NEW j \in DOMAIN replies',
               replies'[i].gri = replies'[j].gri, replies'[i].gri \notin clash'
        PROVE  i = j
    <3>1. i + 1 = j + 1
      BY <1>2, <2>1 DEF UseInv
    <3>2. QED
      BY <1>5, <3>1
  <2>2. QED
    BY <2>1
<1>9. QED
  BY <1>2, <1>6, <1>7, <1>8 DEF UseInv

LEMMA UseStep ==
  ASSUME TypeOK, PortInv, ReaderInv, UseInv, GroupInv, [Next]_vars
  PROVE  UseInv'
<1>1. ASSUME UNCHANGED <<pending, replies, clientConn>>
      PROVE  UseInv'
  <2>1. clash \subseteq clash'
    BY Grows
  <2>2. QED
    BY <1>1, <2>1 DEF UseInv
<1>2. ASSUME HandleReply
      PROVE  UseInv'
  <2>1. UNCHANGED <<pending, clash>>
    BY <1>2 DEF HandleReply, seen
  <2>2. QED
    BY <1>2, <2>1, ReplyFacts, UseReply
<1>3. ASSUME NEW k \in Client, HandleAPIMessage(k)
      PROVE  UseInv'
  <2>1. replies' = replies
    BY <1>3 DEF HandleAPIMessage
  <2>2. CASE UNCHANGED <<pending, clientConn>>
    BY <1>1, <2>1, <2>2
  <2>3. ASSUME NEW g \in Gri, NEW from \in Seq(Client),
               clash' = IF InUse(g) \/ gathering[g] \ {k} # {} THEN clash \cup {g} ELSE clash,
               clientConn' = [clientConn EXCEPT ![g] = ReaderOf(k)],
               pending' = Append(pending, [gri |-> g, from |-> from])
        PROVE  UseInv'
    <3>1. InUse(g) => g \in clash'
      BY <2>3
    <3>2. clash \subseteq clash' /\ ReaderOf(k) \in Address
      BY <1>3, Grows, MessageFacts
    <3>3. QED
      BY <2>1, <2>3, <3>1, <3>2, UsePost
  <2>4. QED
    BY <1>3, <2>2, <2>3, MessageMoves
<1>4. \/ Fetch
      \/ \E k \in Client : Accept(k)
      \/ \E k \in Client : ReadFails(k) \/ ReadNothing(k)
      \/ \E k \in Client : WriteNothing(k)
      \/ \E k \in Client : Write(k)
      \/ \E k \in Client : WriteFails(k)
      \/ \E d \in Client : Connect(d) \/ Leave(d)
      \/ \E d \in Client, m \in Message : Send(d, m)
      \/ \E n \in Descriptor : OpenElsewhere(n) \/ CloseElsewhere(n)
      \/ UNCHANGED vars
      => UNCHANGED <<pending, replies, clientConn>>
  BY DEF Fetch, Accept, ReadFails, ReadNothing, WriteNothing, Write, WriteFails, Connect, Leave, Send,
         OpenElsewhere, CloseElsewhere, vars, core
<1>5. QED
  BY <1>1, <1>2, <1>3, <1>4, UseAnswer, StepCases

\* A request that is posted for one client or for a group, and what GroupInv says of it.
FromOne(x, C) == x.from # <<>> /\ (x.gri \in C \/ \E k \in Client : ToSet(x.from) = {k})

LEMMA GroupMembers ==
  ASSUME TypeOK, GroupInv, NEW k \in Client, NEW g \in Gri, NEW from \in Seq(Client),
         from = <<k>> \/ from = Append(group[g], k),
         gathering[g] \ {k} # {} => g \in clash'
  PROVE  from # <<>> /\ (g \in clash' \/ ToSet(from) = {k})
<1>1. CASE from = <<k>>
  <2>1. ToSet(<<k>>) = {k}
    BY DEF ToSet
  <2>2. QED
    BY <1>1, <2>1
<1>2. CASE from = Append(group[g], k)
  <2>1. group[g] \in Seq(Client)
    BY DEF TypeOK
  <2>2. from # <<>> /\ ToSet(from) = ToSet(group[g]) \cup {k}
    BY <1>2, <2>1, AppendElements
  <2>3. ToSet(group[g]) \subseteq gathering[g]
    BY DEF GroupInv
  <2>4. QED
    BY <2>2, <2>3
<1>3. QED
  BY <1>1, <1>2

LEMMA GroupStep ==
  ASSUME TypeOK, PortInv, ReaderInv, GroupInv, [Next]_vars
  PROVE  GroupInv'
<1> DEFINE Members == \A g \in Gri : ToSet(group[g]) \subseteq gathering[g]
           Requests == \A i \in DOMAIN pending : FromOne(pending[i], clash)
           Answers == \A i \in DOMAIN replies : replies[i].results # 0
           R == [gri : Gri, from : Seq(Client)]
           P == [gri : Gri, results : Nat]
<1>1. Members /\ Requests /\ Answers
  BY DEF GroupInv, FromOne
<1>2. clash \subseteq clash'
  BY Grows
<1>3. pending \in Seq(R) /\ replies \in Seq(P)
  BY DEF TypeOK
<1>4. ASSUME NEW x, FromOne(x, clash)
      PROVE  FromOne(x, clash')
  BY <1>2, <1>4 DEF FromOne
<1>5. ASSUME Members', Requests', Answers'
      PROVE  GroupInv'
  BY <1>5 DEF GroupInv, FromOne
<1> HIDE DEF R, P
<1>6. ASSUME UNCHANGED <<pending, replies, group, gathering>>
      PROVE  GroupInv'
  BY <1>1, <1>4, <1>5, <1>6
<1>7. ASSUME HandleReply
      PROVE  GroupInv'
  <2>1. UNCHANGED <<pending, group, gathering, clash>>
    BY <1>7 DEF HandleReply, seen
  <2>2. replies # <<>> /\ replies' = Tail(replies)
    BY <1>7, ReplyFacts
  <2>3. \A i \in DOMAIN replies' : i + 1 \in DOMAIN replies /\ replies'[i] = replies[i + 1]
    BY <1>3, <2>2, TailPlaces
  <2>4. QED
    BY <1>1, <1>5, <2>1, <2>3
<1>8. ASSUME NEW i \in DOMAIN pending, Answer(i)
      PROVE  GroupInv'
  <2>1. UNCHANGED <<group, gathering, clash>> /\ pending' = RemoveAt(pending, i)
    BY <1>8 DEF Answer, seen
  <2>2. \A j \in DOMAIN pending' : \E p \in DOMAIN pending : pending'[j] = pending[p]
    BY <1>3, <2>1, RemoveAtElements
  <2>3. pending[i].gri \in Gri /\ pending[i].from \in Seq(Client) /\ pending[i].from # <<>>
    BY <1>1, CoreTypes DEF FromOne
  <2>4. Len(pending[i].from) \in Nat /\ Len(pending[i].from) # 0
    BY <2>3, EmptySeq, LenProperties
  <2>5. PICK n \in {1, Len(pending[i].from)} :
           replies' = Append(replies, [gri |-> pending[i].gri, results |-> n])
    BY <1>8 DEF Answer
  <2>6. PICK x \in P : x.results # 0 /\ replies' = Append(replies, x)
    <3>1. n \in Nat /\ n # 0
      BY <2>4
    <3>2. QED
      BY <2>3, <2>5, <3>1 DEF P
  <2>7. \A j \in DOMAIN replies' : \/ j = Len(replies) + 1 /\ replies'[j] = x
                                   \/ j \in DOMAIN replies /\ replies'[j] = replies[j]
    BY <1>3, <2>6, EndPlaces
  <2>8. QED
    BY <1>1, <1>5, <2>1, <2>2, <2>6, <2>7
<1>9. ASSUME NEW k \in Client, HandleAPIMessage(k)
      PROVE  GroupInv'
  <2>1. replies' = replies /\ group \in [Gri -> Seq(Client)] /\ gathering \in [Gri -> SUBSET Client]
    BY <1>9 DEF HandleAPIMessage, TypeOK
  <2>2. CASE UNCHANGED <<group, pending, gathering>>
    BY <1>6, <2>1, <2>2
  <2>3. ASSUME NEW g \in Gri,
               group' = [group EXCEPT ![g] = Append(@, k)],
               gathering' = [gathering EXCEPT ![g] = @ \cup {k}], pending' = pending
        PROVE  GroupInv'
    <3>1. /\ group'[g] = Append(group[g], k) /\ gathering'[g] = gathering[g] \cup {k}
          /\ \A h \in Gri : h # g => group'[h] = group[h] /\ gathering'[h] = gathering[h]
      BY <2>1, <2>3
    <3>2. ToSet(group'[g]) = ToSet(group[g]) \cup {k}
      BY <2>1, <3>1, AppendElements
    <3>3. QED
      BY <1>1, <1>4, <1>5, <2>1, <2>3, <3>1, <3>2
  <2>4. ASSUME NEW g \in Gri, NEW from \in Seq(Client),
               clash' = IF InUse(g) \/ gathering[g] \ {k} # {} THEN clash \cup {g} ELSE clash,
               pending' = Append(pending, [gri |-> g, from |-> from]),
               \/ from = <<k>> /\ UNCHANGED <<group, gathering>>
               \/ /\ from = Append(group[g], k)
                  /\ group' = [group EXCEPT ![g] = <<>>]
                  /\ gathering' = [gathering EXCEPT ![g] = {}]
        PROVE  GroupInv'
    <3>1. Members'
      <4>1. ToSet(<<>>) = {}
        BY DEF ToSet
      <4>2. CASE UNCHANGED <<group, gathering>>
        BY <1>1, <4>2
      <4>3. CASE group' = [group EXCEPT ![g] = <<>>] /\ gathering' = [gathering EXCEPT ![g] = {}]
        BY <1>1, <2>1, <4>1, <4>3
      <4>4. QED
        BY <2>4, <4>2, <4>3
    <3>2. from # <<>> /\ (g \in clash' \/ ToSet(from) = {k})
      BY <2>4, GroupMembers
    <3>3. PICK x \in R : FromOne(x, clash') /\ pending' = Append(pending, x)
      BY <2>4, <3>2 DEF R, FromOne
    <3>4. \A j \in DOMAIN pending' : \/ j = Len(pending) + 1 /\ pending'[j] = x
                                     \/ j \in DOMAIN pending /\ pending'[j] = pending[j]
      BY <1>3, <3>3, EndPlaces
    <3>5. Requests'
      BY <1>1, <1>4, <3>3, <3>4
    <3>6. Answers'
      BY <1>1, <2>1
    <3>7. QED
      BY <1>5, <3>1, <3>5, <3>6
  <2>5. ASSUME ~ UNCHANGED <<group, pending, gathering>>
        PROVE  GroupInv'
    <3>1. PICK g \in Gri :
              /\ clash' = IF InUse(g) \/ gathering[g] \ {k} # {} THEN clash \cup {g} ELSE clash
              /\ \/ /\ group' = [group EXCEPT ![g] = Append(@, k)]
                    /\ gathering' = [gathering EXCEPT ![g] = @ \cup {k}]
                    /\ pending' = pending
                 \/ \E from \in Seq(Client) :
                      /\ pending' = Append(pending, [gri |-> g, from |-> from])
                      /\ \/ from = <<k>> /\ UNCHANGED <<group, gathering>>
                         \/ /\ from = Append(group[g], k)
                            /\ group' = [group EXCEPT ![g] = <<>>]
                            /\ gathering' = [gathering EXCEPT ![g] = {}]
      BY <1>9, <2>5, MessageMoves
    <3>2. QED
      BY <2>3, <2>4, <3>1
  <2>6. QED
    BY <2>2, <2>5
<1>10. \/ Fetch
       \/ \E k \in Client : Accept(k)
       \/ \E k \in Client : ReadFails(k) \/ ReadNothing(k)
       \/ \E k \in Client : WriteNothing(k)
       \/ \E k \in Client : Write(k)
       \/ \E k \in Client : WriteFails(k)
       \/ \E d \in Client : Connect(d) \/ Leave(d)
       \/ \E d \in Client, m \in Message : Send(d, m)
       \/ \E n \in Descriptor : OpenElsewhere(n) \/ CloseElsewhere(n)
       \/ UNCHANGED vars
       => UNCHANGED <<pending, replies, group, gathering>>
  BY DEF Fetch, Accept, ReadFails, ReadNothing, WriteNothing, Write, WriteFails, Connect, Leave, Send,
         OpenElsewhere, CloseElsewhere, vars, core, seen
<1>11. QED
  BY <1>6, <1>7, <1>8, <1>9, <1>10, StepCases

\* A reply that finds no connection is of a GRI that clashed or whose connection went.
LEMMA DiesStep ==
  ASSUME IInv, [Next]_vars
  PROVE  DiesOfStrays'
<1>1. TypeOK /\ PortInv /\ ReaderInv /\ UseInv /\ GroupInv /\ RouteInv /\ DiesOfStrays
  BY DEF IInv
<1>2. clash \subseteq clash' /\ gone \subseteq gone'
  BY <1>1, Grows
<1>3. CASE clash # {} \/ gone # {}
  BY <1>2, <1>3 DEF DiesOfStrays
<1>4. CASE clash = {} /\ gone = {}
  <2>1. up
    BY <1>1, <1>4 DEF DiesOfStrays
  <2>2. CASE up' = up
    BY <2>1, <2>2 DEF DiesOfStrays
  <2>3. CASE HandleReply
    <3>1. PICK g \in Gri :
             /\ replies # <<>> /\ g = Head(replies).gri
             /\ (clientConn[g] = Nobody \/ owner[clientConn[g]] = Nobody) \/ up' = up
      BY <1>1, <2>3, ReplyFacts
    <3>2. 1 \in DOMAIN replies /\ replies[1].gri = g
      <4> DEFINE P == [gri : Gri, results : Nat]
      <4>1. replies \in Seq(P)
        BY <1>1 DEF TypeOK
      <4> HIDE DEF P
      <4>2. QED
        BY <3>1, <4>1, TailPlaces
    <3>3. clientConn[g] # Nobody
      BY <1>1, <1>4, <3>2 DEF UseInv
    <3>4. owner[clientConn[g]] # Nobody
      BY <1>1, <1>4, <3>3 DEF RouteInv
    <3>5. QED
      BY <2>2, <3>1, <3>3, <3>4
  <2>4. \/ Fetch
        \/ \E k \in Client : Accept(k)
        \/ \E k \in Client : ReadFails(k) \/ ReadNothing(k)
        \/ \E k \in Client : HandleAPIMessage(k)
        \/ \E k \in Client : WriteNothing(k)
        \/ \E k \in Client : Write(k)
        \/ \E k \in Client : WriteFails(k)
        \/ \E d \in Client : Connect(d) \/ Leave(d)
        \/ \E d \in Client, m \in Message : Send(d, m)
        \/ \E i \in DOMAIN pending : Answer(i)
        \/ \E n \in Descriptor : OpenElsewhere(n) \/ CloseElsewhere(n)
        \/ UNCHANGED vars
        => up' = up
    BY DEF Fetch, Accept, ReadFails, ReadNothing, HandleAPIMessage, WriteNothing, Write, WriteFails, Connect,
           Leave, Send, Answer, OpenElsewhere, CloseElsewhere, vars
  <2>5. QED
    BY <2>2, <2>3, <2>4, StepCases
<1>5. QED
  BY <1>3, <1>4

-----------------------------------------------------------------------------
LEMMA InitInv == Init => IInv
<1> SUFFICES ASSUME Init
             PROVE  IInv
  OBVIOUS
<1>1. TypeOK
  <2>1. reads \in Seq(Client \cup {"listen", "port"})
    BY DEF Init
  <2>2. 0 \in 0 .. MaxSends
    BY BoundAssumption
  <2>3. QED
    BY <2>1, <2>2 DEF Init, TypeOK
<1>2. /\ ToSet(writes) = {} /\ ToSet(ready) = {} /\ ToSet(reads) = {"port", "listen"}
      /\ Once(reads) /\ Once(writes) /\ Once(ready)
  <2>1. DOMAIN reads = {1, 2} /\ reads[1] = "port" /\ reads[2] = "listen"
    BY DEF Init
  <2>2. DOMAIN writes = {} /\ DOMAIN ready = {}
    BY DEF Init
  <2>3. QED
    BY <2>1, <2>2 DEF ToSet, Once
<1>3. OnceInv /\ PortInv
  BY <1>2 DEF OnceInv, PortInv
<1>4. \A k \in Client : ~Reading(k) /\ ~Writing(k)
  BY <1>2, ClientAssumption DEF Reading, Writing
<1>5. ReaderInv /\ WriterInv /\ AwakeInv
  BY <1>4 DEF Init, ReaderInv, WriterInv, AwakeInv
<1>6. RouteInv
  <2>1. \A k \in Client : DOMAIN queue[k] = {} /\ DOMAIN got[k] = {}
    BY DEF Init
  <2>2. QED
    BY <2>1 DEF Init, RouteInv
<1>7. DOMAIN pending = {} /\ DOMAIN replies = {}
  BY DEF Init
<1>8. UseInv
  BY <1>7 DEF UseInv
<1>9. GroupInv
  <2>1. \A g \in Gri : ToSet(group[g]) = {}
    BY DEF Init, ToSet
  <2>2. QED
    BY <1>7, <2>1 DEF GroupInv
<1>10. DiesOfStrays
  BY DEF Init, DiesOfStrays
<1>11. QED
  BY <1>1, <1>3, <1>5, <1>6, <1>8, <1>9, <1>10 DEF IInv

LEMMA StepInv == IInv /\ [Next]_vars => IInv'
<1> SUFFICES ASSUME IInv, [Next]_vars
             PROVE  IInv'
  OBVIOUS
<1>1. /\ TypeOK /\ OnceInv /\ PortInv /\ ReaderInv /\ WriterInv /\ AwakeInv
      /\ RouteInv /\ UseInv /\ GroupInv /\ DiesOfStrays
  BY DEF IInv
<1>2. TypeOK' /\ OnceInv' /\ PortInv' /\ ReaderInv' /\ WriterInv' /\ AwakeInv'
  BY <1>1, TypeStep, OnceStep, PortStep, ReaderStep, WriterStep, AwakeStep
<1>3. RouteInv' /\ UseInv' /\ GroupInv' /\ DiesOfStrays'
  BY <1>1, RouteStep, UseStep, GroupStep, DiesStep
<1>4. QED
  BY <1>2, <1>3 DEF IInv

\* The conjunction of everything above holds in every state that is reached.
THEOREM Invariance == Spec => []IInv
BY InitInv, StepInv, PTL DEF Spec

\* Every variable of the API server keeps to its type.
THEOREM TypeCorrect == Spec => []TypeOK
<1>1. IInv => TypeOK
  BY DEF IInv
<1>2. QED
  BY <1>1, Invariance, PTL

\* A client is only written answers to what it asked, if no connection went away, and a
\* posted group is of one connection, if no GRI was used twice at once.
THEOREM AnswersToAskers == Spec => []OwnReply
<1>1. IInv => OwnReply
  <2> SUFFICES ASSUME IInv
               PROVE  OwnReply
    OBVIOUS
  <2>1. RouteInv /\ GroupInv
    BY DEF IInv
  <2>2. \A i \in DOMAIN pending :
          Cardinality(ToSet(pending[i].from)) = 1 \/ pending[i].gri \in clash
    <3>1. \A k \in Client : Cardinality({k}) = 1
      BY FS_Singleton
    <3>2. QED
      BY <2>1, <3>1 DEF GroupInv
  <2>3. QED
    BY <2>1, <2>2 DEF OwnReply, RouteInv
<1>2. QED
  BY <1>1, Invariance, PTL

\* The process ends only after two uses of a GRI at once, or after a connection that went
\* away before its answer.
THEOREM EndsForAReason == Spec => []DiesOfStrays
<1>1. IInv => DiesOfStrays
  BY DEF IInv
<1>2. QED
  BY <1>1, Invariance, PTL

\* How often something is in a list that has nothing twice.
LEMMA OnePlace ==
  ASSUME NEW q, Once(q), NEW x
  PROVE  /\ x \in ToSet(q) => Cardinality({i \in DOMAIN q : q[i] = x}) = 1
         /\ x \notin ToSet(q) => Cardinality({i \in DOMAIN q : q[i] = x}) = 0
<1> DEFINE P == {i \in DOMAIN q : q[i] = x}
<1>1. ASSUME x \in ToSet(q)
      PROVE  Cardinality(P) = 1
  <2>1. PICK i \in DOMAIN q : q[i] = x
    BY <1>1 DEF ToSet
  <2>2. P = {i}
    BY <2>1 DEF Once
  <2>3. QED
    BY <2>2, FS_Singleton
<1>2. ASSUME x \notin ToSet(q)
      PROVE  Cardinality(P) = 0
  <2>1. P = {}
    BY <1>2 DEF ToSet
  <2>2. QED
    BY <2>1, FS_EmptySet
<1>3. QED
  BY <1>1, <1>2

\* What is in one list of the loop or in its ready events is listed once.
LEMMA ListedOnce ==
  ASSUME NEW q, Once(q), Once(ready), NEW x, NEW how,
         x \in ToSet(q) \/ <<how, x>> \in ToSet(ready),
         x \in ToSet(q) => <<how, x>> \notin ToSet(ready)
  PROVE  Listed(q, x, how) = 1
<1> DEFINE e == <<how, x>>
           m == Cardinality({i \in DOMAIN q : q[i] = x})
           n == Cardinality({i \in DOMAIN ready : ready[i] = e})
<1> HIDE DEF e
<1>1. /\ x \in ToSet(q) => m = 1
      /\ x \notin ToSet(q) => m = 0
      /\ e \in ToSet(ready) => n = 1
      /\ e \notin ToSet(ready) => n = 0
  BY OnePlace
<1> HIDE DEF m, n
<1>2. m + n = 1
  BY <1>1 DEF e
<1>3. QED
  BY <1>2 DEF Listed, m, n, e

\* Every open connection stays listed to read, once, and to write while it has messages: it
\* neither sleeps nor is run twice.  Only one that got a number whose bit was still set, of
\* a connection that was closed while listed, is taken for listed when it may not be
\* (event.cc:102).
THEOREM ConnectionsAwake == Spec => []ConnectionAwake
<1>1. IInv => ConnectionAwake
  <2> SUFFICES ASSUME IInv, NEW k \in Client \ heirs, fd[k] # Nobody
               PROVE  /\ Listed(reads, k, "read") = 1
                      /\ queue[k] # <<>> => Listed(writes, k, "write") = 1
    BY DEF ConnectionAwake
  <2>1. OnceInv /\ Awake(k)
    BY DEF IInv, AwakeInv
  <2>2. Listed(reads, k, "read") = 1
    BY <2>1, ListedOnce DEF OnceInv, Awake, Reading
  <2>3. queue[k] # <<>> => Listed(writes, k, "write") = 1
    BY <2>1, ListedOnce DEF OnceInv, Awake, Writing
  <2>4. QED
    BY <2>2, <2>3
<1>2. QED
  BY <1>1, Invariance, PTL

-----------------------------------------------------------------------------
(* The other API server, of XML-RPC calls, for every set of calls.         *)

\* Whoever holds the lock holds it alone: a call that runs, or one that faulted.
Serving(c) == state[c] \in {"looping", "stopped", "faulted"}

LockInv ==
  /\ \A c \in Calls : Serving(c) <=> c \in lock
  /\ \A c, d \in lock : c = d

\* A reply is in one place only, and a call that has not begun has none.
NoRepeat(q) == \A i, j \in DOMAIN q : q[i] = q[j] => i = j

CallReplyInv ==
  /\ NoRepeat(socket)
  /\ NoRepeat(inQueue)
  /\ \A i \in DOMAIN socket, j \in DOMAIN inQueue : socket[i] # inQueue[j]
  /\ \A i \in DOMAIN socket : socket[i] \notin unanswered
  /\ \A i \in DOMAIN inQueue : inQueue[i] \notin unanswered

\* A reply that may yet be read is one of the call that is served, or its tag was
\* discarded: a call that gives up discards its tag in either branch.
Known(c) == c \in discarded \/ Serving(c)

KnownInv ==
  /\ \A c \in unanswered : Known(c)
  /\ \A i \in DOMAIN socket : Known(socket[i])
  /\ \A i \in DOMAIN inQueue : Known(inQueue[i])

BegunInv ==
  /\ \A c \in unanswered \cup discarded : state[c] # "new"
  /\ \A i \in DOMAIN socket : state[socket[i]] # "new"
  /\ \A i \in DOMAIN inQueue : state[inQueue[i]] # "new"

CallInv == CallsTypeOK /\ LockInv /\ CallReplyInv /\ KnownInv /\ BegunInv

-----------------------------------------------------------------------------
\* Appending a reply that is not there keeps the others.
LEMMA ReplyAppended ==
  ASSUME NEW q \in Seq(Calls), NEW c \in Calls
  PROVE  /\ Append(q, c) \in Seq(Calls)
         /\ DOMAIN Append(q, c) = 1 .. Len(q) + 1
         /\ \A i \in DOMAIN Append(q, c) : Append(q, c)[i] = IF i = Len(q) + 1 THEN c ELSE q[i]
         /\ DOMAIN q = 1 .. Len(q)
         /\ Len(q) \in Nat
OBVIOUS

\* Taking the first reply shifts the others.
LEMMA ReplyTaken ==
  ASSUME NEW q \in Seq(Calls), q # <<>>
  PROVE  /\ Tail(q) \in Seq(Calls)
         /\ Head(q) = q[1]
         /\ 1 \in DOMAIN q
         /\ Head(q) \in Calls
         /\ \A i \in DOMAIN Tail(q) : i + 1 \in DOMAIN q /\ i + 1 # 1 /\ Tail(q)[i] = q[i + 1]
         /\ \A i \in DOMAIN q : i \in Nat /\ q[i] \in Calls
OBVIOUS

\* Removing the reply at one place keeps those before it and shifts those after it.
LEMMA ReplyRemoved ==
  ASSUME NEW q \in Seq(Calls), NEW i \in DOMAIN q
  PROVE  /\ RemoveAt(q, i) \in Seq(Calls)
         /\ \A j \in DOMAIN RemoveAt(q, i) :
              \E k \in DOMAIN q \ {i} :
                /\ RemoveAt(q, i)[j] = q[k]
                /\ k = IF j < i THEN j ELSE j + 1
<1>1. q \in Seq(Calls) /\ i \in DOMAIN q
  OBVIOUS
<1>2. QED
  BY <1>1, RemoveAtElements

-----------------------------------------------------------------------------
\* Every step keeps every variable to its type.
LEMMA CallTypeStep ==
  ASSUME CallsTypeOK, [CallsNext]_callVars
  PROVE  CallsTypeOK'
<1> USE DEF CallsTypeOK
<1>1. ASSUME NEW c \in Calls, NEW value \in {"ok", "malformed"}, ReturnAtOnce(c, value)
      PROVE  CallsTypeOK'
  BY <1>1 DEF ReturnAtOnce, Return
<1>2. ASSUME NEW c \in Calls, ComputePath(c)
      PROVE  CallsTypeOK'
  BY <1>2 DEF ComputePath
<1>3. ASSUME NEW c \in Calls, Read(c)
      PROVE  CallsTypeOK'
  <2>1. inQueue' \in Seq(Calls) /\ socket' \in Seq(Calls)
    BY <1>3, ReplyTaken, ReplyAppended DEF Read
  <2>2. QED
    BY <1>3, <2>1 DEF Read
<1>4. ASSUME NEW c \in Calls, Timeout(c) \/ Fault(c) \/ FaultInReply(c)
      PROVE  CallsTypeOK'
  BY <1>4 DEF Timeout, Fault, FaultInReply
<1>5. ASSUME NEW c \in Calls, CollectNothing(c)
      PROVE  CallsTypeOK'
  BY <1>5 DEF CollectNothing, Discard, Return
<1>6. ASSUME NEW c \in Calls, CollectReply(c)
      PROVE  CallsTypeOK'
  <2>1. PICK i \in DOMAIN inQueue :
          /\ IF i > 1 THEN Discard(c) ELSE UNCHANGED discarded
          /\ \E value \in {inQueue[i], "incomplete"} : Return(c, value)
          /\ inQueue' = RemoveAt(inQueue, i)
    BY <1>6 DEF CollectReply
  <2>2. inQueue' \in Seq(Calls) /\ inQueue[i] \in Calls
    BY <2>1, ReplyRemoved
  <2>3. UNCHANGED <<unanswered, socket>>
    BY <1>6 DEF CollectReply
  <2>4. QED
    BY <2>1, <2>2, <2>3 DEF Discard, Return
<1>7. ASSUME NEW c \in Calls, CollectOthers(c)
      PROVE  CallsTypeOK'
  BY <1>7 DEF CollectOthers, DiscardOnly, Discard, Return
<1>8. ASSUME NEW c \in Calls, Reply(c)
      PROVE  CallsTypeOK'
  BY <1>8, ReplyAppended DEF Reply
<1>9. CASE UNCHANGED callVars
  BY <1>9 DEF callVars
<1>10. QED
  BY <1>1, <1>2, <1>3, <1>4, <1>5, <1>6, <1>7, <1>8, <1>9 DEF CallsNext, Turn

\* What CollectReply does, with the place of the reply named.
LEMMA CollectReplyFacts ==
  ASSUME CallsTypeOK, NEW c \in Calls, CollectReply(c)
  PROVE  \E i \in DOMAIN inQueue :
           /\ inQueue[i] = c
           /\ state[c] = "stopped"
           /\ discarded \subseteq discarded' /\ discarded' \subseteq discarded \cup {c}
           /\ state' = [state EXCEPT ![c] = "returned"]
           /\ result' = [result EXCEPT ![c] = c] \/ result' = [result EXCEPT ![c] = "incomplete"]
           /\ lock' = lock \ {c}
           /\ UNCHANGED <<unanswered, socket>>
           /\ \A j \in DOMAIN inQueue' :
                \E k \in DOMAIN inQueue \ {i} :
                  inQueue'[j] = inQueue[k] /\ k = IF j < i THEN j ELSE j + 1
           /\ DOMAIN inQueue' \subseteq Nat
<1>1. PICK i \in DOMAIN inQueue :
        /\ IsReplyTo(inQueue[i], c)
        /\ IF i > 1 THEN Discard(c) ELSE UNCHANGED discarded
        /\ \E value \in {inQueue[i], "incomplete"} : Return(c, value)
        /\ inQueue' = RemoveAt(inQueue, i)
  BY DEF CollectReply
<1>2. inQueue \in Seq(Calls)
  BY DEF CallsTypeOK
<1>3. /\ RemoveAt(inQueue, i) \in Seq(Calls)
      /\ \A j \in DOMAIN RemoveAt(inQueue, i) :
           \E k \in DOMAIN inQueue \ {i} :
             RemoveAt(inQueue, i)[j] = inQueue[k] /\ k = IF j < i THEN j ELSE j + 1
  BY <1>2, ReplyRemoved
<1>4. inQueue[i] = c
  BY <1>1 DEF IsReplyTo
<1>5. state[c] = "stopped" /\ UNCHANGED <<unanswered, socket>>
  BY DEF CollectReply
<1>6. discarded \subseteq discarded' /\ discarded' \subseteq discarded \cup {c}
  BY <1>1 DEF Discard
<1>7. /\ state' = [state EXCEPT ![c] = "returned"]
      /\ lock' = lock \ {c}
      /\ result' = [result EXCEPT ![c] = c] \/ result' = [result EXCEPT ![c] = "incomplete"]
  BY <1>1, <1>4 DEF Return
<1>8. DOMAIN inQueue' \subseteq Nat
  BY <1>1, <1>3
<1>9. QED
  BY <1>1, <1>3, <1>4, <1>5, <1>6, <1>7, <1>8

\* The lock stays with whom it serves.
LEMMA LockStep ==
  ASSUME CallsTypeOK, LockInv, [CallsNext]_callVars
  PROVE  LockInv'
<1> USE DEF LockInv, Serving, CallsTypeOK
<1>1. ASSUME NEW c \in Calls, NEW value \in {"ok", "malformed"}, ReturnAtOnce(c, value)
      PROVE  LockInv'
  BY <1>1 DEF ReturnAtOnce, Return, Free
<1>2. ASSUME NEW c \in Calls, ComputePath(c) \/ Fault(c)
      PROVE  LockInv'
  BY <1>2 DEF ComputePath, Fault, Free
<1>3. ASSUME NEW c \in Calls, Read(c)
      PROVE  LockInv'
  BY <1>3 DEF Read
<1>4. ASSUME NEW c \in Calls, Timeout(c) \/ FaultInReply(c)
      PROVE  LockInv'
  BY <1>4 DEF Timeout, FaultInReply
<1>5. ASSUME NEW c \in Calls, CollectNothing(c) \/ CollectOthers(c)
      PROVE  LockInv'
  BY <1>5 DEF CollectNothing, CollectOthers, Return
<1>6. ASSUME NEW c \in Calls, CollectReply(c)
      PROVE  LockInv'
  BY <1>6, CollectReplyFacts
<1>7. ASSUME NEW c \in Calls, Reply(c)
      PROVE  LockInv'
  BY <1>7 DEF Reply
<1>8. CASE UNCHANGED callVars
  BY <1>8 DEF callVars
<1>9. QED
  BY <1>1, <1>2, <1>3, <1>4, <1>5, <1>6, <1>7, <1>8 DEF CallsNext, Turn

\* A reply moves from the core to the socket, to the queue and away.
LEMMA CallReplyStep ==
  ASSUME CallsTypeOK, CallReplyInv, BegunInv, [CallsNext]_callVars
  PROVE  CallReplyInv'
<1> USE DEF CallReplyInv, NoRepeat
<1>1. ASSUME NEW c \in Calls, NEW value \in {"ok", "malformed"}, ReturnAtOnce(c, value)
      PROVE  CallReplyInv'
  BY <1>1 DEF ReturnAtOnce
<1>2. ASSUME NEW c \in Calls, ComputePath(c)
      PROVE  CallReplyInv'
  BY <1>2 DEF ComputePath, BegunInv
<1>3. ASSUME NEW c \in Calls, Read(c)
      PROVE  CallReplyInv'
  <2>1. socket \in Seq(Calls) /\ inQueue \in Seq(Calls) /\ socket # <<>>
    BY <1>3 DEF CallsTypeOK, Read
  <2>2. /\ inQueue' = Append(inQueue, Head(socket))
        /\ socket' = Tail(socket)
        /\ unanswered' = unanswered
    BY <1>3 DEF Read
  <2>3. /\ Head(socket) = socket[1] /\ 1 \in DOMAIN socket
        /\ \A i \in DOMAIN socket' :
             i \in Nat /\ i + 1 \in DOMAIN socket /\ i + 1 # 1 /\ socket'[i] = socket[i + 1]
    <3>1. \A i \in DOMAIN Tail(socket) : i \in Nat
      BY <2>1
    <3>2. QED
      BY <2>1, <2>2, <3>1, ReplyTaken
  <2>4. \A i \in DOMAIN inQueue' :
          \/ inQueue'[i] = socket[1] /\ i = Len(inQueue) + 1
          \/ inQueue'[i] = inQueue[i] /\ i \in DOMAIN inQueue
    BY <2>1, <2>2, <2>3, ReplyAppended
  <2>5. NoRepeat(socket')
    BY <2>3
  <2>6. NoRepeat(inQueue')
    BY <2>3, <2>4
  <2>7. \A i \in DOMAIN socket', j \in DOMAIN inQueue' : socket'[i] # inQueue'[j]
    BY <2>3, <2>4
  <2>8. QED
    BY <2>2, <2>3, <2>4, <2>5, <2>6, <2>7, ZenonT(30)
<1>4. ASSUME NEW c \in Calls, Timeout(c) \/ Fault(c) \/ FaultInReply(c)
      PROVE  CallReplyInv'
  BY <1>4 DEF Timeout, Fault, FaultInReply
<1>5. ASSUME NEW c \in Calls, CollectNothing(c) \/ CollectOthers(c)
      PROVE  CallReplyInv'
  BY <1>5 DEF CollectNothing, CollectOthers
<1>6. ASSUME NEW c \in Calls, CollectReply(c)
      PROVE  CallReplyInv'
  <2>1. PICK i \in DOMAIN inQueue :
          /\ UNCHANGED <<unanswered, socket>>
          /\ \A j \in DOMAIN inQueue' :
               \E k \in DOMAIN inQueue \ {i} :
                 inQueue'[j] = inQueue[k] /\ k = IF j < i THEN j ELSE j + 1
          /\ DOMAIN inQueue' \subseteq Nat
    BY <1>6, CollectReplyFacts
  <2>2. i \in Nat
    BY DEF CallsTypeOK
  <2>3. NoRepeat(inQueue')
    <3>1. SUFFICES ASSUME NEW a \in DOMAIN inQueue', NEW b \in DOMAIN inQueue',
                          inQueue'[a] = inQueue'[b]
                   PROVE  a = b
      OBVIOUS
    <3>2. (IF a < i THEN a ELSE a + 1) = (IF b < i THEN b ELSE b + 1)
      BY <2>1, <3>1
    <3>3. QED
      BY <2>1, <2>2, <3>2
  <2>4. QED
    BY <2>1, <2>3
<1>7. ASSUME NEW c \in Calls, Reply(c)
      PROVE  CallReplyInv'
  <2>1. /\ socket \in Seq(Calls)
        /\ c \in unanswered
        /\ socket' = Append(socket, c)
        /\ unanswered' = unanswered \ {c}
        /\ inQueue' = inQueue
    BY <1>7 DEF Reply, CallsTypeOK
  <2>2. \A i \in DOMAIN socket' :
          \/ socket'[i] = c /\ i = Len(socket) + 1
          \/ socket'[i] = socket[i] /\ i \in DOMAIN socket
    BY <2>1, ReplyAppended
  <2>3. QED
    BY <2>1, <2>2
<1>8. CASE UNCHANGED callVars
  BY <1>8 DEF callVars
<1>9. QED
  BY <1>1, <1>2, <1>3, <1>4, <1>5, <1>6, <1>7, <1>8 DEF CallsNext, Turn

\* A call that ends leaves no reply that is not known: it took its own away or discarded it.
LEMMA KnownStep ==
  ASSUME CallInv, [CallsNext]_callVars
  PROVE  KnownInv' /\ BegunInv'
<1> USE DEF CallInv, KnownInv, BegunInv, Known, Serving, CallsTypeOK
<1>1. ASSUME NEW c \in Calls, NEW value \in {"ok", "malformed"}, ReturnAtOnce(c, value)
      PROVE  KnownInv' /\ BegunInv'
  BY <1>1 DEF ReturnAtOnce, Return
<1>2. ASSUME NEW c \in Calls, ComputePath(c)
      PROVE  KnownInv' /\ BegunInv'
  BY <1>2 DEF ComputePath
<1>3. ASSUME NEW c \in Calls, Read(c)
      PROVE  KnownInv' /\ BegunInv'
  <2>1. /\ socket # <<>>
        /\ inQueue' = Append(inQueue, Head(socket))
        /\ socket' = Tail(socket)
        /\ UNCHANGED <<unanswered, discarded>>
        /\ state' = state \/ state' = [state EXCEPT ![c] = "stopped"]
        /\ state[c] = "looping"
    BY <1>3 DEF Read
  <2>2. \A i \in DOMAIN inQueue' :
          \/ inQueue'[i] = socket[1] /\ 1 \in DOMAIN socket
          \/ inQueue'[i] = inQueue[i] /\ i \in DOMAIN inQueue
    BY <2>1, ReplyAppended, ReplyTaken
  <2>3. \A i \in DOMAIN socket' : \E j \in DOMAIN socket : socket'[i] = socket[j]
    BY <2>1, ReplyTaken
  <2>4. \A d \in Calls : (Serving(d) => Serving(d)') /\ (state[d] # "new" => state'[d] # "new")
    BY <2>1
  <2>5. /\ \A i \in DOMAIN socket : socket[i] \in Calls
        /\ \A i \in DOMAIN inQueue : inQueue[i] \in Calls
    OBVIOUS
  <2>6. QED
    BY <2>1, <2>2, <2>3, <2>4, <2>5
<1>4. ASSUME NEW c \in Calls, Timeout(c) \/ Fault(c) \/ FaultInReply(c)
      PROVE  KnownInv' /\ BegunInv'
  BY <1>4 DEF Timeout, Fault, FaultInReply
<1>5. ASSUME NEW c \in Calls, CollectNothing(c) \/ CollectOthers(c)
      PROVE  KnownInv' /\ BegunInv'
  BY <1>5 DEF CollectNothing, CollectOthers, DiscardOnly, Discard, Return
<1>6. ASSUME NEW c \in Calls, CollectReply(c)
      PROVE  KnownInv' /\ BegunInv'
  <2>1. PICK i \in DOMAIN inQueue :
          /\ inQueue[i] = c
          /\ state[c] = "stopped"
          /\ discarded \subseteq discarded' /\ discarded' \subseteq discarded \cup {c}
          /\ state' = [state EXCEPT ![c] = "returned"]
          /\ UNCHANGED <<unanswered, socket>>
          /\ \A j \in DOMAIN inQueue' :
               \E k \in DOMAIN inQueue \ {i} : inQueue'[j] = inQueue[k]
    BY <1>6, CollectReplyFacts
  <2>2. \A j \in DOMAIN inQueue' :
          \E k \in DOMAIN inQueue : inQueue'[j] = inQueue[k] /\ inQueue[k] # c
    BY <2>1 DEF CallReplyInv, NoRepeat
  <2>3. c \notin unanswered /\ \A j \in DOMAIN socket : socket[j] # c
    BY <2>1 DEF CallReplyInv
  <2>4. \A d \in Calls : d # c => state'[d] = state[d]
    BY <2>1
  <2>5. state'[c] = "returned"
    BY <2>1
  <2>6. /\ \A j \in DOMAIN socket : socket[j] \in Calls
        /\ \A j \in DOMAIN inQueue : inQueue[j] \in Calls
    OBVIOUS
  <2>7. \A d \in Calls : d # c /\ Known(d) => Known(d)'
    BY <2>1, <2>4
  <2>8. \A d \in Calls : state[d] # "new" => state'[d] # "new"
    BY <2>4, <2>5
  <2>9. KnownInv'
    BY <2>1, <2>2, <2>3, <2>6, <2>7
  <2>10. BegunInv'
    BY <2>1, <2>2, <2>3, <2>5, <2>6, <2>8
  <2>11. QED
    BY <2>9, <2>10
<1>7. ASSUME NEW c \in Calls, Reply(c)
      PROVE  KnownInv' /\ BegunInv'
  <2>1. /\ c \in unanswered
        /\ socket' = Append(socket, c)
        /\ unanswered' = unanswered \ {c}
        /\ UNCHANGED <<state, inQueue, discarded>>
    BY <1>7 DEF Reply
  <2>2. \A i \in DOMAIN socket' :
          \/ socket'[i] = c
          \/ socket'[i] = socket[i] /\ i \in DOMAIN socket
    BY <2>1, ReplyAppended
  <2>3. QED
    BY <2>1, <2>2
<1>8. CASE UNCHANGED callVars
  BY <1>8 DEF callVars
<1>9. QED
  BY <1>1, <1>2, <1>3, <1>4, <1>5, <1>6, <1>7, <1>8 DEF CallsNext, Turn

\* The invariants hold at the start and every step keeps them.
LEMMA CallInvariance == CallsSpec => []CallInv
<1>1. CallsInit => CallInv
  BY DEF CallsInit, CallInv, CallsTypeOK, LockInv, CallReplyInv, NoRepeat, KnownInv, BegunInv, Serving
<1>2. CallInv /\ [CallsNext]_callVars => CallInv'
  BY CallTypeStep, LockStep, CallReplyStep, KnownStep DEF CallInv
<1>3. QED
  BY <1>1, <1>2, PTL DEF CallsSpec

-----------------------------------------------------------------------------
\* Every variable keeps to its type, for every set of calls.
THEOREM CallTypesCorrect == CallsSpec => []CallsTypeOK
<1>1. CallInv => CallsTypeOK
  BY DEF CallInv
<1>2. QED
  BY <1>1, CallInvariance, PTL

\* One call at a time uses the port and the event loop.
THEOREM ServedAlone == CallsSpec => []OneServed
<1>1. CallInv => OneServed
  BY DEF CallInv, LockInv, Serving, OneServed, CallsTypeOK
<1>2. QED
  BY <1>1, CallInvariance, PTL

\* A loop that a reply stops has its own reply: whatever else is in the queue was
\* discarded by a call that gave up, and none of it is there twice.
THEOREM OwnReplyStops == CallsSpec => StopsForItsReply
<1> DEFINE Stops == \A c \in Calls : Read(c) /\ state'[c] = "stopped" => c \in ToSet(inQueue')
<1>1. CallInv /\ CallInv' /\ [CallsNext]_callVars => Stops
  <2>1. SUFFICES ASSUME CallInv, CallInv', NEW c \in Calls, Read(c), state'[c] = "stopped"
                 PROVE  c \in ToSet(inQueue')
    OBVIOUS
  <2>2. HasValidMessage(inQueue')
    BY <2>1 DEF Read
  <2>3. PICK i \in DOMAIN inQueue' :
          inQueue'[i] \notin discarded \/ \E j \in 1 .. i - 1 : inQueue'[j] = inQueue'[i]
    BY <2>2 DEF HasValidMessage
  <2>4. inQueue' \in Seq(Calls) /\ i \in Nat /\ inQueue'[i] \in Calls
    BY <2>1 DEF CallInv, CallsTypeOK
  <2>5. \A j \in 1 .. i - 1 : j \in DOMAIN inQueue' /\ j # i
    BY <2>4
  <2>6. inQueue'[i] \notin discarded
    BY <2>1, <2>3, <2>5 DEF CallInv, CallReplyInv, NoRepeat
  <2>7. state'[inQueue'[i]] \in {"looping", "stopped", "faulted"}
    BY <2>1, <2>6 DEF CallInv, KnownInv, Known, Serving, Read
  <2>8. inQueue'[i] \in lock' /\ c \in lock'
    BY <2>1, <2>4, <2>7 DEF CallInv, LockInv, Serving
  <2>9. inQueue'[i] = c
    BY <2>1, <2>8 DEF CallInv, LockInv
  <2>10. QED
    BY <2>9 DEF ToSet
<1>2. CallInv /\ CallInv' /\ [CallsNext]_callVars => [Stops]_callVars
  BY <1>1
<1>3. QED
  BY <1>2, CallInvariance, PTL DEF CallsSpec, StopsForItsReply

\* No call is given the manifest of another.
THEOREM ManifestsOwn == CallsSpec => []OwnManifest
<1>1. CallsInit => OwnManifest
  BY CallsAssumption DEF CallsInit, OwnManifest
<1>2. ASSUME CallsTypeOK, OwnManifest, [CallsNext]_callVars
      PROVE  OwnManifest'
  <2> USE <1>2, CallsAssumption DEF OwnManifest, CallsTypeOK
  <2>1. ASSUME NEW c \in Calls, NEW value \in {"ok", "malformed"}, ReturnAtOnce(c, value)
        PROVE  OwnManifest'
    BY <2>1 DEF ReturnAtOnce, Return
  <2>2. ASSUME NEW c \in Calls, CollectNothing(c) \/ CollectOthers(c)
        PROVE  OwnManifest'
    BY <2>2 DEF CollectNothing, CollectOthers, Return
  <2>3. ASSUME NEW c \in Calls, CollectReply(c)
        PROVE  OwnManifest'
    BY <2>3, CollectReplyFacts
  <2>4. ASSUME NEW c \in Calls,
               \/ ComputePath(c) \/ Read(c) \/ Timeout(c)
               \/ Fault(c) \/ FaultInReply(c) \/ Reply(c)
        PROVE  OwnManifest'
    BY <2>4 DEF ComputePath, Read, Timeout, Fault, FaultInReply, Reply
  <2>5. CASE UNCHANGED callVars
    BY <2>5 DEF callVars
  <2>6. QED
    BY <2>1, <2>2, <2>3, <2>4, <2>5 DEF CallsNext, Turn
<1>3. QED
  BY <1>1, <1>2, CallTypesCorrect, PTL DEF CallsSpec
=============================================================================

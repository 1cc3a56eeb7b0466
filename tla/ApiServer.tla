----------------------------- MODULE ApiServer -----------------------------
(***************************************************************************)
(* The binary API server: one thread, one event loop.  It accepts          *)
(* connections, reads requests from them, collects the requests of a group *)
(* by their GRI, posts them to the core and writes the core's answers to   *)
(* the connection apiClientConns remembers for the GRI.  A connection is   *)
(* remembered by the address of its reader, and an address is used again   *)
(* when the reader is deleted.  The map is keyed by the GRI alone.         *)
(*                                                                         *)
(* The event loop knows a connection by the number of its descriptor.  A   *)
(* connection that is closed leaves the bits of its number in the sets of  *)
(* the loop, and its number to the next socket of the process.             *)
(***************************************************************************)
EXTENDS Naturals, Sequences, FiniteSets, SequencesExt, EventList

CONSTANTS Client,     \* the clients, each connects at most once
          Order,      \* the order in which they connect
          Address,    \* where a reader can be allocated, by numbers
          Gri,        \* the GRIs of requests (an empty one becomes "ucid-seqnum")
          Message,    \* what clients send
          Descriptor, \* the numbers that sockets get, but those of "port" and "listen"
          Wild,       \* the number that FD_ISSET and FD_CLR take -1 for (63 on x86-64)
          Nobody,     \* no client, no reader, and the descriptor of a closed socket
          MaxSends,   \* bound on the messages of all clients
          MaxLeaves   \* bound on the clients that leave of their own accord

Kind == {"single", "member", "last", "other", "corrupt"}

ASSUME MessageAssumption == Message \subseteq [gri : Gri, kind : Kind]

ASSUME BoundAssumption == MaxSends \in Nat /\ MaxLeaves \in Nat

ASSUME ClientAssumption ==
  /\ "listen" \notin Client /\ "port" \notin Client
  /\ Order \in [Client -> Nat]

ASSUME AddressAssumption ==
  /\ Nobody \notin Client \cup Address /\ Address \subseteq Nat
  /\ Cardinality(Address) >= Cardinality(Client)   \* there is memory for every reader

ASSUME DescriptorAssumption ==
  /\ Descriptor \subseteq Nat /\ Nobody \notin Descriptor
  /\ Wild \in Descriptor \cup {Nobody}
  /\ Cardinality(Descriptor) >= Cardinality(Client)

VARIABLES peer,       \* peer[k]: "away", "connecting", "joined" or "left"
          inbox,      \* inbox[k]: messages on the socket of k not yet read
          got,        \* got[k]: what has been written to k
          sends,      \* messages sent so far
          up,         \* the process runs
          fd,         \* fd[k]: the descriptor of the reader and of the writer of k
          others,     \* the numbers that sockets of other threads have
          readfd,     \* the loop's set of descriptors to select for reading
          writefd,    \* and for writing
          owner,      \* owner[a]: whose reader is allocated at a
          queue,      \* queue[k]: msgQueue of k's writer
          reads,      \* the event loop's list of readers: "listen", "port" and clients
          writes,     \* its list of writers
          ready,      \* its list of ready events
          group,      \* userConsGroupCache: group[g], the clients that sent its members
          clientConn, \* apiClientConns
          pending,    \* requests the core has not answered
          replies,    \* the core's replies in the thread's message port
          asked,      \* history: asked[k], the GRIs of the requests read from k
          gathering,  \* history: gathering[g], whose group for g is not complete
          clash,      \* history: GRIs used by two requests at one time
          gone,       \* history: GRIs whose connection went before the answer
          heirs       \* history: clients that got a number with a bit still set

client == <<peer, inbox, sends>>
sockets == <<fd, others>>
bits == <<readfd, writefd>>
loop == <<reads, writes, ready, bits>>
core == <<pending, replies>>
seen == <<asked, gathering, clash>>
vars == <<client, got, up, sockets, owner, queue, loop, group, clientConn, core, seen, gone, heirs>>

Init ==
  /\ peer = [k \in Client |-> "away"]
  /\ inbox = [k \in Client |-> <<>>]
  /\ got = [k \in Client |-> <<>>]
  /\ sends = 0
  /\ up = TRUE
  /\ fd = [k \in Client |-> Nobody]
  /\ others = {}
  /\ readfd = {} /\ writefd = {}
  /\ owner = [a \in Address |-> Nobody]
  /\ queue = [k \in Client |-> <<>>]
  /\ reads = <<"port", "listen">>
  /\ writes = <<>>
  /\ ready = <<>>
  /\ group = [g \in Gri |-> <<>>]
  /\ clientConn = [g \in Gri |-> Nobody]
  /\ pending = <<>>
  /\ replies = <<>>
  /\ asked = [k \in Client |-> {}]
  /\ gathering = [g \in Gri |-> {}]
  /\ clash = {}
  /\ gone = {}
  /\ heirs = {}

-----------------------------------------------------------------------------
\* A client connects, sends a message or closes its socket, in its own time, as long as
\* there is a server.
Connect(k) ==
  /\ up
  /\ peer[k] = "away"
  /\ \A d \in Client : Order[d] < Order[k] => peer[d] # "away"
  /\ peer' = [peer EXCEPT ![k] = "connecting"]
  /\ UNCHANGED <<inbox, sends, got, up, sockets, owner, queue, loop, group, clientConn, core,
                 seen, gone, heirs>>

Send(k, m) ==
  /\ up
  /\ peer[k] \in {"connecting", "joined"}
  /\ sends < MaxSends
  /\ sends' = sends + 1
  /\ inbox' = [inbox EXCEPT ![k] = Append(@, m)]
  /\ UNCHANGED <<peer, got, up, sockets, owner, queue, loop, group, clientConn, core, seen,
                 gone, heirs>>

Leave(k) ==
  /\ up
  /\ peer[k] = "joined"
  /\ Cardinality({d \in Client : peer[d] = "left"}) < MaxLeaves
  /\ peer' = [peer EXCEPT ![k] = "left"]
  /\ UNCHANGED <<inbox, sends, got, up, sockets, owner, queue, loop, group, clientConn, core,
                 seen, gone, heirs>>

\* The core answers with one result, or with one for each request of a group.
Answer(i) ==
  /\ up
  /\ i \in DOMAIN pending
  /\ pending' = RemoveAt(pending, i)
  /\ \E n \in {1, Len(pending[i].from)} :
       replies' = Append(replies, [gri |-> pending[i].gri, results |-> n])
  /\ UNCHANGED <<client, got, up, sockets, owner, queue, loop, group, clientConn, seen, gone,
                 heirs>>

\* A new socket gets the lowest number that none has.
Taken == others \cup {fd[k] : k \in Client}
Unused == Descriptor \ Taken
IsNext(n) == n \in Unused /\ \A m \in Unused : n <= m

\* Other threads open and close sockets in their own time (the limit of the process is not
\* reached: there is a number for every client that may still connect).
OpenElsewhere(n) ==
  /\ up
  /\ IsNext(n)
  /\ Cardinality(Unused) > Cardinality({k \in Client : peer[k] \in {"away", "connecting"}})
  /\ others' = others \cup {n}
  /\ UNCHANGED <<client, got, up, fd, owner, queue, loop, group, clientConn, core, seen, gone,
                 heirs>>

CloseElsewhere(n) ==
  /\ up
  /\ n \in others
  /\ others' = others \ {n}
  /\ UNCHANGED <<client, got, up, fd, owner, queue, loop, group, clientConn, core, seen, gone,
                 heirs>>

-----------------------------------------------------------------------------
\* A bit for a number that no socket has: select fails with EBADF, Fetch returns NULL and
\* the loop turns without reading, until some thread gets the number.
Deaf == ~(readfd \cup writefd \subseteq Taken)

Readable(x) ==
  CASE x = "listen" -> \E k \in Client : peer[k] = "connecting"
    [] x = "port"   -> replies # <<>>
    [] OTHER        -> inbox[x] # <<>> \/ peer[x] = "left"

\* The number by which ModifyFDSets looks for a listed connection.
Number(k) == IF fd[k] = Nobody THEN Wild ELSE fd[k]

\* EventMaster::Fetch: what select finds readable, then what it finds writable (replies fit
\* the buffer of their socket, so every client is; a socket of another thread may be both).
Fetch ==
  /\ up
  /\ ready = <<>>
  /\ ~Deaf
  /\ \E r \in SUBSET (readfd \cap others), w \in SUBSET (writefd \cap others) :
       LET readable == r \cup {fd[k] : k \in {c \in Client : fd[c] \in readfd /\ Readable(c)}}
           writable == w \cup (writefd \ others)
           readers == {x \in ToSet(reads) : IF x \in Client THEN Number(x) \in readable
                                            ELSE Readable(x)}
           writers == {k \in ToSet(writes) : Number(k) \in writable}
           Tagged(seq, how) == [i \in DOMAIN seq |-> <<how, seq[i]>>]
       IN /\ ready' = Tagged(Sieve(reads, readers), "read") \o Tagged(Sieve(writes, writers), "write")
          /\ ready' # <<>>
          /\ reads' = Sieve(reads, ToSet(reads) \ readers)
          /\ writes' = Sieve(writes, ToSet(writes) \ writers)
          /\ readfd' = readfd \ {Number(k) : k \in readers \cap Client}
          /\ writefd' = writefd \ {Number(k) : k \in writers}
  /\ UNCHANGED <<client, got, up, sockets, owner, queue, group, clientConn, core, seen, gone, heirs>>

Runs(how, x) ==
  /\ up
  /\ ready # <<>>
  /\ Head(ready) = <<how, x>>
  /\ ready' = Tail(ready)

\* Schedule: an event whose bit is set is taken to be in the list already.
ListedOrNot(list, x, set, n) == IF n \in set THEN list ELSE Append(list, x)

\* A reader is put where one was deleted, or at a new place: those are taken in their order,
\* being all alike.
Allocates(a) ==
  /\ owner[a] = Nobody
  /\ a <= Cardinality({k \in Client : peer[k] \in {"joined", "left"}}) + 1

\* APIServer::Run: a number, a reader and a writer for the new connection; the reader is
\* scheduled.
Accept(k) ==
  /\ Runs("read", "listen")
  /\ peer[k] = "connecting"
  /\ \A d \in Client : peer[d] = "connecting" => Order[k] <= Order[d]
  /\ peer' = [peer EXCEPT ![k] = "joined"]
  /\ \E a \in Address : Allocates(a) /\ owner' = [owner EXCEPT ![a] = k]
  /\ \E n \in Unused :
       /\ IsNext(n)
       /\ fd' = [fd EXCEPT ![k] = n]
       /\ reads' = Append(ListedOrNot(reads, k, readfd, n), "listen")
       /\ readfd' = readfd \cup {n}
       /\ heirs' = IF n \in readfd \cup writefd THEN heirs \cup {k} ELSE heirs
  /\ UNCHANGED <<inbox, sends, got, up, others, queue, writes, writefd, group, clientConn, core,
                 seen, gone>>

ReaderOf_Any(k) == CHOOSE a \in Address : owner[a] # Nobody

ReaderOf(k) == CHOOSE a \in Address : owner[a] = k

\* GRIs that wait for an answer on the connection of k, or for the rest of their group.
Waiting(k) == {g \in Gri : clientConn[g] = ReaderOf(k) \/ k \in ToSet(group[g])}

\* APIReader::Run when the client has left, or its message is not one: both ends are
\* closed, and the loop deletes the reader.  Its GRIs stay in the maps, and the bit of its
\* writer in writefd, if it is there.
ReadFails(k) ==
  /\ Runs("read", k)
  /\ fd[k] # Nobody
  /\ \/ inbox[k] = <<>>
     \/ inbox[k] # <<>> /\ Head(inbox[k]).kind = "corrupt"
  /\ fd' = [fd EXCEPT ![k] = Nobody]
  /\ owner' = [owner EXCEPT ![ReaderOf(k)] = Nobody]
  /\ inbox' = [inbox EXCEPT ![k] = <<>>]
  /\ peer' = [peer EXCEPT ![k] = "left"]
  /\ gone' = gone \cup Waiting(k)
  /\ UNCHANGED <<sends, got, up, others, queue, reads, writes, bits, group, clientConn, core, seen,
                 heirs>>

\* APIReader::Run when the writer has closed the socket: the loop deletes the reader.
ReadNothing(k) ==
  /\ Runs("read", k)
  /\ fd[k] = Nobody
  /\ owner' = [owner EXCEPT ![ReaderOf(k)] = Nobody]
  /\ UNCHANGED <<client, got, up, sockets, queue, reads, writes, bits, group, clientConn, core, seen,
                 gone, heirs>>

\* A GRI is in use from its first message to its answer.
InUse(g) ==
  \/ clientConn[g] # Nobody
  \/ \E i \in DOMAIN pending : pending[i].gri = g
  \/ \E i \in DOMAIN replies : replies[i].gri = g

\* The request is posted and the connection remembered for its GRI.
Post(k, g, from) ==
  /\ pending' = Append(pending, [gri |-> g, from |-> from])
  /\ clientConn' = [clientConn EXCEPT ![g] = ReaderOf(k)]

\* HandleAPIMessage, a request on its own.
HandleSingle(k, g) ==
  /\ Post(k, g, <<k>>)
  /\ UNCHANGED group

\* AddGroup for every member; the last one posts the group and DeleteGroup.
HandleMember(k, g) ==
  /\ group' = [group EXCEPT ![g] = Append(@, k)]
  /\ UNCHANGED <<pending, clientConn>>

HandleLast_NoConn(k, g) ==
  /\ group' = [group EXCEPT ![g] = <<>>]
  /\ pending' = Append(pending, [gri |-> g, from |-> Append(group[g], k)])
  /\ UNCHANGED clientConn

HandleLast(k, g) ==
  /\ group' = [group EXCEPT ![g] = <<>>]
  /\ Post(k, g, Append(group[g], k))

\* Other types of message are logged and dropped.
HandleOther == UNCHANGED <<group, pending, clientConn>>

\* What the histories record of a message.
Observe(k, m) ==
  IF m.kind = "other" THEN UNCHANGED seen
  ELSE /\ asked' = [asked EXCEPT ![k] = @ \cup {m.gri}]
       /\ gathering' = [gathering EXCEPT ![m.gri] =
            CASE m.kind = "member" -> @ \cup {k} [] m.kind = "last" -> {} [] OTHER -> @]
       /\ clash' = IF InUse(m.gri) \/ gathering[m.gri] \ {k} # {} THEN clash \cup {m.gri}
                   ELSE clash

HandleAPIMessage(k) ==
  /\ Runs("read", k)
  /\ fd[k] # Nobody
  /\ inbox[k] # <<>>
  /\ inbox' = [inbox EXCEPT ![k] = Tail(@)]
  /\ LET m == Head(inbox[k]) IN
       /\ \/ m.kind = "single" /\ HandleSingle(k, m.gri)
          \/ m.kind = "member" /\ HandleMember(k, m.gri)
          \/ m.kind = "last" /\ HandleLast(k, m.gri)
          \/ m.kind = "other" /\ HandleOther
       /\ Observe(k, m)
  /\ reads' = ListedOrNot(reads, k, readfd, fd[k])
  /\ readfd' = readfd \cup {fd[k]}
  /\ UNCHANGED <<peer, sends, got, up, sockets, owner, queue, writes, writefd, replies, gone, heirs>>

-----------------------------------------------------------------------------
\* Schedule for a writer: one without a socket becomes obsolete instead.
ScheduleWriter(k) ==
  IF fd[k] = Nobody THEN UNCHANGED <<writes, writefd>>
  ELSE /\ writes' = ListedOrNot(writes, k, writefd, fd[k])
       /\ writefd' = writefd \cup {fd[k]}

\* PostMessage of every result: the writer is scheduled when its queue was empty.
PostReplies(k, r) ==
  /\ queue' = [queue EXCEPT ![k] =
                 @ \o [i \in 1 .. r.results |->
                         [gri |-> r.gri, grouped |-> r.results > 1, last |-> r.results \in {1, i}]]]
  /\ IF queue[k] = <<>> THEN ScheduleWriter(k) ELSE UNCHANGED <<writes, writefd>>

\* hookHandleMessage: without a connection for the GRI the exception ends the process.  A
\* reader that was deleted is read nevertheless: what is left there may do or not.
HandleReply ==
  /\ Runs("read", "port")
  /\ reads' = Append(reads, "port")
  /\ replies' = Tail(replies)
  /\ LET r == Head(replies)
         a == clientConn[r.gri]
     IN \/ /\ a # Nobody
           /\ owner[a] # Nobody
           /\ PostReplies(owner[a], r)
           /\ UNCHANGED up
        \/ /\ a # Nobody
           /\ owner[a] = Nobody
           /\ up' \in BOOLEAN
           /\ UNCHANGED <<queue, writes, writefd>>
        \/ /\ a = Nobody
           /\ up' = FALSE
           /\ UNCHANGED <<queue, writes, writefd>>
  /\ clientConn' = [clientConn EXCEPT ![Head(replies).gri] = Nobody]
  /\ UNCHANGED <<client, got, sockets, owner, readfd, group, pending, seen, gone, heirs>>

-----------------------------------------------------------------------------
\* APIWriter::Run when the socket was closed in the meantime.
WriteNothing(k) ==
  /\ Runs("write", k)
  /\ fd[k] = Nobody
  /\ UNCHANGED <<client, got, up, sockets, owner, queue, reads, writes, bits, group, clientConn, core,
                 seen, gone, heirs>>

Write_Once(k) ==
  /\ Runs("write", k)
  /\ fd[k] # Nobody
  /\ queue' = [queue EXCEPT ![k] = Tail(@)]
  /\ got' = [got EXCEPT ![k] = Append(@, Head(queue[k]))]
  /\ UNCHANGED <<client, up, sockets, owner, reads, writes, bits, group, clientConn, core, seen, gone,
                 heirs>>

\* One message is written; while there are more the writer is scheduled again.
Write(k) ==
  /\ Runs("write", k)
  /\ fd[k] # Nobody
  /\ queue' = [queue EXCEPT ![k] = Tail(@)]
  /\ got' = [got EXCEPT ![k] = Append(@, Head(queue[k]))]
  /\ IF queue'[k] # <<>> THEN ScheduleWriter(k) ELSE UNCHANGED <<writes, writefd>>
  /\ UNCHANGED <<client, up, sockets, owner, reads, readfd, group, clientConn, core, seen, gone, heirs>>

\* The client has reset the connection since it was selected: the writer closes both ends,
\* the reader's too.
WriteFails(k) ==
  /\ Runs("write", k)
  /\ fd[k] # Nobody
  /\ peer[k] = "left"
  /\ queue' = [queue EXCEPT ![k] = Tail(@)]
  /\ fd' = [fd EXCEPT ![k] = Nobody]
  /\ gone' = gone \cup Waiting(k)
  /\ UNCHANGED <<client, got, up, others, owner, reads, writes, bits, group, clientConn, core, seen,
                 heirs>>

-----------------------------------------------------------------------------
Loop ==
  \/ Fetch
  \/ HandleReply
  \/ \E k \in Client : \/ Accept(k)
                       \/ ReadFails(k) \/ ReadNothing(k) \/ HandleAPIMessage(k)
                       \/ WriteNothing(k) \/ Write(k) \/ WriteFails(k)

Next ==
  \/ Loop
  \/ \E k \in Client : Connect(k) \/ Leave(k) \/ \E m \in Message : Send(k, m)
  \/ \E i \in DOMAIN pending : Answer(i)
  \/ \E n \in Descriptor : OpenElsewhere(n) \/ CloseElsewhere(n)

Spec == Init /\ [][Next]_vars

\* The loop's thread runs, and the core answers (RequestServer).
FairSpec == Spec /\ WF_vars(Loop) /\ WF_vars(\E i \in DOMAIN pending : Answer(i))

-----------------------------------------------------------------------------
\* Every variable keeps to its type.
TypeOK ==
  /\ peer \in [Client -> {"away", "connecting", "joined", "left"}]
  /\ inbox \in [Client -> Seq(Message)]
  /\ got \in [Client -> Seq([gri : Gri, grouped : BOOLEAN, last : BOOLEAN])]
  /\ sends \in 0 .. MaxSends
  /\ up \in BOOLEAN
  /\ fd \in [Client -> Descriptor \cup {Nobody}]
  /\ others \subseteq Descriptor
  /\ readfd \subseteq Descriptor
  /\ writefd \subseteq Descriptor
  /\ owner \in [Address -> Client \cup {Nobody}]
  /\ queue \in [Client -> Seq([gri : Gri, grouped : BOOLEAN, last : BOOLEAN])]
  /\ reads \in Seq(Client \cup {"listen", "port"})
  /\ writes \in Seq(Client)
  /\ ready \in Seq({"read", "write"} \X (Client \cup {"listen", "port"}))
  /\ group \in [Gri -> Seq(Client)]
  /\ clientConn \in [Gri -> Address \cup {Nobody}]
  /\ pending \in Seq([gri : Gri, from : Seq(Client)])
  /\ replies \in Seq([gri : Gri, results : Nat])
  /\ asked \in [Client -> SUBSET Gri]
  /\ gathering \in [Gri -> SUBSET Client]
  /\ clash \subseteq Gri
  /\ gone \subseteq Gri
  /\ heirs \subseteq Client

\* A client is only written answers to GRIs it has asked for: only the answer to a
\* connection that went away can reach the one whose reader was allocated at its address.
\* And the requests posted as one group come from one connection, and from one group of
\* it, unless two used the GRI at once.
OwnReply ==
  /\ \A k \in Client : \A i \in DOMAIN got[k] : got[k][i].gri \in asked[k] \cup gone
  /\ \A i \in DOMAIN pending :
       Cardinality(ToSet(pending[i].from)) = 1 \/ pending[i].gri \in clash

\* The exception of hookHandleMessage that ends the process needs a GRI used twice at one
\* time, or a connection that went away before its answer.
DiesOfStrays == up \/ clash # {} \/ gone # {}

\* The loop keeps listening to a connection, and writes what its writer has: its reader is
\* in the lists exactly once, and its writer too while it has messages (PostMessage schedules
\* it only for the first, the loop again after each one written).  Only a connection that got
\* its number from one that was closed while listed (or through another thread) may be taken
\* for listed when it is not.
Listed(list, x, how) ==
  Cardinality({i \in DOMAIN list : list[i] = x})
    + Cardinality({i \in DOMAIN ready : ready[i] = <<how, x>>})

ConnectionAwake ==
  \A k \in Client \ heirs :
    fd[k] # Nobody => /\ Listed(reads, k, "read") = 1
                      /\ queue[k] # <<>> => Listed(writes, k, "write") = 1

\* A request is answered on its connection, if every client stays and uses its GRIs alone.
Answered ==
  \A k \in Client, g \in Gri :
    (\E i \in DOMAIN pending : pending[i].gri = g /\ Last(pending[i].from) = k)
      ~> \/ \E i \in DOMAIN got[k] : got[k][i].gri = g
         \/ clash # {}
         \/ \E d \in Client : peer[d] = "left"
=============================================================================

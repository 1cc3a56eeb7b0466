---------------------------- MODULE MessagePort ----------------------------
(***************************************************************************)
(* One MessagePipe of common/message.cc: a socketpair between the core     *)
(* thread ("server", where the MessageRouter and its EventMaster run) and  *)
(* one manager, API or worker thread ("client", with an EventMaster of its *)
(* own).  Each end is a MessagePort: a reader event scheduled for ever, a  *)
(* writer event scheduled on demand, an inQueue and an outQueue.           *)
(*                                                                         *)
(* The place of an event in its EventMaster is a subset of {"armed",       *)
(* "ready"}: "armed" is the reads or writes list together with its bit in  *)
(* the descriptor set, "ready" the ready list.  The two events of one end  *)
(* enter the ready list only by ModifyFDSets, the reader first.            *)
(***************************************************************************)
EXTENDS Naturals, Sequences

CONSTANTS Msgs,     \* the messages, each posted at most once
          Urgent,   \* the ones whose IsUrgent() is true
          WireCap   \* messages the socket buffer of one direction holds

ASSUME PortAssumption == Urgent \subseteq Msgs /\ WireCap \in Nat \ {0}

Ends == {"server", "client"}

Peer(e) == IF e = "server" THEN "client" ELSE "server"

VARIABLES sock,       \* the end's descriptor: "new" before AttachPipes, "open", "closed" (-1)
          readerAt,   \* where the end's reader event is
          writerAt,   \* where the end's writer event is
          outQueue,   \* messages waiting for the writer
          wire,       \* wire[e]: written by e, not yet read by its peer
          inQueue,    \* messages read and not yet fetched by GetMessage
          router,     \* the router event: "due" when in the core's priority list, else "idle"
          process,    \* "running", or "aborted" by an uncaught MsgIOException
          posted,     \* history: the messages posted so far
          delivered   \* history: delivered[e], fetched at end e, in order

vars == <<sock, readerAt, writerAt, outQueue, wire, inQueue, router, process,
          posted, delivered>>

\* MessagePort::IsUp: AttachPipes sets it, Close resets it with the descriptor.
Up(e) == sock[e] = "open"

Running == process = "running"

Broken == ~Running \/ \E e \in Ends : sock[e] = "closed"

Init ==
  /\ sock = [e \in Ends |-> "new"]
  /\ readerAt = [e \in Ends |-> {}]
  /\ writerAt = [e \in Ends |-> {}]
  /\ outQueue = [e \in Ends |-> <<>>]
  /\ wire = [e \in Ends |-> <<>>]
  /\ inQueue = [e \in Ends |-> <<>>]
  /\ router = "idle"
  /\ process = "running"
  /\ posted = {}
  /\ delivered = [e \in Ends |-> <<>>]

-----------------------------------------------------------------------------
\* EventMaster::Schedule on a reader or writer: nothing on a closed descriptor,
\* nothing when its bit is set already.
Schedule_StraightToReady(e, at) == IF sock[e] = "open" THEN at \cup {"ready"} ELSE at

Schedule(e, at) == IF sock[e] = "open" THEN at \cup {"armed"} ELSE at

\* EventMaster::Remove takes an event out of the list of its type, reads or writes,
\* and clears its bit; the ready list keeps it.
Remove_Nothing(at) == at

Remove(at) == at \ {"armed"}

\* AttachPipes: the writer takes the reader's descriptor, the reader is scheduled.
AttachPipes(e) ==
  /\ sock[e] = "new"
  /\ sock' = [sock EXCEPT ![e] = "open"]
  /\ readerAt' = [readerAt EXCEPT ![e] = {"armed"}]
  /\ UNCHANGED <<writerAt, outQueue, wire, inQueue, router, process, posted, delivered>>

Enqueue_AllUrgent(q, m) == <<m>> \o q

Enqueue(q, m) == IF m \in Urgent THEN <<m>> \o q ELSE Append(q, m)

IsFirst(q) == Len(q) = 1

\* PostMessage schedules the writer only for the first message of the queue; the
\* writer itself takes care of the others.  The router posts to ports that are up,
\* a client thread may still post after its end was closed.
PostMessage(e, m) ==
  /\ m \notin posted
  /\ sock[e] # "new"
  /\ e = "server" => Up(e)
  /\ posted' = posted \cup {m}
  /\ outQueue' = [outQueue EXCEPT ![e] = Enqueue(@, m)]
  /\ writerAt' = IF IsFirst(outQueue'[e])
                 THEN [writerAt EXCEPT ![e] = Schedule(e, @)] ELSE writerAt
  /\ UNCHANGED <<sock, readerAt, wire, inQueue, router, process, delivered>>

-----------------------------------------------------------------------------
\* The core's priority events, the router among them, run before ready events.
Idle(e) == e = "server" => router = "idle"

Readable(e) ==
  "armed" \in readerAt[e] /\ (wire[Peer(e)] # <<>> \/ sock[Peer(e)] = "closed")

Writable(e) ==
  "armed" \in writerAt[e] /\ (Len(wire[e]) < WireCap \/ sock[Peer(e)] = "closed")

\* One select: with nothing ready, every event whose descriptor is ready moves.
ModifyFDSets(e) ==
  /\ Idle(e)
  /\ "ready" \notin readerAt[e] \cup writerAt[e]
  /\ Readable(e) \/ Writable(e)
  /\ readerAt' = [readerAt EXCEPT ![e] = IF Readable(e) THEN {"ready"} ELSE @]
  /\ writerAt' = [writerAt EXCEPT ![e] = IF Writable(e) THEN {"ready"} ELSE @]
  /\ UNCHANGED <<sock, outQueue, wire, inQueue, router, process, posted, delivered>>

\* MessagePort::Close: Remove takes both events out of the reads and writes lists
\* (not out of the ready list) and the descriptor is closed.
Close(e, reader) ==
  /\ sock' = [sock EXCEPT ![e] = "closed"]
  /\ readerAt' = [readerAt EXCEPT ![e] = Remove(reader)]
  /\ writerAt' = [writerAt EXCEPT ![e] = Remove(@)]

\* The writer's place once it has run: with messages left it asks for one more run
\* (SetRepeats(1)) and EventMaster::Run schedules it again.
Rescheduled_Never(e, at, rest) == at \ {"ready"}

Rescheduled(e, at, rest) ==
  IF rest = <<>> THEN at \ {"ready"} ELSE Schedule(e, at \ {"ready"})

\* MessageWriter::Run and what EventMaster::Run does after it.  A write to a pipe
\* whose other end is closed throws, and nothing catches the exception.
RunWriter(e) ==
  /\ Idle(e)
  /\ "ready" \in writerAt[e]
  /\ "ready" \notin readerAt[e]
  /\ \/ /\ ~Up(e) \/ outQueue[e] = <<>>
        /\ writerAt' = [writerAt EXCEPT ![e] = @ \ {"ready"}]
        /\ UNCHANGED <<outQueue, wire, process>>
     \/ /\ Up(e)
        /\ outQueue[e] # <<>>
        /\ outQueue' = [outQueue EXCEPT ![e] = Tail(@)]
        /\ \/ /\ sock[Peer(e)] = "closed"
              /\ process' = "aborted"
              /\ writerAt' = [writerAt EXCEPT ![e] = @ \ {"ready"}]
              /\ UNCHANGED wire
           \/ /\ sock[Peer(e)] # "closed"
              /\ wire' = [wire EXCEPT ![e] = Append(@, Head(outQueue[e]))]
              /\ writerAt' = [writerAt EXCEPT ![e] = Rescheduled(e, @, Tail(outQueue[e]))]
              /\ UNCHANGED process
  /\ UNCHANGED <<sock, readerAt, inQueue, router, posted, delivered>>

\* MessagePort::Run when Receive gets a message.  A client thread fetches all of its
\* inQueue in hookHandleMessage; at the server end msgRouter->Check schedules the router.
ReadMessage(e) ==
  LET m == Head(wire[Peer(e)]) IN
  /\ wire' = [wire EXCEPT ![Peer(e)] = Tail(@)]
  /\ readerAt' = [readerAt EXCEPT ![e] = Schedule(e, @ \ {"ready"})]
  /\ \/ /\ e = "client"
        /\ delivered' = [delivered EXCEPT ![e] = @ \o Append(inQueue[e], m)]
        /\ inQueue' = [inQueue EXCEPT ![e] = <<>>]
        /\ UNCHANGED router
     \/ /\ e = "server"
        /\ inQueue' = [inQueue EXCEPT ![e] = Append(@, m)]
        /\ router' = "due"
        /\ UNCHANGED delivered
  /\ UNCHANGED <<sock, writerAt, outQueue, process, posted>>

\* MessagePort::Run: a closed port reads nothing but still runs its hooks, an end of
\* file closes the port and runs none.
RunReader(e) ==
  /\ Idle(e)
  /\ "ready" \in readerAt[e]
  /\ \/ /\ ~Up(e)
        /\ readerAt' = [readerAt EXCEPT ![e] = @ \ {"ready"}]
        /\ router' = IF e = "server" THEN "due" ELSE router
        /\ UNCHANGED <<sock, writerAt, outQueue, wire, inQueue, process, posted, delivered>>
     \/ /\ Up(e)
        /\ wire[Peer(e)] = <<>>
        /\ sock[Peer(e)] = "closed"
        /\ Close(e, readerAt[e] \ {"ready"})
        /\ UNCHANGED <<outQueue, wire, inQueue, router, process, posted, delivered>>
     \/ /\ Up(e)
        /\ wire[Peer(e)] # <<>>
        /\ ReadMessage(e)

\* MessageRouter::Run, for this port: fetch the whole inQueue if the port is up.
RunRouter ==
  /\ router = "due"
  /\ router' = "idle"
  /\ \/ /\ Up("server")
        /\ delivered' = [delivered EXCEPT !["server"] = @ \o inQueue["server"]]
        /\ inQueue' = [inQueue EXCEPT !["server"] = <<>>]
     \/ /\ ~Up("server")
        /\ UNCHANGED <<inQueue, delivered>>
  /\ UNCHANGED <<sock, readerAt, writerAt, outQueue, wire, process, posted>>

\* MessageRouter::DeletePort in a core handler: DetachPipes closes the server end.
DetachPipes ==
  /\ Up("server")
  /\ Close("server", readerAt["server"])
  /\ UNCHANGED <<outQueue, wire, inQueue, router, process, posted, delivered>>

-----------------------------------------------------------------------------
Next ==
  /\ Running
  /\ \/ \E e \in Ends : \/ AttachPipes(e)
                        \/ ModifyFDSets(e)
                        \/ RunWriter(e)
                        \/ RunReader(e)
     \/ \E e \in Ends, m \in Msgs : PostMessage(e, m)
     \/ RunRouter
     \/ DetachPipes

\* Each thread runs its event loop for ever and client threads do start; nobody has
\* to post or to delete the port.
Fairness ==
  /\ \A e \in Ends : /\ WF_vars(Running /\ AttachPipes(e))
                     /\ WF_vars(Running /\ ModifyFDSets(e))
                     /\ WF_vars(Running /\ RunWriter(e))
                     /\ WF_vars(Running /\ RunReader(e))
  /\ WF_vars(Running /\ RunRouter)

Spec == Init /\ [][Next]_vars

FairSpec == Spec /\ Fairness

-----------------------------------------------------------------------------
Place == SUBSET {"armed", "ready"}

Queue == Seq(Msgs)

\* Every variable keeps to its type.
TypeOK ==
  /\ sock \in [Ends -> {"new", "open", "closed"}]
  /\ readerAt \in [Ends -> Place]
  /\ writerAt \in [Ends -> Place]
  /\ outQueue \in [Ends -> Queue]
  /\ wire \in [Ends -> Queue]
  /\ inQueue \in [Ends -> Queue]
  /\ router \in {"idle", "due"}
  /\ process \in {"running", "aborted"}
  /\ posted \subseteq Msgs
  /\ delivered \in [Ends -> Queue]

\* No message waits for an event that will never run.  While an end is up its reader
\* is scheduled, its writer is scheduled whenever the outQueue holds a message although
\* PostMessage schedules it for the first one only, and the router event is pending
\* whenever the core's inQueue holds one.
NoLostWakeup ==
  \A e \in Ends :
    (Up(e) /\ Running) =>
      /\ readerAt[e] # {}
      /\ outQueue[e] # <<>> => writerAt[e] # {}
      /\ inQueue[e] # <<>> => router = "due"

\* Schedule, ModifyFDSets and the rescheduling after Run never leave one event object
\* in two lists of the EventMaster, nor twice in one: it would run twice for one turn.
OneSchedule ==
  \A e \in Ends : readerAt[e] # {"armed", "ready"} /\ writerAt[e] # {"armed", "ready"}

\* Close leaves no bit of a closed descriptor in the descriptor sets: select would fail
\* from then on, for every port of the thread.
NoClosedFdSelected ==
  \A e \in Ends : sock[e] = "closed" => "armed" \notin readerAt[e] \cup writerAt[e]

\* Between the select that found the descriptor writable and the write, nothing else
\* writes to it: writen never blocks the core, which would stop every port at once.
WriteNeverBlocks ==
  \A e \in Ends : "ready" \in writerAt[e] /\ sock[Peer(e)] # "closed"
                   => Len(wire[e]) < WireCap

\* The queue of the abstract channel, spread over outQueue, socket and inQueue.
Pipe(e) ==
  IF sock[Peer(e)] = "closed" THEN <<>>
  ELSE (inQueue[Peer(e)] \o wire[e]) \o (IF sock[e] = "closed" THEN <<>> ELSE outQueue[e])

Abstract == INSTANCE Channel WITH
  queue <- [e \in Ends |-> Pipe(e)],
  sent  <- posted,
  link  <- IF \E e \in Ends : sock[e] = "closed" THEN "cut" ELSE "whole"

\* The two event loops and the socket between them are an ordered channel: nothing is
\* lost, repeated, invented or reordered but by urgency or by a close.
IsChannel == Abstract!Spec

\* What is posted on a pipe that stays intact reaches the other end.
Delivered ==
  \A e \in Ends, m \in Msgs :
    (m \in posted /\ \E i \in DOMAIN outQueue[e] : outQueue[e][i] = m)
      ~> (Broken \/ \E i \in DOMAIN delivered[Peer(e)] : delivered[Peer(e)][i] = m)
=============================================================================

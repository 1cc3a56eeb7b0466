------------------------- MODULE MessagePort_proofs -------------------------
(***************************************************************************)
(* What holds of a message pipe for every set of messages and every socket *)
(* capacity: the invariants the runs check on a small instance, and that   *)
(* the pipe implements the channel of module Channel.                      *)
(***************************************************************************)
EXTENDS MessagePort, SequenceTheorems, TLAPS

\* The disjuncts of Next that belong to one end, and the two of the core alone.
EndStep(e) ==
  \/ AttachPipes(e)
  \/ \E m \in Msgs : PostMessage(e, m)
  \/ ModifyFDSets(e)
  \/ RunWriter(e)
  \/ RunReader(e)

\* Every step of the pipe is a step of one end, of the router or of DeletePort.
LEMMA StepCases ==
  ASSUME Next
  PROVE  \/ \E e \in Ends : EndStep(e)
         \/ RunRouter
         \/ DetachPipes
BY DEF Next, EndStep

\* An end has exactly one peer, and is the peer of its peer.
LEMMA PeerFacts ==
  ASSUME NEW e \in Ends
  PROVE  Peer(e) \in Ends /\ Peer(e) # e /\ Peer(Peer(e)) = e
BY DEF Ends, Peer

\* What the queue operations return.
LEMMA QueueFacts ==
  /\ <<>> \in Queue
  /\ \A q \in Queue, m \in Msgs : Append(q, m) \in Queue /\ Enqueue(q, m) \in Queue
  /\ \A q \in Queue : q # <<>> => Head(q) \in Msgs /\ Tail(q) \in Queue
  /\ \A q, r \in Queue : q \o r \in Queue
<1>1. \A q \in Queue, m \in Msgs : Enqueue(q, m) \in Queue
  BY ConcatProperties DEF Queue, Enqueue
<1>2. \A q, r \in Queue : q \o r \in Queue
  BY ConcatProperties DEF Queue
<1>3. QED
  BY <1>1, <1>2 DEF Queue

-----------------------------------------------------------------------------
\* Every step of the pipe keeps every variable to its type.
LEMMA TypeStep ==
  ASSUME TypeOK, [Next]_vars
  PROVE  TypeOK'
<1> USE DEF TypeOK, Place
<1>1. ASSUME NEW e \in Ends, AttachPipes(e)
      PROVE  TypeOK'
  BY <1>1 DEF AttachPipes
<1>2. ASSUME NEW e \in Ends, NEW m \in Msgs, PostMessage(e, m)
      PROVE  TypeOK'
  BY <1>2, QueueFacts DEF PostMessage, Schedule
<1>3. ASSUME NEW e \in Ends, ModifyFDSets(e)
      PROVE  TypeOK'
  BY <1>3 DEF ModifyFDSets
<1>4. ASSUME NEW e \in Ends, RunWriter(e)
      PROVE  TypeOK'
  <2>1. outQueue' \in [Ends -> Queue] /\ wire' \in [Ends -> Queue]
    <3>1. outQueue[e] \in Queue /\ wire[e] \in Queue
      OBVIOUS
    <3>2. outQueue[e] # <<>> => /\ Tail(outQueue[e]) \in Queue
                               /\ Append(wire[e], Head(outQueue[e])) \in Queue
      BY <3>1, QueueFacts
    <3>3. /\ \/ outQueue' = outQueue
             \/ outQueue[e] # <<>> /\ outQueue' = [outQueue EXCEPT ![e] = Tail(@)]
          /\ \/ wire' = wire
             \/ /\ outQueue[e] # <<>>
                /\ wire' = [wire EXCEPT ![e] = Append(@, Head(outQueue[e]))]
      BY <1>4, Zenon DEF RunWriter
    <3>4. outQueue' \in [Ends -> Queue]
      BY <3>2, <3>3
    <3>5. wire' \in [Ends -> Queue]
      BY <3>2, <3>3
    <3>6. QED
      BY <3>4, <3>5
  <2>2. writerAt' \in [Ends -> Place]
    BY <1>4 DEF RunWriter, Rescheduled, Schedule
  <2>3. process' \in {"running", "aborted"}
    BY <1>4 DEF RunWriter
  <2>4. QED
    BY <1>4, <2>1, <2>2, <2>3 DEF RunWriter
<1>5. ASSUME NEW e \in Ends, RunReader(e)
      PROVE  TypeOK'
  <2>1. CASE ~Up(e)
    <3>1. readerAt' \in [Ends -> Place] /\ router' \in {"idle", "due"}
      BY <1>5, <2>1 DEF RunReader
    <3>2. QED
      BY <1>5, <2>1, <3>1 DEF RunReader
  <2>2. CASE Up(e) /\ wire[Peer(e)] = <<>>
    BY <1>5, <2>2 DEF RunReader, Close, Remove
  <2>3. CASE Up(e) /\ wire[Peer(e)] # <<>>
    <3>1. ReadMessage(e)
      BY <1>5, <2>3 DEF RunReader
    <3>2. wire' \in [Ends -> Queue] /\ readerAt' \in [Ends -> Place]
      BY <2>3, <3>1, PeerFacts, QueueFacts DEF ReadMessage, Schedule
    <3>3. Head(wire[Peer(e)]) \in Msgs
      BY <2>3, PeerFacts, QueueFacts
    <3>4. inQueue' \in [Ends -> Queue] /\ delivered' \in [Ends -> Queue]
      <4>1. Append(inQueue[e], Head(wire[Peer(e)])) \in Queue
        BY <3>3, QueueFacts
      <4>2. delivered[e] \o Append(inQueue[e], Head(wire[Peer(e)])) \in Queue
        BY <4>1, QueueFacts
      <4>3. <<>> \in Queue
        BY QueueFacts
      <4>4. /\ \/ delivered' = delivered
               \/ delivered' = [delivered EXCEPT ![e] = @ \o Append(inQueue[e], Head(wire[Peer(e)]))]
            /\ \/ inQueue' = [inQueue EXCEPT ![e] = <<>>]
               \/ inQueue' = [inQueue EXCEPT ![e] = Append(@, Head(wire[Peer(e)]))]
        BY <3>1, Zenon DEF ReadMessage
      <4>5. delivered' \in [Ends -> Queue]
        BY <4>2, <4>4
      <4>6. inQueue' \in [Ends -> Queue]
        BY <4>1, <4>3, <4>4
      <4>7. QED
        BY <4>5, <4>6
    <3>5. QED
      BY <3>1, <3>2, <3>4 DEF ReadMessage
  <2>4. QED
    BY <2>1, <2>2, <2>3
<1>6. CASE RunRouter
  <2>1. delivered["server"] \o inQueue["server"] \in Queue
    BY QueueFacts DEF Ends
  <2>2. <<>> \in Queue
    BY QueueFacts
  <2>3. /\ \/ delivered' = delivered
           \/ delivered' = [delivered EXCEPT !["server"] = @ \o inQueue["server"]]
        /\ \/ inQueue' = inQueue
           \/ inQueue' = [inQueue EXCEPT !["server"] = <<>>]
    BY <1>6, Zenon DEF RunRouter
  <2>4. delivered' \in [Ends -> Queue]
    BY <2>1, <2>3
  <2>5. inQueue' \in [Ends -> Queue]
    BY <2>2, <2>3
  <2>6. QED
    BY <1>6, <2>4, <2>5 DEF RunRouter
<1>7. CASE DetachPipes
  BY <1>7 DEF DetachPipes, Close, Remove, Ends
<1>8. CASE UNCHANGED vars
  BY <1>8 DEF vars
<1>9. QED
  BY <1>1, <1>2, <1>3, <1>4, <1>5, <1>6, <1>7, <1>8, StepCases DEF EndStep

\* The variables of a pipe keep to their types.
THEOREM TypeCorrect == Spec => []TypeOK
<1>1. Init => TypeOK
  BY QueueFacts DEF Init, TypeOK, Place
<1>2. TypeOK /\ [Next]_vars => TypeOK'
  BY TypeStep
<1>3. QED
  BY <1>1, <1>2, PTL DEF Spec

-----------------------------------------------------------------------------
(***************************************************************************)
(* The inductive invariant.  The four invariants of MessagePort are not    *)
(* inductive: that a writer event is never scheduled twice holds because   *)
(* it is scheduled only while messages wait (BusyWriter), and a first      *)
(* message finds it unscheduled.  An end that is not attached has nothing  *)
(* (Fresh), and a client thread leaves nothing in its inQueue.             *)
(***************************************************************************)
Fresh(x) == sock[x] = "new" => readerAt[x] = {} /\ writerAt[x] = {} /\ outQueue[x] = <<>>

BusyWriter(x) == Up(x) /\ writerAt[x] # {} => outQueue[x] # <<>>

Wakeup(x) ==
  Up(x) /\ Running => /\ readerAt[x] # {}
                      /\ outQueue[x] # <<>> => writerAt[x] # {}

Once(x) == readerAt[x] # {"armed", "ready"} /\ writerAt[x] # {"armed", "ready"}

Unselected(x) == sock[x] = "closed" => "armed" \notin readerAt[x] /\ "armed" \notin writerAt[x]

Room(x) == "ready" \in writerAt[x] /\ sock[Peer(x)] # "closed" => Len(wire[x]) < WireCap

EndInv(x) == Fresh(x) /\ BusyWriter(x) /\ Wakeup(x) /\ Once(x) /\ Unselected(x) /\ Room(x)

RouterInv ==
  /\ inQueue["client"] = <<>>
  /\ sock["server"] = "new" => inQueue["server"] = <<>>
  /\ inQueue["server"] # <<>> /\ Up("server") => router = "due"
  /\ sock["client"] = "closed" => sock["server"] = "closed"

IInv == (\A x \in Ends : EndInv(x)) /\ RouterInv

\* The four places an event can be in.
LEMMA PlaceCases ==
  ASSUME NEW p \in Place
  PROVE  p = {} \/ p = {"armed"} \/ p = {"ready"} \/ p = {"armed", "ready"}
BY DEF Place

\* A message is the first of its queue exactly when the queue was empty: the test by
\* which PostMessage decides whether to schedule the writer.
LEMMA EnqueueFacts ==
  ASSUME NEW q \in Queue, NEW m \in Msgs
  PROVE  Enqueue(q, m) # <<>> /\ (IsFirst(Enqueue(q, m)) <=> q = <<>>)
<1>1. Len(<<m>> \o q) = Len(q) + 1 /\ Len(Append(q, m)) = Len(q) + 1
  BY ConcatProperties DEF Queue
<1>2. Len(q) \in Nat /\ (Len(q) = 0 <=> q = <<>>)
  BY DEF Queue
<1>3. Len(Enqueue(q, m)) = Len(q) + 1
  BY <1>1 DEF Enqueue
<1>4. QED
  BY <1>2, <1>3 DEF IsFirst

\* Every step of the pipe keeps the invariant of each end.
LEMMA EndStepInv ==
  ASSUME TypeOK, IInv, Next, NEW x \in Ends
  PROVE  EndInv(x)'
<1> USE DEF Up, Running
<1>1. EndInv(x) /\ EndInv(Peer(x)) /\ Peer(x) \in Ends /\ Peer(x) # x
  BY PeerFacts DEF IInv
<1>2. /\ readerAt[x] \in Place /\ writerAt[x] \in Place
      /\ sock[x] \in {"new", "open", "closed"}
      /\ Len(wire[x]) \in Nat /\ WireCap \in Nat
  BY PortAssumption DEF TypeOK, Queue
<1>3. Running
  BY DEF Next
<1>4. ASSUME NEW e \in Ends, AttachPipes(e)
      PROVE  EndInv(x)'
  BY <1>1, <1>2, <1>4 DEF AttachPipes, EndInv, Fresh, BusyWriter, Wakeup, Once, Unselected, Room, TypeOK
<1>5. ASSUME NEW e \in Ends, NEW m \in Msgs, PostMessage(e, m)
      PROVE  EndInv(x)'
  <2>1. CASE x # e
    BY <1>1, <1>5, <2>1 DEF PostMessage, EndInv, Fresh, BusyWriter, Wakeup, Once, Unselected, Room, TypeOK
  <2>2. CASE x = e
    <3> DEFINE q == Enqueue(outQueue[x], m)
    <3>1. q # <<>> /\ (IsFirst(q) <=> outQueue[x] = <<>>)
      BY EnqueueFacts DEF TypeOK
    <3>2. outQueue'[x] = q
      BY <1>5, <2>2 DEF PostMessage, TypeOK
    <3>3. writerAt'[x] = IF outQueue[x] = <<>> THEN Schedule(x, writerAt[x]) ELSE writerAt[x]
      BY <1>5, <2>2, <3>1, <3>2 DEF PostMessage, TypeOK
    <3>4. /\ sock[x] # "new"
          /\ sock' = sock /\ readerAt' = readerAt /\ wire' = wire /\ process' = process
      BY <1>5, <2>2 DEF PostMessage
    <3> HIDE DEF q
    <3>5. \/ writerAt'[x] = writerAt[x] /\ (Up(x) => outQueue[x] # <<>>)
          \/ writerAt'[x] = {"armed"} /\ Up(x)
      BY <1>1, <1>2, <3>3 DEF Schedule, EndInv, BusyWriter
    <3>6. CASE writerAt'[x] = writerAt[x] /\ (Up(x) => outQueue[x] # <<>>)
      BY <1>1, <3>1, <3>2, <3>4, <3>6
      DEF EndInv, Fresh, BusyWriter, Wakeup, Once, Unselected, Room
    <3>7. CASE writerAt'[x] = {"armed"} /\ Up(x)
      BY <1>1, <3>1, <3>2, <3>4, <3>7
      DEF EndInv, Fresh, BusyWriter, Wakeup, Once, Unselected, Room
    <3>8. QED
      BY <3>5, <3>6, <3>7
  <2>3. QED
    BY <2>1, <2>2
<1>6. ASSUME NEW e \in Ends, ModifyFDSets(e)
      PROVE  EndInv(x)'
  BY <1>1, <1>2, <1>6 DEF ModifyFDSets, Readable, Writable, EndInv, Fresh, BusyWriter, Wakeup, Once, Unselected, Room, TypeOK
<1>7. ASSUME NEW e \in Ends, RunWriter(e)
      PROVE  EndInv(x)'
  <2>1. CASE x # e
    <3>1. /\ sock' = sock /\ readerAt' = readerAt
          /\ writerAt'[x] = writerAt[x] /\ outQueue'[x] = outQueue[x] /\ wire'[x] = wire[x]
      BY <1>7, <2>1 DEF RunWriter, TypeOK
    <3>2. QED
      BY <1>1, <1>3, <3>1 DEF EndInv, Fresh, BusyWriter, Wakeup, Once, Unselected, Room
  <2>2. CASE x = e
    <3>1. /\ sock' = sock /\ readerAt' = readerAt
          /\ "ready" \in writerAt[x]
      BY <1>7, <2>2 DEF RunWriter
    <3>2. writerAt[x] = {"ready"}
      BY <1>1, <1>2, <3>1, PlaceCases DEF EndInv, Once
    <3>3. CASE ~Up(x)
      <4>1. writerAt'[x] = {} /\ outQueue'[x] = outQueue[x]
        BY <1>7, <2>2, <3>2, <3>3 DEF RunWriter, TypeOK
      <4>2. QED
        BY <1>1, <3>1, <3>3, <4>1 DEF EndInv, Fresh, BusyWriter, Wakeup, Once, Unselected, Room
    <3>4. CASE Up(x) /\ sock[Peer(x)] = "closed"
      <4>1. outQueue[x] # <<>>
        BY <1>1, <3>2, <3>4 DEF EndInv, BusyWriter
      <4>2. writerAt'[x] = {} /\ process' = "aborted"
        BY <1>7, <2>2, <3>2, <3>4, <4>1 DEF RunWriter, TypeOK
      <4>3. QED
        BY <1>1, <3>1, <3>4, <4>2 DEF EndInv, Fresh, BusyWriter, Wakeup, Once, Unselected, Room
    <3>5. CASE Up(x) /\ sock[Peer(x)] # "closed"
      <4>1. outQueue[x] # <<>>
        BY <1>1, <3>2, <3>5 DEF EndInv, BusyWriter
      <4>2. /\ outQueue'[x] = Tail(outQueue[x])
            /\ writerAt'[x] = Rescheduled(x, writerAt[x], Tail(outQueue[x]))
        BY <1>7, <2>2, <3>5, <4>1 DEF RunWriter, TypeOK
      <4>3. writerAt'[x] = IF outQueue'[x] = <<>> THEN {} ELSE {"armed"}
        BY <3>2, <3>5, <4>2 DEF Rescheduled, Schedule
      <4>4. QED
        BY <1>1, <1>3, <3>1, <3>5, <4>3 DEF EndInv, Fresh, BusyWriter, Wakeup, Once, Unselected, Room
    <3>6. QED
      BY <3>3, <3>4, <3>5
  <2>3. QED
    BY <2>1, <2>2
<1>8. ASSUME NEW e \in Ends, RunReader(e)
      PROVE  EndInv(x)'
  BY <1>1, <1>2, <1>8 DEF RunReader, ReadMessage, Close, Remove, Schedule, EndInv, Fresh, BusyWriter, Wakeup, Once, Unselected, Room, TypeOK
<1>9. CASE RunRouter
  BY <1>1, <1>9 DEF RunRouter, EndInv, Fresh, BusyWriter, Wakeup, Once, Unselected, Room
<1>10. CASE DetachPipes
  BY <1>1, <1>2, <1>10 DEF DetachPipes, Close, Remove, EndInv, Fresh, BusyWriter, Wakeup, Once, Unselected, Room, TypeOK
<1>11. QED
  BY <1>4, <1>5, <1>6, <1>7, <1>8, <1>9, <1>10, StepCases DEF EndStep

\* Every step of the pipe keeps what the router owes to the core's inQueue, and no
\* client end closes before the server end.
LEMMA RouterStepInv ==
  ASSUME TypeOK, IInv, Next
  PROVE  RouterInv'
<1> USE DEF Up, RouterInv
<1>1. RouterInv
  BY DEF IInv
<1>2. ASSUME NEW e \in Ends, AttachPipes(e)
      PROVE  RouterInv'
  BY <1>1, <1>2 DEF AttachPipes, TypeOK, Ends
<1>3. ASSUME NEW e \in Ends, NEW m \in Msgs, PostMessage(e, m)
      PROVE  RouterInv'
  BY <1>1, <1>3 DEF PostMessage
<1>4. ASSUME NEW e \in Ends, ModifyFDSets(e)
      PROVE  RouterInv'
  BY <1>1, <1>4 DEF ModifyFDSets
<1>5. ASSUME NEW e \in Ends, RunWriter(e)
      PROVE  RouterInv'
  BY <1>1, <1>5 DEF RunWriter
<1>6. ASSUME NEW e \in Ends, RunReader(e)
      PROVE  RouterInv'
  <2>1. CASE ~Up(e)
    BY <1>1, <1>6, <2>1 DEF RunReader
  <2>2. CASE Up(e) /\ wire[Peer(e)] = <<>>
    BY <1>1, <1>6, <2>2 DEF RunReader, Close, TypeOK, Ends, Peer
  <2>3. CASE Up(e) /\ wire[Peer(e)] # <<>>
    <3>1. sock' = sock /\ ReadMessage(e)
      BY <1>6, <2>3 DEF RunReader, ReadMessage
    <3>2. CASE e = "client"
      <4>1. /\ inQueue' = [inQueue EXCEPT !["client"] = <<>>]
            /\ router' = router
        BY <3>1, <3>2, Zenon DEF ReadMessage
      <4>2. QED
        BY <1>1, <3>1, <4>1 DEF TypeOK, Ends
    <3>3. CASE e = "server"
      <4>1. router' = "due" /\ inQueue'["client"] = inQueue["client"]
        BY <3>1, <3>3 DEF ReadMessage, TypeOK, Ends
      <4>2. QED
        BY <1>1, <2>3, <3>1, <3>3, <4>1
    <3>4. QED
      BY <3>2, <3>3 DEF Ends
  <2>4. QED
    BY <2>1, <2>2, <2>3
<1>7. CASE RunRouter
  BY <1>1, <1>7 DEF RunRouter, TypeOK, Ends
<1>8. CASE DetachPipes
  BY <1>1, <1>8 DEF DetachPipes, Close, TypeOK, Ends
<1>9. QED
  BY <1>2, <1>3, <1>4, <1>5, <1>6, <1>7, <1>8, StepCases DEF EndStep

\* The invariant holds throughout.
LEMMA Invariance == Spec => [](TypeOK /\ IInv)
<1>1. Init => IInv
  BY DEF Init, IInv, EndInv, Fresh, BusyWriter, Wakeup, Once, Unselected, Room,
         RouterInv, Up, Ends
<1>2. TypeOK /\ IInv /\ [Next]_vars => IInv'
  <2>1. TypeOK /\ IInv /\ Next => IInv'
    <3>1. ASSUME TypeOK, IInv, Next
          PROVE  \A x \in Ends : EndInv(x)'
      BY <3>1, EndStepInv
    <3>2. QED
      BY <3>1, RouterStepInv DEF IInv
  <2>2. IInv /\ UNCHANGED vars => IInv'
    BY DEF vars, IInv, EndInv, Fresh, BusyWriter, Wakeup, Once, Unselected, Room,
           RouterInv, Up, Running
  <2>3. QED
    BY <2>1, <2>2
<1>3. QED
  BY <1>1, <1>2, TypeCorrect, PTL DEF Spec

\* No message waits for an event that will never run, whatever the interleaving of
\* the two event loops: MessagePort::PostMessage schedules the writer for the first
\* message only, and MessageWriter::Run asks for another turn while messages are left.
THEOREM WakeupsKept == Spec => []NoLostWakeup
<1>1. TypeOK /\ IInv => NoLostWakeup
  BY DEF NoLostWakeup, IInv, EndInv, Wakeup, RouterInv, Ends
<1>2. QED
  BY <1>1, Invariance, PTL

\* EventMaster never holds one event of the pipe twice.
THEOREM ScheduledOnce == Spec => []OneSchedule
<1>1. IInv => OneSchedule
  BY DEF OneSchedule, IInv, EndInv, Once
<1>2. QED
  BY <1>1, Invariance, PTL

\* MessagePort::Close leaves nothing of a closed descriptor in the select sets.
THEOREM ClosedUnselected == Spec => []NoClosedFdSelected
<1>1. IInv => NoClosedFdSelected
  BY DEF NoClosedFdSelected, IInv, EndInv, Unselected
<1>2. QED
  BY <1>1, Invariance, PTL

\* A write that EventMaster::Fetch found possible is still possible when it runs.
THEOREM WritesFit == Spec => []WriteNeverBlocks
<1>1. IInv => WriteNeverBlocks
  BY DEF WriteNeverBlocks, IInv, EndInv, Room
<1>2. QED
  BY <1>1, Invariance, PTL

-----------------------------------------------------------------------------
\* Queues may be joined in any grouping.
LEMMA Associative ==
  ASSUME NEW a \in Queue, NEW b \in Queue, NEW c \in Queue
  PROVE  (a \o b) \o c = a \o (b \o c)
BY ConcatAssociative DEF Queue

\* The two parts of a concatenation.
LEMMA ConcatParts ==
  ASSUME NEW a \in Queue, NEW b \in Queue
  PROVE  /\ a \o b \in Queue
         /\ Len(a) \in 0 .. Len(a \o b)
         /\ SubSeq(a \o b, 1, Len(a)) = a
         /\ SubSeq(a \o b, Len(a) + 1, Len(a \o b)) = b
<1>1. /\ a \in Seq(Msgs) /\ b \in Seq(Msgs) /\ a \o b \in Seq(Msgs)
      /\ Len(a) \in Nat /\ Len(b) \in Nat /\ Len(a \o b) = Len(a) + Len(b)
  BY ConcatProperties, LenProperties DEF Queue
<1>2. SubSeq(a \o b, 1, Len(a)) = a
  <2>1. CASE Len(a) = 0
    BY <1>1, <2>1, SubSeqEmpty, EmptySeq
  <2>2. CASE Len(a) # 0
    <3>1. SubSeq(a \o b, 1, Len(a)) = SubSeq(a, 1, Len(a))
      BY <1>1, <2>2, SubSeqOfConcat1
    <3>2. QED
      BY <1>1, <3>1, SubSeqFull
  <2>3. QED
    BY <2>1, <2>2
<1>3. SubSeq(a \o b, Len(a) + 1, Len(a \o b)) = b
  <2>1. CASE Len(b) = 0
    BY <1>1, <2>1, SubSeqEmpty, EmptySeq
  <2>2. CASE Len(b) # 0
    <3>1. SubSeq(a \o b, Len(a) + 1, Len(a) + Len(b)) =
            SubSeq(b, (Len(a) + 1) - Len(a), (Len(a) + Len(b)) - Len(a))
      BY <1>1, <2>2, SubSeqOfConcat2
    <3>2. QED
      BY <1>1, <3>1, SubSeqFull
  <2>3. QED
    BY <2>1, <2>2
<1>4. QED
  BY <1>1, <1>2, <1>3 DEF Queue

\* A queue is its first message and the others.
LEMMA FirstAndRest ==
  ASSUME NEW q \in Queue, q # <<>>
  PROVE  q = <<Head(q)>> \o Tail(q)
<1>1. q \in Seq(Msgs) /\ Len(q) \in Nat \ {0}
  BY EmptySeq DEF Queue
<1>2. SubSeq(q, 1, Len(q)) = <<q[1]>> \o SubSeq(q, 2, Len(q))
  BY <1>1, SubSeqRecursiveFirst
<1>3. SubSeq(q, 1, Len(q)) = q /\ Tail(q) = SubSeq(q, 2, Len(q)) /\ Head(q) = q[1]
  BY <1>1, SubSeqFull, TailIsSubSeq
<1>4. QED
  BY <1>2, <1>3

\* A message inserted between two queues is the first of the second.
LEMMA Insertion ==
  ASSUME NEW a \in Queue, NEW b \in Queue, NEW m \in Msgs
  PROVE  Abstract!InsertAfter(a \o b, Len(a), m) = a \o (<<m>> \o b)
<1>1. <<m>> \in Seq(Msgs)
  OBVIOUS
<1>2. (a \o <<m>>) \o b = a \o (<<m>> \o b)
  BY <1>1, ConcatAssociative DEF Queue
<1>3. QED
  BY <1>2, ConcatParts DEF Abstract!InsertAfter

\* A message that moves from the head of one queue to the tail of the queue before it
\* leaves their concatenation as it is.
LEMMA Moved ==
  ASSUME NEW a \in Queue, NEW b \in Queue, b # <<>>
  PROVE  Append(a, Head(b)) \o Tail(b) = a \o b
<1>1. Head(b) \in Msgs /\ Tail(b) \in Queue
  BY QueueFacts
<1>2. <<Head(b)>> \in Seq(Msgs)
  BY <1>1
<1>3. Append(a, Head(b)) = a \o <<Head(b)>>
  BY <1>1, AppendIsConcat DEF Queue
<1>4. (a \o <<Head(b)>>) \o Tail(b) = a \o (<<Head(b)>> \o Tail(b))
  BY <1>1, <1>2, ConcatAssociative DEF Queue
<1>5. QED
  BY <1>3, <1>4, FirstAndRest

-----------------------------------------------------------------------------
\* The state of the channel that a state of the pipe stands for.
Queues == [e \in Ends |-> Pipe(e)]

Link == IF \E e \in Ends : sock[e] = "closed" THEN "cut" ELSE "whole"

\* A step that changes neither queue, link nor history leaves the channel as it is.
LEMMA Stutter ==
  ASSUME \A x \in Ends : Pipe(x)' = Pipe(x),
         Link' = Link, posted' = posted, delivered' = delivered
  PROVE  UNCHANGED Abstract!vars
BY DEF Link, Abstract!vars

\* Posting is a Send: at the end of the queue, or for an urgent message at the front
\* of the outQueue, behind what was written already.
LEMMA PostIsSend ==
  ASSUME TypeOK, IInv, NEW e \in Ends, NEW m \in Msgs, PostMessage(e, m)
  PROVE  Abstract!Send(e, m)
<1> DEFINE a == inQueue[Peer(e)] \o wire[e]
<1>1. /\ Peer(e) \in Ends /\ Peer(e) # e
      /\ a \in Queue /\ outQueue[e] \in Queue
  BY PeerFacts, QueueFacts DEF TypeOK
<1>2. /\ m \notin posted /\ posted' = posted \cup {m}
      /\ sock' = sock /\ inQueue' = inQueue /\ wire' = wire /\ delivered' = delivered
      /\ outQueue' = [outQueue EXCEPT ![e] = Enqueue(@, m)]
      /\ sock[e] # "new" /\ (e = "server" => Up(e))
  BY DEF PostMessage
<1>3. outQueue'[e] = Enqueue(outQueue[e], m) /\ outQueue'[Peer(e)] = outQueue[Peer(e)]
  BY <1>1, <1>2 DEF TypeOK
<1>4. Pipe(Peer(e))' = Pipe(Peer(e))
  BY <1>1, <1>2, <1>3, PeerFacts DEF Pipe
<1>5. CASE Link = "cut"
  <2>1. Pipe(e)' = Pipe(e)
    <3>1. sock[Peer(e)] = "closed"
      BY <1>2, <1>5 DEF Link, IInv, RouterInv, Up, Ends, Peer
    <3>2. QED
      BY <1>2, <3>1 DEF Pipe
  <2>2. Queues' = Queues
    BY <1>4, <2>1 DEF Queues, Ends, Peer
  <2>3. QED
    BY <1>2, <1>5, <2>2 DEF Abstract!Send, Link, Queues
<1>6. CASE Link = "whole"
  <2>1. sock[e] # "closed" /\ sock[Peer(e)] # "closed"
    BY <1>1, <1>6 DEF Link
  <2>2. Pipe(e) = a \o outQueue[e] /\ Pipe(e)' = a \o Enqueue(outQueue[e], m)
    BY <1>2, <1>3, <2>1 DEF Pipe
  <2>3. \E i \in 0 .. Len(Pipe(e)) :
          /\ m \in Urgent \/ i = Len(Pipe(e))
          /\ Pipe(e)' = Abstract!InsertAfter(Pipe(e), i, m)
    <3>1. CASE m \in Urgent
      <4>1. Pipe(e)' = Abstract!InsertAfter(Pipe(e), Len(a), m)
        BY <1>1, <2>2, <3>1, Insertion, ZenonT(30) DEF Enqueue
      <4>2. Len(a) \in 0 .. Len(Pipe(e))
        BY <1>1, <2>2, ConcatParts
      <4>3. QED
        BY <3>1, <4>1, <4>2
    <3>2. CASE m \notin Urgent
      <4> HIDE DEF a
      <4>1. a \o outQueue[e] \in Queue /\ <<>> \in Queue /\ <<m>> \in Queue
        BY <1>1, QueueFacts DEF Queue
      <4>2. <<m>> \o <<>> = <<m>>
        BY <4>1, ConcatEmptySeq DEF Queue
      <4>3. (a \o outQueue[e]) \o <<>> = a \o outQueue[e]
        BY <4>1, ConcatEmptySeq DEF Queue
      <4>4. Append(outQueue[e], m) = outQueue[e] \o <<m>>
        BY <1>1, AppendIsConcat DEF Queue
      <4>5. a \o (outQueue[e] \o <<m>>) = (a \o outQueue[e]) \o <<m>>
        BY <1>1, <4>1, Associative
      <4>6. Abstract!InsertAfter(Pipe(e), Len(Pipe(e)), m) = Pipe(e) \o (<<m>> \o <<>>)
        <5>1. Pipe(e) = a \o outQueue[e] /\ Pipe(e) \in Queue
          BY <2>2, <4>1
        <5>2. Abstract!InsertAfter(Pipe(e) \o <<>>, Len(Pipe(e)), m) = Pipe(e) \o (<<m>> \o <<>>)
          BY <4>1, <5>1, Insertion
        <5>3. QED
          BY <4>3, <5>1, <5>2
      <4>7. Len(Pipe(e)) \in 0 .. Len(Pipe(e))
        <5>1. Pipe(e) \in Seq(Msgs)
          BY <2>2, <4>1 DEF Queue
        <5>2. QED
          BY <5>1, LenProperties
      <4>8. QED
        BY <2>2, <3>2, <4>2, <4>4, <4>5, <4>6, <4>7 DEF Enqueue
    <3>3. QED
      BY <3>1, <3>2
  <2>4. Link' = Link
    BY <1>2 DEF Link
  <2>5. Queues[e] = Pipe(e) /\ Queues' = [Queues EXCEPT ![e] = Pipe(e)']
    BY <1>4, PeerFacts DEF Queues, Ends, Peer
  <2>6. \E i \in 0 .. Len(Queues[e]) :
          /\ m \in Urgent \/ i = Len(Queues[e])
          /\ Queues' = [Queues EXCEPT ![e] = Abstract!InsertAfter(Queues[e], i, m)]
    BY <2>3, <2>5
  <2>7. QED
    BY <1>2, <1>6, <2>4, <2>6 DEF Abstract!Send, Link, Queues
<1>7. QED
  BY <1>5, <1>6 DEF Link

\* Writing a message to the socket only moves it along the channel's queue.
LEMMA WriterStutters ==
  ASSUME TypeOK, IInv, NEW e \in Ends, RunWriter(e)
  PROVE  UNCHANGED Abstract!vars
<1>1. /\ Peer(e) \in Ends /\ Peer(e) # e /\ Peer(Peer(e)) = e
      /\ outQueue[e] \in Queue /\ wire[e] \in Queue /\ inQueue[Peer(e)] \in Queue
  BY PeerFacts DEF TypeOK
<1>2. sock' = sock /\ inQueue' = inQueue /\ posted' = posted /\ delivered' = delivered
  BY DEF RunWriter
<1>3. outQueue'[Peer(e)] = outQueue[Peer(e)] /\ wire'[Peer(e)] = wire[Peer(e)]
  BY <1>1 DEF RunWriter, TypeOK
<1>4. Pipe(Peer(e))' = Pipe(Peer(e))
  BY <1>1, <1>2, <1>3 DEF Pipe
<1>5. Pipe(e)' = Pipe(e)
  <2>1. CASE ~Up(e) \/ outQueue[e] = <<>>
    BY <1>2, <2>1 DEF RunWriter, Pipe
  <2>2. CASE sock[Peer(e)] = "closed"
    BY <1>2, <2>2 DEF Pipe
  <2>3. CASE Up(e) /\ outQueue[e] # <<>> /\ sock[Peer(e)] # "closed"
    <3> DEFINE q == outQueue[e]
               i == inQueue[Peer(e)]
    <3>1. outQueue'[e] = Tail(q) /\ wire'[e] = Append(wire[e], Head(q))
      BY <2>3 DEF RunWriter, TypeOK
    <3>2. Pipe(e) = (i \o wire[e]) \o q
      BY <2>3 DEF Pipe, Up
    <3>3. Pipe(e)' = (i \o Append(wire[e], Head(q))) \o Tail(q)
      BY <1>2, <2>3, <3>1 DEF Pipe, Up
    <3>4. Head(q) \in Msgs /\ Tail(q) \in Queue /\ Append(wire[e], Head(q)) \in Queue
      BY <1>1, <2>3, QueueFacts
    <3>5. (i \o Append(wire[e], Head(q))) \o Tail(q)
            = i \o (Append(wire[e], Head(q)) \o Tail(q))
      BY <1>1, <3>4, Associative
    <3>6. i \o (wire[e] \o q) = (i \o wire[e]) \o q
      BY <1>1, Associative
    <3>7. Append(wire[e], Head(q)) \o Tail(q) = wire[e] \o q
      BY <1>1, <2>3, Moved
    <3>8. QED
      BY <3>2, <3>3, <3>5, <3>6, <3>7
  <2>4. QED
    BY <2>1, <2>2, <2>3
<1>6. \A x \in Ends : Pipe(x)' = Pipe(x)
  BY <1>4, <1>5 DEF Ends, Peer
<1>7. QED
  BY <1>2, <1>6, Stutter DEF Link

\* An end of file is found by the second end to close, when nothing is left to lose.
LEMMA EndOfFileStutters ==
  ASSUME TypeOK, IInv, NEW e \in Ends, RunReader(e), Up(e), wire[Peer(e)] = <<>>
  PROVE  UNCHANGED Abstract!vars
<1>1. /\ sock[Peer(e)] = "closed" /\ sock' = [sock EXCEPT ![e] = "closed"]
      /\ UNCHANGED <<outQueue, wire, inQueue, posted, delivered>>
  BY DEF RunReader, Close
<1>2. e = "client"
  BY <1>1 DEF IInv, RouterInv, Up, Ends, Peer
<1>3. inQueue["client"] = <<>> /\ sock["server"] = "closed" /\ wire["server"] = <<>>
  BY <1>1, <1>2 DEF IInv, RouterInv, Peer
<1>4. sock' = [sock EXCEPT !["client"] = "closed"] /\ sock'["client"] = "closed" /\ sock'["server"] = "closed"
  BY <1>1, <1>2, <1>3 DEF TypeOK, Ends
<1>5. <<>> \o <<>> = <<>>
  BY EmptySeq, ConcatEmptySeq
<1>6. Pipe("server") = <<>> /\ Pipe("client") = <<>>
  BY <1>3, <1>5 DEF Pipe, Peer
<1>7. Pipe("server")' = <<>> /\ Pipe("client")' = <<>>
  BY <1>4 DEF Pipe, Peer
<1>8. Link' = Link
  BY <1>3, <1>4 DEF Link, Ends
<1>9. QED
  BY <1>1, <1>6, <1>7, <1>8, Stutter DEF Ends

\* Reading hands the first message of the queue to a client thread, which takes it at
\* once; at the core it only moves along, to the inQueue.
LEMMA ReadIsDeliver ==
  ASSUME TypeOK, IInv, NEW e \in Ends, RunReader(e), Up(e), wire[Peer(e)] # <<>>
  PROVE  [Abstract!Deliver(Peer(e))]_(Abstract!vars)
<1> DEFINE p == Peer(e)
           w == wire[p]
           rest == IF sock[p] = "closed" THEN <<>> ELSE outQueue[p]
<1>1. /\ p \in Ends /\ p # e /\ Peer(p) = e
      /\ w \in Queue /\ w # <<>> /\ rest \in Queue /\ inQueue[e] \in Queue
      /\ Head(w) \in Msgs /\ Tail(w) \in Queue
  BY PeerFacts, QueueFacts DEF TypeOK
<1>2. ReadMessage(e)
  BY DEF RunReader
<1>3. /\ sock' = sock /\ outQueue' = outQueue /\ posted' = posted
      /\ wire' = [wire EXCEPT ![p] = Tail(@)]
  BY <1>2 DEF ReadMessage
<1>4. wire'[p] = Tail(w) /\ wire'[e] = wire[e]
  BY <1>1, <1>3 DEF TypeOK
<1>5. Pipe(p) = (inQueue[e] \o w) \o rest /\ Pipe(p)' = (inQueue'[e] \o Tail(w)) \o rest
  BY <1>1, <1>3, <1>4 DEF Pipe, Up
<1>6. inQueue'[p] = inQueue[p]
  BY <1>1, <1>2 DEF ReadMessage, TypeOK
<1>7. Pipe(e)' = Pipe(e) /\ Link' = Link
  BY <1>3, <1>4, <1>6 DEF Pipe, Link
<1> HIDE DEF p, w, rest
<1>8. CASE e = "server"
  <2>1. inQueue'[e] = Append(inQueue[e], Head(w)) /\ delivered' = delivered
    BY <1>2, <1>8 DEF ReadMessage, TypeOK, w, p
  <2>2. Pipe(p)' = Pipe(p)
    BY <1>1, <1>5, <2>1, Moved
  <2>3. \A x \in Ends : Pipe(x)' = Pipe(x)
    BY <1>7, <2>2 DEF p, Ends, Peer
  <2>4. QED
    BY <1>3, <1>7, <2>1, <2>3, Stutter
<1>9. CASE e = "client"
  <2>1. inQueue[e] = <<>>
    BY <1>9 DEF IInv, RouterInv
  <2>2. inQueue'[e] = <<>> /\ delivered' = [delivered EXCEPT ![e] = @ \o Append(inQueue[e], Head(w))]
    BY <1>2, <1>9 DEF ReadMessage, TypeOK, w, p
  <2>3. <<Head(w)>> \in Queue /\ Len(<<Head(w)>>) = 1 /\ Tail(w) \o rest \in Queue
    BY <1>1, QueueFacts DEF Queue
  <2>4. Pipe(p) = <<Head(w)>> \o (Tail(w) \o rest)
    <3>1. <<>> \o w = w
      BY <1>1, ConcatEmptySeq DEF Queue
    <3>2. (<<Head(w)>> \o Tail(w)) \o rest = <<Head(w)>> \o (Tail(w) \o rest)
      BY <1>1, <2>3, Associative
    <3>3. QED
      BY <1>1, <1>5, <2>1, <3>1, <3>2, FirstAndRest
  <2>5. Pipe(p)' = Tail(w) \o rest
    <3>1. <<>> \o Tail(w) = Tail(w)
      BY <1>1, ConcatEmptySeq DEF Queue
    <3>2. QED
      BY <1>5, <2>2, <3>1
  <2>6. /\ 1 \in 1 .. Len(Pipe(p))
        /\ SubSeq(Pipe(p), 1, 1) = <<Head(w)>>
        /\ SubSeq(Pipe(p), 1 + 1, Len(Pipe(p))) = Pipe(p)'
    <3> DEFINE h == <<Head(w)>>
               t == Tail(w) \o rest
    <3>1. h \in Queue /\ Len(h) = 1 /\ t \in Queue
      BY <2>3
    <3> HIDE DEF h, t
    <3>2. /\ h \o t \in Queue /\ Len(h) \in 0 .. Len(h \o t)
          /\ SubSeq(h \o t, 1, Len(h)) = h /\ SubSeq(h \o t, Len(h) + 1, Len(h \o t)) = t
      BY <3>1, ConcatParts
    <3>3. Len(h \o t) \in Nat
      BY <3>2, LenProperties DEF Queue
    <3>4. Pipe(p) = h \o t /\ Pipe(p)' = t
      BY <2>4, <2>5 DEF h, t
    <3>5. QED
      BY <3>1, <3>2, <3>3, <3>4 DEF h
  <2>7. Append(inQueue[e], Head(w)) = <<Head(w)>>
    BY <1>1, <2>1
  <2>8. Queues[p] = Pipe(p) /\ Queues' = [Queues EXCEPT ![p] = Pipe(p)']
    BY <1>1, <1>7 DEF Queues, Ends, Peer
  <2>9. Abstract!Peer(p) = e
    BY <1>1 DEF Abstract!Peer, Peer
  <2>10. \E n \in 1 .. Len(Queues[p]) :
           /\ delivered' = [delivered EXCEPT ![Abstract!Peer(p)] = @ \o SubSeq(Queues[p], 1, n)]
           /\ Queues' = [Queues EXCEPT ![p] = SubSeq(Queues[p], n + 1, Len(Queues[p]))]
    BY <2>2, <2>6, <2>7, <2>8, <2>9
  <2>11. Abstract!Deliver(p)
    BY <1>3, <1>7, <2>10 DEF Abstract!Deliver, Queues, Link
  <2>12. QED
    BY <2>11 DEF p
<1>10. QED
  BY <1>8, <1>9 DEF Ends

\* The router hands the whole inQueue to the core.
LEMMA RouterIsDeliver ==
  ASSUME TypeOK, IInv, RunRouter
  PROVE  [Abstract!Deliver("client")]_(Abstract!vars)
<1> DEFINE i == inQueue["server"]
           w == wire["client"]
           rest == IF sock["client"] = "closed" THEN <<>> ELSE outQueue["client"]
<1>1. i \in Queue /\ w \in Queue /\ rest \in Queue /\ i \o w \in Queue /\ w \o rest \in Queue
  BY QueueFacts DEF TypeOK, Ends
<1>2. /\ sock' = sock /\ outQueue' = outQueue /\ wire' = wire /\ posted' = posted
      /\ delivered' = delivered \/ delivered' = [delivered EXCEPT !["server"] = @ \o i]
  BY DEF RunRouter
<1>3. Link' = Link
  BY <1>2 DEF Link
<1>4. CASE ~Up("server")
  <2>1. inQueue' = inQueue /\ delivered' = delivered
    BY <1>4 DEF RunRouter
  <2>2. QED
    BY <1>2, <1>3, <2>1, Stutter DEF Pipe
<1>5. CASE Up("server")
  <2>1. /\ inQueue' = [inQueue EXCEPT !["server"] = <<>>]
        /\ delivered' = [delivered EXCEPT !["server"] = @ \o i]
    BY <1>5 DEF RunRouter
  <2>2. inQueue'["server"] = <<>> /\ inQueue'["client"] = inQueue["client"]
    BY <2>1 DEF TypeOK, Ends
  <2>3. Pipe("server")' = Pipe("server")
    BY <1>2, <2>2 DEF Pipe, Peer
  <2>4. Pipe("client") = i \o (w \o rest)
    <3>1. Pipe("client") = (i \o w) \o rest
      BY <1>5 DEF Pipe, Peer, Up
    <3>2. QED
      BY <1>1, <3>1, Associative, ZenonT(30)
  <2>5. Pipe("client")' = w \o rest
    <3>1. Pipe("client")' = (<<>> \o w) \o rest
      BY <1>2, <1>5, <2>2 DEF Pipe, Peer, Up
    <3>2. <<>> \o w = w
      BY <1>1, ConcatEmptySeq DEF Queue
    <3>3. QED
      BY <3>1, <3>2
  <2>6. CASE i = <<>>
    <3>1. <<>> \o (w \o rest) = w \o rest
      BY <1>1, ConcatEmptySeq DEF Queue
    <3>2. delivered["server"] \o <<>> = delivered["server"]
      BY ConcatEmptySeq DEF TypeOK, Queue, Ends
    <3>3. delivered' = delivered
      BY <2>1, <2>6, <3>2 DEF TypeOK
    <3>4. Pipe("client")' = Pipe("client")
      BY <2>4, <2>5, <2>6, <3>1
    <3>5. QED
      BY <1>2, <1>3, <2>3, <3>3, <3>4, Stutter DEF Ends
  <2>7. CASE i # <<>>
    <3> HIDE DEF i, w, rest
    <3>1. Len(i) \in Nat \ {0}
      BY <1>1, <2>7, EmptySeq DEF Queue
    <3>2. /\ Len(i) \in 1 .. Len(Pipe("client"))
          /\ SubSeq(Pipe("client"), 1, Len(i)) = i
          /\ SubSeq(Pipe("client"), Len(i) + 1, Len(Pipe("client"))) = Pipe("client")'
      <4> DEFINE t == w \o rest
      <4>1. t \in Queue /\ Pipe("client") = i \o t /\ Pipe("client")' = t
        BY <1>1, <2>4, <2>5
      <4> HIDE DEF t
      <4>2. /\ i \o t \in Queue /\ Len(i) \in 0 .. Len(i \o t)
            /\ SubSeq(i \o t, 1, Len(i)) = i /\ SubSeq(i \o t, Len(i) + 1, Len(i \o t)) = t
        BY <1>1, <4>1, ConcatParts
      <4>3. Len(i) \in 1 .. Len(i \o t)
        BY <3>1, <4>2
      <4>4. QED
        BY <4>1, <4>2, <4>3
    <3>3. Queues["client"] = Pipe("client")
      BY DEF Queues, Ends
    <3>4. Queues' = [Queues EXCEPT !["client"] = Pipe("client")']
      BY <2>3 DEF Queues, Ends
    <3>5. \E n \in 1 .. Len(Queues["client"]) :
            /\ delivered' = [delivered EXCEPT ![Abstract!Peer("client")] = @ \o SubSeq(Queues["client"], 1, n)]
            /\ Queues' = [Queues EXCEPT !["client"] = SubSeq(Queues["client"], n + 1, Len(Queues["client"]))]
      BY <2>1, <3>2, <3>3, <3>4 DEF Abstract!Peer
    <3>6. QED
      BY <1>2, <1>3, <3>5 DEF Abstract!Deliver, Queues, Link
  <2>8. QED
    BY <2>6, <2>7
<1>6. QED
  BY <1>4, <1>5

\* Deleting the port cuts the link: what the core had not written and what it had not
\* fetched is lost, what a client thread can still read is not.
LEMMA DetachIsCut ==
  ASSUME TypeOK, IInv, DetachPipes
  PROVE  Abstract!Cut
<1> DEFINE a == inQueue["client"] \o wire["server"]
<1>1. /\ Up("server") /\ sock' = [sock EXCEPT !["server"] = "closed"]
      /\ UNCHANGED <<outQueue, wire, inQueue, posted, delivered>>
  BY DEF DetachPipes, Close
<1>2. sock'["server"] = "closed" /\ sock["client"] # "closed" /\ sock'["client"] = sock["client"]
  BY <1>1 DEF TypeOK, IInv, RouterInv, Up, Ends
<1>3. a \in Queue /\ outQueue["server"] \in Queue
  BY QueueFacts DEF TypeOK, Ends
<1>4. Pipe("server") = a \o outQueue["server"] /\ Pipe("server")' = a \o <<>>
  BY <1>1, <1>2 DEF Pipe, Peer, Up
<1>5. Pipe("client")' = <<>> /\ Pipe("client") \in Queue
  <2>1. Pipe("client")' = <<>>
    BY <1>2 DEF Pipe, Peer
  <2>2. Pipe("client") = (inQueue["server"] \o wire["client"]) \o outQueue["client"]
    BY <1>1, <1>2 DEF Pipe, Peer, Up
  <2>3. inQueue["server"] \in Queue /\ wire["client"] \in Queue /\ outQueue["client"] \in Queue
    BY DEF TypeOK, Ends
  <2>4. inQueue["server"] \o wire["client"] \in Queue
    BY <2>3, QueueFacts
  <2>5. QED
    BY <2>1, <2>2, <2>3, <2>4, QueueFacts
<1>6. Link = "whole" /\ Link' = "cut"
  BY <1>1, <1>2 DEF Link, Ends, Up
<1> HIDE DEF a
<1>7. /\ Len(a) \in 0 .. Len(Pipe("server"))
      /\ SubSeq(Pipe("server"), 1, Len(a)) = Pipe("server")'
  <2>1. a \o <<>> = a
    BY <1>3, ConcatEmptySeq DEF Queue
  <2>2. /\ Len(a) \in 0 .. Len(a \o outQueue["server"])
        /\ SubSeq(a \o outQueue["server"], 1, Len(a)) = a
    BY <1>3, ConcatParts
  <2>3. QED
    BY <1>4, <2>1, <2>2
<1>8. /\ 0 \in 0 .. Len(Pipe("client"))
      /\ SubSeq(Pipe("client"), 1, 0) = Pipe("client")'
  <2>1. Len(Pipe("client")) \in Nat
    BY <1>5, LenProperties DEF Queue
  <2>2. SubSeq(Pipe("client"), 1, 0) = <<>>
    BY SubSeqEmpty
  <2>3. 0 \in 0 .. Len(Pipe("client"))
    BY <2>1
  <2>4. QED
    BY <1>5, <2>2, <2>3
<1>9. Queues["server"] = Pipe("server") /\ Queues["client"] = Pipe("client")
  BY DEF Queues, Ends
<1>10. Queues' = [e \in Ends |-> SubSeq(Queues[e], 1, IF e = "server" THEN Len(a) ELSE 0)]
  BY <1>7, <1>8, <1>9 DEF Queues, Ends
<1>11. \E s \in 0 .. Len(Queues["server"]), c \in 0 .. Len(Queues["client"]) :
         Queues' = [e \in Ends |-> SubSeq(Queues[e], 1, IF e = "server" THEN s ELSE c)]
  BY <1>7, <1>8, <1>9, <1>10
<1>12. Abstract!Ends = Ends
  BY DEF Abstract!Ends, Ends
<1>13. QED
  BY <1>1, <1>6, <1>11, <1>12 DEF Abstract!Cut, Queues, Link

-----------------------------------------------------------------------------
\* Every step of the pipe is a step of the channel or a stutter.
LEMMA StepSimulation ==
  ASSUME TypeOK, IInv, [Next]_vars
  PROVE  [Abstract!Next]_(Abstract!vars)
<1>1. Abstract!Ends = Ends
  BY DEF Abstract!Ends, Ends
<1>2. ASSUME NEW e \in Ends, AttachPipes(e)
      PROVE  UNCHANGED Abstract!vars
  <2>1. \A x \in Ends : sock'[x] = "closed" <=> sock[x] = "closed"
    BY <1>2 DEF AttachPipes, TypeOK
  <2>2. UNCHANGED <<outQueue, wire, inQueue, posted, delivered>>
    BY <1>2 DEF AttachPipes
  <2>3. \A x \in Ends : Pipe(x)' = Pipe(x)
    BY <2>1, <2>2, PeerFacts DEF Pipe
  <2>4. Link' = Link
    BY <2>1 DEF Link
  <2>5. QED
    BY <2>2, <2>3, <2>4, Stutter
<1>3. ASSUME NEW e \in Ends, NEW m \in Msgs, PostMessage(e, m)
      PROVE  Abstract!Next
  BY <1>1, <1>3, PostIsSend DEF Abstract!Next
<1>4. ASSUME NEW e \in Ends, ModifyFDSets(e)
      PROVE  UNCHANGED Abstract!vars
  BY <1>4, Stutter DEF ModifyFDSets, Pipe, Link
<1>5. ASSUME NEW e \in Ends, RunWriter(e)
      PROVE  UNCHANGED Abstract!vars
  BY <1>5, WriterStutters
<1>6. ASSUME NEW e \in Ends, RunReader(e)
      PROVE  [Abstract!Next]_(Abstract!vars)
  <2>1. CASE ~Up(e)
    BY <1>6, <2>1, Stutter DEF RunReader, Pipe, Link
  <2>2. CASE Up(e) /\ wire[Peer(e)] = <<>>
    BY <1>6, <2>2, EndOfFileStutters
  <2>3. CASE Up(e) /\ wire[Peer(e)] # <<>>
    BY <1>1, <1>6, <2>3, ReadIsDeliver, PeerFacts DEF Abstract!Next
  <2>4. QED
    BY <2>1, <2>2, <2>3
<1>7. CASE RunRouter
  BY <1>1, <1>7, RouterIsDeliver DEF Abstract!Next, Ends
<1>8. CASE DetachPipes
  BY <1>8, DetachIsCut DEF Abstract!Next
<1>9. CASE UNCHANGED vars
  BY <1>9, Stutter DEF vars, Pipe, Link
<1>10. QED
  BY <1>2, <1>3, <1>4, <1>5, <1>6, <1>7, <1>8, <1>9, StepCases DEF EndStep

\* A message pipe is an ordered channel in both directions: no interleaving of the two
\* event loops, of posting, select, write, read, end of file and DeletePort loses,
\* repeats, invents or reorders a message but by urgency or by a close.
THEOREM PipeIsChannel == Spec => IsChannel
<1>1. Init => Abstract!Init
  <2>1. <<>> \o <<>> = <<>>
    BY EmptySeq, ConcatEmptySeq
  <2>2. ASSUME Init
        PROVE  Abstract!Init
    <3>1. \A e \in Ends : Pipe(e) = <<>>
      BY <2>1, <2>2, PeerFacts DEF Init, Pipe
    <3>2. QED
      BY <2>2, <3>1 DEF Init, Abstract!Init, Abstract!Ends, Ends
  <2>3. QED
    BY <2>2
<1>2. TypeOK /\ IInv /\ [Next]_vars => [Abstract!Next]_(Abstract!vars)
  BY StepSimulation
<1>3. QED
  BY <1>1, <1>2, Invariance, PTL DEF Spec, IsChannel, Abstract!Spec
=============================================================================

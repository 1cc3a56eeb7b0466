--------------------------- MODULE TceCore_proofs ---------------------------
(***************************************************************************)
(* What holds of the core for any number of requests of its two servers:   *)
(* a message that is read is dealt with before the next one, the port of a *)
(* worker is deleted when nothing of the worker's is left in it, a client  *)
(* is answered after the worker was joined, and the steps of the core and  *)
(* of the threads around it are steps of RequestServer.                    *)
(***************************************************************************)
EXTENDS TceCore, SequenceTheorems, TLAPS

\* The events of the core are one of four lists, which say where its one message is.
ControlInv ==
  /\ events \in {<<>>, <<"router">>, <<"router", "handler">>, <<"handler">>}
  /\ Len(loop) <= 1
  /\ loop # <<>> <=> events \in {<<"router", "handler">>, <<"handler">>}
  /\ \A p \in DOMAIN received : received[p] # <<>> =>
       /\ Len(received[p]) = 1
       /\ Up(p)
       /\ events = <<"router">>
       /\ \A q \in DOMAIN received \ {p} : received[q] = <<>>

\* What a thread sends, and what the core posts to itself.
Sends(p) ==
  CASE p \in Servers -> {Message("API_REQUEST", r) : r \in {q \in Requests : ServerOf[q] = p}}
    [] p = "tedb" -> {Message("TEWG_RESV_REQUEST", r) : r \in Requests}
    [] p = "resv" -> {Message("TEWG_REPLY", r) : r \in Requests}
    [] p = "loop" -> {Message("COMPUTE_REQUEST", r) : r \in Requests}
                       \cup {Message(ReplyTopic(r), r) : r \in Requests}
    [] OTHER -> {Message("TEWG_REQUEST", p), Message("COMPUTE_REPLY", p)}

RouteInv ==
  /\ \A p \in Threads : \A i \in DOMAIN sent[p] : sent[p][i] \in Sends(p)
  /\ \A p \in Threads \cup {"loop"} : \A i \in DOMAIN received[p] : received[p][i] \in Sends(p)
  /\ \A i \in DOMAIN loop : loop[i].topic \in {"API_REQUEST", "COMPUTE_REPLY"}

\* The message the core has read or routed to itself.
Held(m) == loop = <<m>> \/ \E p \in DOMAIN received : received[p] = <<m>>

\* A request is posted once and on its way in one place until its worker is started.
RequestInv ==
  /\ \A r \in Requests : thread[r] # "none" => r \in posted
  /\ \A r \in Requests : thread[r] = "none" =>
       r \notin ports \cup stopped /\ sent[r] = <<>> /\ job[r] = "new"
  /\ \A s \in Servers : \A i \in DOMAIN sent[s] :
       /\ sent[s][i].req \in posted
       /\ thread[sent[s][i].req] = "none"
       /\ \A j \in DOMAIN sent[s] : sent[s][i].req = sent[s][j].req => i = j
  /\ \A r \in Requests : Held(Message("API_REQUEST", r)) =>
       /\ r \in posted
       /\ thread[r] = "none"
       /\ \A s \in Servers : \A i \in DOMAIN sent[s] : sent[s][i].req # r

\* A worker's answer is the last it sends; the core has stopped the worker, has the
\* answer in hand, or finds it at the end of the pipe.
AnswerInv ==
  /\ \A r \in Requests : \A i \in DOMAIN sent[r] :
       sent[r][i] = Message("COMPUTE_REPLY", r) =>
         i = Len(sent[r]) /\ job[r] = "answered" /\ r \notin stopped
  /\ \A r \in Requests : Held(Message("COMPUTE_REPLY", r)) =>
       sent[r] = <<>> /\ job[r] = "answered" /\ r \notin stopped
  /\ \A r \in stopped :
       /\ r \notin ports /\ job[r] = "answered" /\ thread[r] # "none"
       /\ sent[r] = <<>> /\ received[r] = <<>>

Joined(r) == r \in stopped \ joining /\ thread[r] = "ended"

\* The reply to a client waits for Join in the core's own queue.
ReplyInv ==
  /\ joining \subseteq stopped
  /\ \A r \in Requests : received["loop"] = <<Message(ReplyTopic(r), r)>> =>
       /\ Joined(r) \/ joining = {r}
       /\ \A s \in Servers : \A i \in DOMAIN written[s] : written[s][i].req # r
  /\ \A s \in Servers : \A i \in DOMAIN written[s] :
       Joined(written[s][i].req) /\ ServerOf[written[s][i].req] = s

IInv == TypeOK /\ ControlInv /\ RouteInv /\ RequestInv /\ AnswerInv /\ ReplyInv

-----------------------------------------------------------------------------
\* The names of the threads are distinct.
LEMMA ThreadFacts ==
  /\ Servers \subseteq Threads /\ Managers \subseteq Threads /\ Requests \subseteq Threads
  /\ Servers \cap Requests = {} /\ Managers \cap Requests = {} /\ Servers \cap Managers = {}
  /\ "loop" \notin Threads
  /\ \A r \in Requests : ServerOf[r] \in Servers
BY CoreAssumption DEF Threads, Servers, Managers

\* Appending a message keeps the others.
LEMMA AppendFacts ==
  ASSUME NEW q \in Seq(Messages), NEW m \in Messages
  PROVE  /\ Append(q, m) \in Seq(Messages)
         /\ Append(q, m) # <<>>
         /\ Len(Append(q, m)) = Len(q) + 1
         /\ Len(q) \in Nat
         /\ DOMAIN q = 1 .. Len(q)
         /\ DOMAIN Append(q, m) = 1 .. Len(q) + 1
         /\ \A i \in DOMAIN Append(q, m) :
              \/ i = Len(q) + 1 /\ Append(q, m)[i] = m
              \/ i \in DOMAIN q /\ Append(q, m)[i] = q[i]
OBVIOUS

\* Taking the first message shifts the others.
LEMMA TailFacts ==
  ASSUME NEW q \in Seq(Messages), q # <<>>
  PROVE  /\ Tail(q) \in Seq(Messages)
         /\ Len(Tail(q)) = Len(q) - 1
         /\ Len(q) \in Nat
         /\ Head(q) = q[1] /\ Head(q) \in Messages /\ 1 \in DOMAIN q
         /\ DOMAIN q = 1 .. Len(q)
         /\ \A i \in DOMAIN Tail(q) : i + 1 \in DOMAIN q /\ i + 1 # 1 /\ Tail(q)[i] = q[i + 1]
OBVIOUS

\* What is added to the queue of one thread leaves the others alone.
LEMMA AddFacts ==
  ASSUME NEW f \in [Threads -> Seq(Messages)], NEW p \in Threads, NEW m \in Messages,
         NEW g, g = [f EXCEPT ![p] = Append(@, m)]
  PROVE  /\ g \in [Threads -> Seq(Messages)]
         /\ g[p] = Append(f[p], m)
         /\ \A q \in Threads \ {p} : g[q] = f[q]
OBVIOUS

\* A message of some topic about a request.
LEMMA MessageFacts ==
  /\ \A m \in Messages : m.req \in Requests /\ m = Message(m.topic, m.req)
  /\ \A r \in Requests, topic \in {"API_REQUEST", "API_REPLY", "XMLRPC_API_REPLY",
         "COMPUTE_REQUEST", "COMPUTE_REPLY", "TEWG_REQUEST", "TEWG_RESV_REQUEST", "TEWG_REPLY"} :
       /\ Message(topic, r) \in Messages
       /\ Message(topic, r).topic = topic
       /\ Message(topic, r).req = r
  /\ \A r \in Requests : /\ ReplyTopic(r) \in {"API_REPLY", "XMLRPC_API_REPLY"}
                         /\ Message(ReplyTopic(r), r) \in Messages
BY DEF Messages, Message, ReplyTopic

\* Every message is routed to a thread or to the core.
LEMMA PortFacts ==
  ASSUME NEW m \in Messages
  PROVE  PortOf(m) \in Threads \cup {"loop"}
BY ThreadFacts, MessageFacts DEF PortOf, Messages, Threads, Servers, Managers

-----------------------------------------------------------------------------
\* Every step is one of the actions.
LEMMA StepCases ==
  ASSUME [Next]_vars
  PROVE  \/ \E r \in Requests : PostRequest(r)
         \/ \E r \in Requests : AskTewg(r)
         \/ \E r \in Requests : TakeMessage(r)
         \/ \E r \in Requests : Answer(r)
         \/ \E r \in Requests : EndLoop(r)
         \/ \E r \in Requests : HandleException(r)
         \/ \E p \in Managers, topic \in {"TEWG_RESV_REQUEST", "TEWG_REPLY"} :
              Forward(p, topic) /\ (p = "tedb" <=> topic = "TEWG_RESV_REQUEST")
         \/ \E p \in Threads : ReadMessage(p)
         \/ \E p \in Threads \cup {"loop"} : Route(p)
         \/ RouterDone \/ HandleRequest \/ HandleReply \/ JoinDone
         \/ UNCHANGED vars
BY DEF Next, WorkerTurn, ForwardTewg, ReplyTewg, CoreStep, Idle, Managers

\* Every step keeps every variable to its type.
LEMMA TypeStep ==
  ASSUME TypeOK, [Next]_vars
  PROVE  TypeOK'
<1> USE DEF TypeOK
<1>1. ASSUME NEW r \in Requests, PostRequest(r)
      PROVE  TypeOK'
  BY <1>1, ThreadFacts, MessageFacts, AppendFacts DEF PostRequest, Send, core, workers
<1>2. ASSUME NEW r \in Requests, AskTewg(r)
      PROVE  TypeOK'
  BY <1>2, ThreadFacts, MessageFacts, AppendFacts DEF AskTewg, Send, core
<1>3. ASSUME NEW r \in Requests, TakeMessage(r)
      PROVE  TypeOK'
  BY <1>3, ThreadFacts, TailFacts DEF TakeMessage, core
<1>4. ASSUME NEW r \in Requests, Answer(r)
      PROVE  TypeOK'
  BY <1>4, ThreadFacts, MessageFacts, AppendFacts DEF Answer, Send, core
<1>5. ASSUME NEW r \in Requests, EndLoop(r)
      PROVE  TypeOK'
  BY <1>5 DEF EndLoop, core
<1>6. ASSUME NEW r \in Requests, HandleException(r)
      PROVE  TypeOK'
  <2>1. PICK n \in 0 .. Len(sent[r]) :
          sent' = [sent EXCEPT ![r] = Append(SubSeq(@, 1, n), Message("COMPUTE_REPLY", r))]
    BY <1>6 DEF HandleException
  <2>2. sent[r] \in Seq(Messages) /\ SubSeq(sent[r], 1, n) \in Seq(Messages)
    BY ThreadFacts
  <2>3. Append(SubSeq(sent[r], 1, n), Message("COMPUTE_REPLY", r)) \in Seq(Messages)
    BY <2>2, MessageFacts
  <2>4. sent' \in [Threads -> Seq(Messages)]
    BY <2>1, <2>3, ThreadFacts
  <2>5. QED
    BY <1>6, <2>4 DEF HandleException, core
<1>7. ASSUME NEW p \in Managers, NEW topic \in {"TEWG_RESV_REQUEST", "TEWG_REPLY"},
             Forward(p, topic)
      PROVE  TypeOK'
  BY <1>7, ThreadFacts, MessageFacts, AppendFacts, TailFacts DEF Forward, Send, core, workers
<1>8. ASSUME NEW p \in Threads, ReadMessage(p)
      PROVE  TypeOK'
  BY <1>8, AppendFacts, TailFacts DEF ReadMessage, workers, Check, Readable
<1>9. ASSUME NEW p \in Threads \cup {"loop"}, Route(p)
      PROVE  TypeOK'
  <2>1. received[p] \in Seq(Messages) /\ received[p] # <<>>
    BY <1>9 DEF Route
  <2>2. Tail(received[p]) \in Seq(Messages) /\ Head(received[p]) \in Messages
    BY <2>1, TailFacts
  <2>3. received' \in [Threads \cup {"loop"} -> Seq(Messages)]
    <3>1. received' = [received EXCEPT ![p] = Tail(@)]
      BY <1>9 DEF Route
    <3>2. QED
      BY <2>2, <3>1
  <2>4. CASE PortOf(Head(received[p])) = "loop"
    <3>1. /\ loop' = Append(loop, Head(received[p]))
          /\ events' = Append(events, "handler")
          /\ UNCHANGED <<posted, ports, sent, written, thread, job, stopped, joining>>
      BY <1>9, <2>4 DEF Route, workers, CheckMessage
    <3>2. QED
      BY <2>2, <2>3, <3>1
  <2>5. CASE PortOf(Head(received[p])) # "loop"
    <3>1. PortOf(Head(received[p])) \in Threads
      BY <2>2, <2>5, PortFacts
    <3>2. written' \in [Threads -> Seq(Messages)]
      <4>1. CASE UNCHANGED written
        BY <4>1
      <4>2. CASE written' = [written EXCEPT ![PortOf(Head(received[p]))] =
                               Append(@, Head(received[p]))]
        BY <2>2, <3>1, <4>2, AddFacts
      <4>3. QED
        BY <1>9, <2>5, <4>1, <4>2 DEF Route
    <3>3. QED
      BY <1>9, <2>3, <2>5, <3>2 DEF Route, workers
  <2>6. QED
    BY <2>4, <2>5
<1>10. CASE RouterDone
  BY <1>10 DEF RouterDone, Routing, workers
<1>11. CASE HandleRequest
  BY <1>11, MessageFacts, AppendFacts, TailFacts DEF HandleRequest, Handling, PostLocal, Check
<1>12. CASE HandleReply
  BY <1>12, MessageFacts, AppendFacts, TailFacts
     DEF HandleReply, Handling, PostLocal, Check, DeletePort, Stop, Join, workers
<1>13. CASE JoinDone
  BY <1>13 DEF JoinDone, workers
<1>14. CASE UNCHANGED vars
  BY <1>14 DEF vars
<1>15. QED
  BY <1>1, <1>2, <1>3, <1>4, <1>5, <1>6, <1>7, <1>8, <1>9, <1>10, <1>11, <1>12, <1>13, <1>14,
     StepCases

-----------------------------------------------------------------------------
\* The steps of the threads around the core leave the core alone.
LEMMA CoreFrame ==
  ASSUME \/ \E r \in Requests : PostRequest(r) \/ AskTewg(r) \/ TakeMessage(r) \/ Answer(r)
                                \/ EndLoop(r) \/ HandleException(r)
         \/ \E p \in Managers, topic \in {"TEWG_RESV_REQUEST", "TEWG_REPLY"} : Forward(p, topic)
  PROVE  UNCHANGED core
BY DEF PostRequest, AskTewg, TakeMessage, Answer, EndLoop, HandleException, Forward

\* Short sequences are equal if their elements are.
LEMMA OneEqual ==
  ASSUME NEW S, NEW s \in Seq(S), NEW t \in Seq(S), Len(s) = 1, Len(t) = 1, s[1] = t[1]
  PROVE  s = t
<1>1. \A i \in 1 .. Len(s) : s[i] = t[i]
  OBVIOUS
<1>2. QED
  BY <1>1, SeqEqual

LEMMA TwoEqual ==
  ASSUME NEW S, NEW s \in Seq(S), NEW t \in Seq(S),
         Len(s) = 2, Len(t) = 2, s[1] = t[1], s[2] = t[2]
  PROVE  s = t
<1>1. \A i \in 1 .. Len(s) : s[i] = t[i]
  OBVIOUS
<1>2. QED
  BY <1>1, SeqEqual

LEMMA LenFacts ==
  ASSUME NEW S, NEW q \in Seq(S)
  PROVE  Len(q) \in Nat /\ (q = <<>> <=> Len(q) = 0)
BY EmptySeq, LenProperties

\* One message in an empty queue.
LEMMA SingleFacts ==
  ASSUME NEW q \in Seq(Messages), NEW m \in Messages
  PROVE  /\ q = <<>> => Append(q, m) = <<m>>
         /\ Len(q) = 1 => q = <<Head(q)>> /\ Tail(q) = <<>>
         /\ q # <<>> /\ Len(q) <= 1 => Len(q) = 1
         /\ <<m>> # <<>> /\ Len(<<m>>) = 1 /\ Head(<<m>>) = m /\ DOMAIN <<m>> = {1}
         /\ <<m>>[1] = m
<1>1. <<m>> \in Seq(Messages) /\ Len(<<m>>) = 1 /\ <<m>>[1] = m
  OBVIOUS
<1>2. ASSUME q = <<>>
      PROVE  Append(q, m) = <<m>>
  <2>1. Append(q, m) \in Seq(Messages) /\ Len(Append(q, m)) = 1 /\ Append(q, m)[1] = m
    BY <1>2
  <2>2. QED
    BY <1>1, <2>1, OneEqual
<1>3. ASSUME Len(q) = 1
      PROVE  q = <<Head(q)>> /\ Tail(q) = <<>>
  <2>1. q # <<>>
    BY <1>3, LenFacts
  <2>2. Head(q) = q[1] /\ Head(q) \in Messages /\ Tail(q) \in Seq(Messages)
        /\ Len(Tail(q)) = 0
    BY <1>3, <2>1, TailFacts
  <2>3. <<Head(q)>> \in Seq(Messages) /\ Len(<<Head(q)>>) = 1 /\ <<Head(q)>>[1] = q[1]
    BY <2>2
  <2>4. q = <<Head(q)>>
    BY <1>3, <2>3, OneEqual
  <2>5. Tail(q) = <<>>
    BY <2>2, EmptySeq
  <2>6. QED
    BY <2>4, <2>5
<1>4. q # <<>> /\ Len(q) <= 1 => Len(q) = 1
  <2>1. ASSUME q # <<>>, Len(q) <= 1
        PROVE  Len(q) = 1
    <3>1. Len(q) \in Nat /\ Len(q) # 0
      BY <2>1, LenFacts
    <3>2. \A n \in Nat : n # 0 /\ n <= 1 => n = 1
      OBVIOUS
    <3>3. QED
      BY <2>1, <3>1, <3>2
  <2>2. QED
    BY <2>1
<1>5. DOMAIN <<m>> = {1} /\ Head(<<m>>) = m /\ <<m>> # <<>>
  BY <1>1
<1>6. QED
  BY <1>1, <1>2, <1>3, <1>4, <1>5

\* The four lists of events.
LEMMA EventFacts ==
  /\ <<"router">> # <<>> /\ Head(<<"router">>) = "router" /\ Tail(<<"router">>) = <<>>
  /\ <<"handler">> # <<>> /\ Head(<<"handler">>) = "handler" /\ Tail(<<"handler">>) = <<>>
  /\ <<"router", "handler">> # <<>> /\ Head(<<"router", "handler">>) = "router"
  /\ Tail(<<"router", "handler">>) = <<"handler">>
  /\ Append(<<"router">>, "handler") = <<"router", "handler">>
  /\ Check(<<>>) = <<"router">>
  /\ <<"router">> # <<"handler">> /\ <<"router">> # <<"router", "handler">>
  /\ <<"handler">> # <<"router", "handler">>
<1> DEFINE E == {"router", "handler"}
<1>1. /\ <<"router">> \in Seq(E) /\ Len(<<"router">>) = 1 /\ <<"router">>[1] = "router"
      /\ <<"handler">> \in Seq(E) /\ Len(<<"handler">>) = 1 /\ <<"handler">>[1] = "handler"
      /\ <<"router", "handler">> \in Seq(E) /\ Len(<<"router", "handler">>) = 2
      /\ <<"router", "handler">>[1] = "router" /\ <<"router", "handler">>[2] = "handler"
      /\ <<>> \in Seq(E) /\ Len(<<>>) = 0
  OBVIOUS
<1>2. Append(<<"router">>, "handler") = <<"router", "handler">>
  <2>1. /\ Append(<<"router">>, "handler") \in Seq(E)
        /\ Len(Append(<<"router">>, "handler")) = 2
        /\ Append(<<"router">>, "handler")[1] = "router"
        /\ Append(<<"router">>, "handler")[2] = "handler"
    BY <1>1
  <2>2. QED
    BY <1>1, <2>1, TwoEqual
<1>3. Check(<<>>) = <<"router">>
  <2>1. Check(<<>>) = Append(<<>>, "router")
    BY DEF Check
  <2>2. /\ Append(<<>>, "router") \in Seq(E)
        /\ Len(Append(<<>>, "router")) = 1
        /\ Append(<<>>, "router")[1] = "router"
    BY <1>1
  <2>3. QED
    BY <1>1, <2>1, <2>2, OneEqual
<1>4. Tail(<<"router">>) = <<>> /\ Tail(<<"handler">>) = <<>>
  BY <1>1, EmptySeq
<1>5. Tail(<<"router", "handler">>) = <<"handler">>
  <2>1. /\ Tail(<<"router", "handler">>) \in Seq(E)
        /\ Len(Tail(<<"router", "handler">>)) = 1
        /\ Tail(<<"router", "handler">>)[1] = "handler"
    BY <1>1
  <2>2. QED
    BY <1>1, <2>1, OneEqual
<1>6. /\ <<"router">> # <<"handler">> /\ <<"router">> # <<"router", "handler">>
      /\ <<"handler">> # <<"router", "handler">>
      /\ <<"router">> # <<>> /\ <<"handler">> # <<>> /\ <<"router", "handler">> # <<>>
  BY <1>1
<1>7. /\ Head(<<"router">>) = "router" /\ Head(<<"handler">>) = "handler"
      /\ Head(<<"router", "handler">>) = "router"
  BY <1>1
<1>8. QED
  BY <1>2, <1>3, <1>4, <1>5, <1>6, <1>7

\* What the core does with the one message it has: it reads it, passes it on to a thread
\* or to itself, or handles it and posts another one.
LEMMA ReadFacts ==
  ASSUME TypeOK, ControlInv, NEW p \in Threads, ReadMessage(p)
  PROVE  /\ sent[p] # <<>> /\ Head(sent[p]) \in Messages
         /\ events = <<>> /\ events' = <<"router">>
         /\ loop = <<>> /\ loop' = <<>>
         /\ \A q \in DOMAIN received : received[q] = <<>>
         /\ received' = [received EXCEPT ![p] = <<Head(sent[p])>>]
         /\ sent' = [sent EXCEPT ![p] = Tail(@)]
         /\ Up(p)
         /\ UNCHANGED <<posted, ports, written, thread, job, stopped, joining>>
<1> USE DEF TypeOK, ControlInv
<1>1. sent[p] # <<>> /\ sent[p] \in Seq(Messages) /\ events = <<>>
  BY DEF ReadMessage, Readable
<1>2. Head(sent[p]) \in Messages
  BY <1>1, TailFacts
<1>3. loop = <<>> /\ \A q \in DOMAIN received : received[q] = <<>>
  BY <1>1, EventFacts
<1>4. received' = [received EXCEPT ![p] = <<Head(sent[p])>>]
  <2>1. received[p] \in Seq(Messages) /\ received[p] = <<>>
    BY <1>3
  <2>2. Append(received[p], Head(sent[p])) = <<Head(sent[p])>>
    BY <1>2, <2>1, SingleFacts
  <2>3. received' = [received EXCEPT ![p] = Append(@, Head(sent[p]))]
    BY DEF ReadMessage
  <2>4. QED
    BY <2>2, <2>3
<1>5. events' = <<"router">> /\ loop' = loop
  BY <1>1, EventFacts DEF ReadMessage
<1>6. Up(p) /\ UNCHANGED <<posted, ports, written, thread, job, stopped, joining>>
  BY DEF ReadMessage, workers
<1>7. QED
  BY <1>1, <1>2, <1>3, <1>4, <1>5, <1>6 DEF ReadMessage

LEMMA RouteFacts ==
  ASSUME TypeOK, ControlInv, NEW p \in Threads \cup {"loop"}, Route(p)
  PROVE  \E m \in Messages :
           /\ received[p] = <<m>>
           /\ \A q \in DOMAIN received \ {p} : received[q] = <<>>
           /\ received' = [received EXCEPT ![p] = <<>>]
           /\ events = <<"router">> /\ loop = <<>> /\ joining = {}
           /\ \/ /\ PortOf(m) = "loop"
                 /\ loop' = <<m>>
                 /\ events' = <<"router", "handler">>
                 /\ UNCHANGED written
              \/ /\ PortOf(m) \in Threads
                 /\ \/ written' = [written EXCEPT ![PortOf(m)] = Append(@, m)]
                    \/ UNCHANGED written /\ PortOf(m) \in Requests
                 /\ loop' = <<>>
                 /\ events' = <<"router">>
           /\ UNCHANGED <<posted, ports, sent, thread, job, stopped, joining>>
<1> USE DEF TypeOK
<1>1. received[p] \in Seq(Messages) /\ received[p] # <<>> /\ joining = {}
  BY DEF Route, Routing
<1>2. Len(received[p]) = 1 /\ events = <<"router">>
      /\ \A q \in DOMAIN received \ {p} : received[q] = <<>>
  BY <1>1 DEF ControlInv
<1>3. loop = <<>>
  BY <1>2, EventFacts DEF ControlInv
<1> DEFINE m == Head(received[p])
<1>4. m \in Messages /\ received[p] = <<m>> /\ Tail(received[p]) = <<>>
  BY <1>1, <1>2, TailFacts, SingleFacts
<1>5. received' = [received EXCEPT ![p] = <<>>]
  BY <1>4 DEF Route
<1>6. UNCHANGED <<posted, ports, sent, thread, job, stopped, joining>>
  BY DEF Route, workers
<1>7. CASE PortOf(m) = "loop"
  <2>1. loop' = Append(loop, m) /\ events' = Append(events, "handler") /\ UNCHANGED written
    BY <1>7 DEF Route, CheckMessage
  <2>2. loop' = <<m>> /\ events' = <<"router", "handler">>
    BY <1>2, <1>3, <1>4, <2>1, SingleFacts, EventFacts
  <2>3. QED
    BY <1>1, <1>2, <1>3, <1>4, <1>5, <1>6, <1>7, <2>1, <2>2
<1>8. CASE PortOf(m) # "loop"
  <2>1. PortOf(m) \in Threads
    BY <1>4, <1>8, PortFacts
  <2>2. /\ loop' = <<>> /\ events' = <<"router">>
        /\ \/ written' = [written EXCEPT ![PortOf(m)] = Append(@, m)]
           \/ UNCHANGED written /\ ~Up(PortOf(m))
    <3>1. UNCHANGED <<loop, events>>
      BY <1>8 DEF Route
    <3>2. \/ written' = [written EXCEPT ![PortOf(m)] = Append(@, m)]
          \/ UNCHANGED written /\ ~Up(PortOf(m))
      <4>1. CASE Up(PortOf(m))
        BY <1>8, <4>1 DEF Route
      <4>2. CASE ~Up(PortOf(m))
        BY <1>8, <4>2 DEF Route
      <4>3. QED
        BY <4>1, <4>2
    <3>3. QED
      BY <1>2, <1>3, <3>1, <3>2
  <2>3. ~Up(PortOf(m)) => PortOf(m) \in Requests
    BY DEF Up
  <2>4. QED
    BY <1>1, <1>2, <1>3, <1>4, <1>5, <1>6, <2>1, <2>2, <2>3
<1>9. QED
  BY <1>7, <1>8

LEMMA HandlingFacts ==
  ASSUME TypeOK, ControlInv, NEW topic, Handling(topic), NEW m \in Messages, PostLocal(m)
  PROVE  \E r \in Requests :
           /\ r = Head(loop).req
           /\ loop = <<Message(topic, r)>>
           /\ loop' = <<>>
           /\ joining = {}
           /\ events' = <<"router">>
           /\ \A q \in DOMAIN received : received[q] = <<>>
           /\ received' = [received EXCEPT !["loop"] = <<m>>]
<1> USE DEF TypeOK
<1>1. loop \in Seq(Messages) /\ loop # <<>> /\ Head(events) = "handler" /\ joining = {}
      /\ Head(loop).topic = topic
  BY DEF Handling
<1>2. events = <<"handler">> /\ Len(loop) = 1
  BY <1>1, EventFacts, SingleFacts DEF ControlInv
<1>3. \A q \in DOMAIN received : received[q] = <<>>
  BY <1>2, EventFacts DEF ControlInv
<1>4. loop = <<Head(loop)>> /\ Tail(loop) = <<>> /\ Head(loop) \in Messages
  BY <1>1, <1>2, SingleFacts, TailFacts
<1>5. Head(loop).req \in Requests /\ Head(loop) = Message(topic, Head(loop).req)
  BY <1>1, <1>4, MessageFacts
<1>6. events' = <<"router">> /\ loop' = <<>>
  BY <1>2, <1>4, EventFacts DEF PostLocal
<1>7. received' = [received EXCEPT !["loop"] = <<m>>]
  <2>1. received["loop"] \in Seq(Messages) /\ received["loop"] = <<>>
    BY <1>3
  <2>2. Append(received["loop"], m) = <<m>>
    BY <2>1, SingleFacts
  <2>3. received' = [received EXCEPT !["loop"] = Append(@, m)]
    BY DEF PostLocal
  <2>4. QED
    BY <2>2, <2>3
<1>8. QED
  BY <1>1, <1>3, <1>4, <1>5, <1>6, <1>7

-----------------------------------------------------------------------------
\* The list of events goes on saying where the message of the core is.
LEMMA ControlFrame ==
  ASSUME ControlInv, UNCHANGED core
  PROVE  ControlInv'
BY DEF ControlInv, Up, core

LEMMA ControlStep ==
  ASSUME TypeOK, ControlInv, [Next]_vars
  PROVE  ControlInv'
<1>1. ASSUME NEW p \in Threads, ReadMessage(p)
      PROVE  ControlInv'
  <2>1. /\ Head(sent[p]) \in Messages
        /\ events' = <<"router">> /\ loop' = <<>>
        /\ \A q \in DOMAIN received : received[q] = <<>>
        /\ received' = [received EXCEPT ![p] = <<Head(sent[p])>>]
        /\ Up(p) /\ UNCHANGED ports
    BY <1>1, ReadFacts
  <2>2. Len(<<Head(sent[p])>>) = 1
    BY <2>1, SingleFacts, EmptySeq
  <2>3. Len(<<>>) <= 1 /\ <<"router">> \notin {<<"router", "handler">>, <<"handler">>}
    BY EmptySeq, EventFacts
  <2>4. QED
    BY <2>1, <2>2, <2>3, ThreadFacts DEF ControlInv, TypeOK, Up
<1>2. ASSUME NEW p \in Threads \cup {"loop"}, Route(p)
      PROVE  ControlInv'
  <2>1. PICK m \in Messages :
          /\ \A q \in DOMAIN received \ {p} : received[q] = <<>>
          /\ received' = [received EXCEPT ![p] = <<>>]
          /\ \/ loop' = <<m>> /\ events' = <<"router", "handler">>
             \/ loop' = <<>> /\ events' = <<"router">>
    BY <1>2, RouteFacts
  <2>2. \A q \in DOMAIN received' : received'[q] = <<>>
    BY <2>1 DEF TypeOK
  <2>3. /\ Len(<<>>) <= 1 /\ Len(<<m>>) <= 1 /\ <<m>> # <<>>
        /\ <<"router">> \notin {<<"router", "handler">>, <<"handler">>}
    BY EmptySeq, EventFacts, SingleFacts
  <2>4. QED
    BY <2>1, <2>2, <2>3 DEF ControlInv
<1>3. CASE RouterDone
  <2>1. /\ events # <<>> /\ Head(events) = "router" /\ events' = Tail(events)
        /\ UNCHANGED <<received, loop>>
        /\ \A p \in DOMAIN received : Up(p) => received[p] = <<>>
    BY <1>3 DEF RouterDone, Routing
  <2>2. \A p \in DOMAIN received : received'[p] = <<>>
    BY <2>1 DEF ControlInv
  <2>3. CASE events = <<"router">>
    BY <2>1, <2>2, <2>3, EventFacts DEF ControlInv
  <2>4. CASE events = <<"router", "handler">>
    BY <2>1, <2>2, <2>4, EventFacts DEF ControlInv
  <2>5. QED
    BY <2>1, <2>3, <2>4, EventFacts DEF ControlInv
<1>4. ASSUME NEW topic, Handling(topic), NEW m \in Messages, PostLocal(m)
      PROVE  ControlInv'
  <2>1. /\ loop' = <<>> /\ events' = <<"router">>
        /\ \A q \in DOMAIN received : received[q] = <<>>
        /\ received' = [received EXCEPT !["loop"] = <<m>>]
    BY <1>4, HandlingFacts
  <2>2. /\ Len(<<m>>) = 1 /\ Len(<<>>) <= 1
        /\ <<"router">> \notin {<<"router", "handler">>, <<"handler">>}
    BY <1>4, SingleFacts, EmptySeq, EventFacts
  <2>3. "loop" \notin Requests
    BY CoreAssumption
  <2>4. QED
    BY <2>1, <2>2, <2>3 DEF ControlInv, TypeOK, Up
<1>5. CASE HandleRequest
  <2>1. Head(loop) \in Messages
    BY <1>5, TailFacts DEF HandleRequest, Handling, TypeOK
  <2>2. QED
    BY <1>4, <1>5, <2>1, MessageFacts DEF HandleRequest
<1>6. CASE HandleReply
  <2>1. Head(loop) \in Messages
    BY <1>6, TailFacts DEF HandleReply, Handling, TypeOK
  <2>2. QED
    BY <1>4, <1>6, <2>1, MessageFacts DEF HandleReply
<1>7. CASE JoinDone
  BY <1>7 DEF JoinDone, ControlInv, Up
<1>8. CASE UNCHANGED vars
  BY <1>8, ControlFrame DEF vars, core
<1>9. QED
  BY <1>1, <1>2, <1>3, <1>5, <1>6, <1>7, <1>8, StepCases, CoreFrame, ControlFrame

-----------------------------------------------------------------------------
\* What each thread sends.
LEMMA SendsFacts ==
  /\ \A r \in Requests : Sends(r) = {Message("TEWG_REQUEST", r), Message("COMPUTE_REPLY", r)}
  /\ \A s \in Servers : Sends(s) = {Message("API_REQUEST", r) : r \in {q \in Requests : ServerOf[q] = s}}
  /\ Sends("tedb") = {Message("TEWG_RESV_REQUEST", r) : r \in Requests}
  /\ Sends("resv") = {Message("TEWG_REPLY", r) : r \in Requests}
  /\ Sends("loop") = {Message("COMPUTE_REQUEST", r) : r \in Requests}
                       \cup {Message(ReplyTopic(r), r) : r \in Requests}
<1>1. \A r \in Requests : r \notin Servers /\ r # "tedb" /\ r # "resv" /\ r # "loop"
  BY CoreAssumption DEF Servers
<1>2. "tedb" \notin Servers /\ "resv" \notin Servers /\ "loop" \notin Servers
  BY DEF Servers
<1>3. \A r \in Requests : Sends(r) = {Message("TEWG_REQUEST", r), Message("COMPUTE_REPLY", r)}
  BY <1>1 DEF Sends
<1>4. \A s \in Servers : Sends(s) = {Message("API_REQUEST", r) : r \in {q \in Requests : ServerOf[q] = s}}
  BY <1>2 DEF Sends
<1>5. Sends("tedb") = {Message("TEWG_RESV_REQUEST", r) : r \in Requests}
  BY <1>2 DEF Sends
<1>6. Sends("resv") = {Message("TEWG_REPLY", r) : r \in Requests}
  BY <1>2 DEF Sends
<1>7. Sends("loop") = {Message("COMPUTE_REQUEST", r) : r \in Requests}
                        \cup {Message(ReplyTopic(r), r) : r \in Requests}
  BY <1>2 DEF Sends
<1>8. QED
  BY <1>3, <1>4, <1>5, <1>6, <1>7

\* The core routes only requests and answers of workers to itself.
LEMMA LoopTopics ==
  ASSUME NEW m \in Messages, PortOf(m) = "loop"
  PROVE  m.topic \in {"API_REQUEST", "COMPUTE_REPLY"}
<1>1. "loop" \notin Requests
  BY CoreAssumption
<1>2. m.req \in Requests
  BY MessageFacts
<1>3. QED
  BY <1>1, <1>2 DEF PortOf, Messages

\* Threads only send what they send.
LEMMA SentStep ==
  ASSUME TypeOK, RouteInv, [Next]_vars
  PROVE  \A p \in Threads : \A i \in DOMAIN sent'[p] : sent'[p][i] \in Sends(p)
<1> DEFINE Goal == \A p \in Threads : \A i \in DOMAIN sent'[p] : sent'[p][i] \in Sends(p)
<1>1. ASSUME NEW p \in Threads, NEW m \in Messages, m \in Sends(p), Send(p, m)
      PROVE  Goal
  <2>1. /\ sent'[p] = Append(sent[p], m)
        /\ \A q \in Threads \ {p} : sent'[q] = sent[q]
    BY <1>1 DEF Send, TypeOK
  <2>2. \A i \in DOMAIN sent'[p] : sent'[p][i] = m \/ (i \in DOMAIN sent[p] /\ sent'[p][i] = sent[p][i])
    BY <2>1, AppendFacts DEF TypeOK
  <2>3. QED
    BY <1>1, <2>1, <2>2 DEF RouteInv
<1>2. ASSUME NEW r \in Requests, PostRequest(r)
      PROVE  Goal
  BY <1>1, <1>2, ThreadFacts, MessageFacts, SendsFacts DEF PostRequest
<1>3. ASSUME NEW r \in Requests, AskTewg(r) \/ Answer(r)
      PROVE  Goal
  BY <1>1, <1>3, ThreadFacts, MessageFacts, SendsFacts DEF AskTewg, Answer
<1>4. ASSUME NEW r \in Requests, HandleException(r)
      PROVE  Goal
  <2>1. PICK n \in 0 .. Len(sent[r]) :
          sent' = [sent EXCEPT ![r] = Append(SubSeq(@, 1, n), Message("COMPUTE_REPLY", r))]
    BY <1>4 DEF HandleException
  <2>2. sent[r] \in Seq(Messages) /\ r \in Threads
    BY ThreadFacts DEF TypeOK
  <2>3. /\ SubSeq(sent[r], 1, n) \in Seq(Messages)
        /\ Len(SubSeq(sent[r], 1, n)) = n
        /\ DOMAIN SubSeq(sent[r], 1, n) = 1 .. n
        /\ \A i \in 1 .. n : i \in DOMAIN sent[r] /\ SubSeq(sent[r], 1, n)[i] = sent[r][i]
    BY <2>2
  <2>4. \A i \in DOMAIN sent'[r] : sent'[r][i] = Message("COMPUTE_REPLY", r)
                                     \/ \E j \in DOMAIN sent[r] : sent'[r][i] = sent[r][j]
    BY <2>1, <2>2, <2>3, AppendFacts, MessageFacts DEF TypeOK
  <2>5. \A q \in Threads \ {r} : sent'[q] = sent[q]
    BY <2>1 DEF TypeOK
  <2>6. QED
    BY <2>2, <2>4, <2>5, SendsFacts DEF RouteInv
<1>5. ASSUME NEW p \in Managers, NEW topic \in {"TEWG_RESV_REQUEST", "TEWG_REPLY"},
             Forward(p, topic), p = "tedb" <=> topic = "TEWG_RESV_REQUEST"
      PROVE  Goal
  <2>1. p \in Threads /\ Head(written[p]).req \in Requests
    BY <1>5, ThreadFacts, TailFacts, MessageFacts DEF Forward, TypeOK
  <2>2. Message(topic, Head(written[p]).req) \in Sends(p)
    BY <1>5, <2>1, SendsFacts DEF Managers
  <2>3. QED
    BY <1>1, <1>5, <2>1, <2>2, MessageFacts DEF Forward
<1>6. ASSUME NEW p \in Threads, ReadMessage(p)
      PROVE  Goal
  <2>1. sent' = [sent EXCEPT ![p] = Tail(@)] /\ sent[p] # <<>> /\ sent[p] \in Seq(Messages)
    BY <1>6 DEF ReadMessage, TypeOK
  <2>2. \A i \in DOMAIN sent'[p] : \E j \in DOMAIN sent[p] : sent'[p][i] = sent[p][j]
    BY <2>1, TailFacts DEF TypeOK
  <2>3. QED
    BY <2>1, <2>2 DEF RouteInv, TypeOK
<1>7. ASSUME UNCHANGED sent
      PROVE  Goal
  BY <1>7 DEF RouteInv
<1>8. QED
  BY <1>2, <1>3, <1>4, <1>5, <1>6, <1>7, StepCases
     DEF TakeMessage, EndLoop, Route, RouterDone, HandleRequest, HandleReply, JoinDone, vars

LEMMA RouteStep ==
  ASSUME TypeOK, ControlInv, RouteInv, [Next]_vars
  PROVE  RouteInv'
<1> DEFINE Received == \A p \in Threads \cup {"loop"} :
                         \A i \in DOMAIN received'[p] : received'[p][i] \in Sends(p)
           Looped == \A i \in DOMAIN loop' : loop'[i].topic \in {"API_REQUEST", "COMPUTE_REPLY"}
<1>1. ASSUME NEW p \in Threads, ReadMessage(p)
      PROVE  Received /\ Looped
  <2>1. /\ sent[p] # <<>> /\ Head(sent[p]) \in Messages /\ loop' = <<>>
        /\ \A q \in DOMAIN received : received[q] = <<>>
        /\ received' = [received EXCEPT ![p] = <<Head(sent[p])>>]
    BY <1>1, ReadFacts
  <2>2. Head(sent[p]) \in Sends(p)
    BY <2>1, TailFacts DEF RouteInv, TypeOK
  <2>3. \A i \in DOMAIN <<Head(sent[p])>> : <<Head(sent[p])>>[i] \in Sends(p)
    BY <2>1, <2>2, SingleFacts, EmptySeq
  <2>4. \A q \in (Threads \cup {"loop"}) \ {p} : received'[q] = <<>>
    BY <2>1 DEF TypeOK
  <2>5. received'[p] = <<Head(sent[p])>>
    BY <2>1 DEF TypeOK
  <2>6. DOMAIN <<>> = {}
    BY EmptySeq
  <2>7. QED
    BY <2>1, <2>3, <2>4, <2>5, <2>6
<1>2. ASSUME NEW p \in Threads \cup {"loop"}, Route(p)
      PROVE  Received /\ Looped
  <2>1. PICK m \in Messages :
          /\ \A q \in DOMAIN received \ {p} : received[q] = <<>>
          /\ received' = [received EXCEPT ![p] = <<>>]
          /\ \/ PortOf(m) = "loop" /\ loop' = <<m>>
             \/ loop' = <<>>
    BY <1>2, RouteFacts
  <2>2. \A q \in Threads \cup {"loop"} : received'[q] = <<>>
    BY <2>1 DEF TypeOK
  <2>3. Looped
    BY <2>1, LoopTopics, SingleFacts, EmptySeq
  <2>4. QED
    BY <2>2, <2>3, EmptySeq
<1>3. ASSUME NEW topic, Handling(topic), NEW m \in Messages, PostLocal(m), m \in Sends("loop")
      PROVE  Received /\ Looped
  <2>1. /\ loop' = <<>>
        /\ \A q \in DOMAIN received : received[q] = <<>>
        /\ received' = [received EXCEPT !["loop"] = <<m>>]
    BY <1>3, HandlingFacts
  <2>2. \A q \in Threads : received'[q] = <<>>
    BY <2>1, ThreadFacts DEF TypeOK
  <2>3. received'["loop"] = <<m>>
    BY <2>1 DEF TypeOK
  <2>4. \A i \in DOMAIN <<m>> : <<m>>[i] = m
    BY SingleFacts, <1>3
  <2>5. QED
    BY <1>3, <2>1, <2>2, <2>3, <2>4, EmptySeq
<1>4. ASSUME UNCHANGED <<received, loop>>
      PROVE  Received /\ Looped
  BY <1>4 DEF RouteInv
<1> HIDE DEF Received, Looped
<1>5. ASSUME HandleRequest
      PROVE  Received /\ Looped
  <2> DEFINE m == Message("COMPUTE_REQUEST", Head(loop).req)
  <2>1. Handling("API_REQUEST") /\ PostLocal(m)
    BY <1>5 DEF HandleRequest
  <2>2. Head(loop).req \in Requests
    BY <2>1, TailFacts, MessageFacts DEF Handling, TypeOK
  <2>3. m \in Messages /\ m \in Sends("loop")
    BY <2>2, MessageFacts, SendsFacts
  <2>4. QED
    BY <1>3, <2>1, <2>3
<1>6. ASSUME HandleReply
      PROVE  Received /\ Looped
  <2> DEFINE m == Message(ReplyTopic(Head(loop).req), Head(loop).req)
  <2>1. Handling("COMPUTE_REPLY") /\ PostLocal(m)
    BY <1>6 DEF HandleReply
  <2>2. Head(loop).req \in Requests
    BY <2>1, TailFacts, MessageFacts DEF Handling, TypeOK
  <2>3. m \in Messages /\ m \in Sends("loop")
    BY <2>2, MessageFacts, SendsFacts
  <2>4. QED
    BY <1>3, <2>1, <2>3
<1>7. Received /\ Looped
  BY <1>1, <1>2, <1>4, <1>5, <1>6, StepCases, CoreFrame DEF core, RouterDone, JoinDone, vars
<1>8. QED
  BY <1>7, SentStep DEF RouteInv, Received, Looped

-----------------------------------------------------------------------------
\* How the message in hand changes: it is one that was read, the same one routed to the
\* core itself, or one the core has posted.
LEMMA HeldRead ==
  ASSUME TypeOK, ControlInv, NEW p \in Threads, ReadMessage(p)
  PROVE  \A m \in Messages : Held(m)' => m = Head(sent[p])
<1>1. /\ Head(sent[p]) \in Messages /\ loop' = <<>>
      /\ \A q \in DOMAIN received : received[q] = <<>>
      /\ received' = [received EXCEPT ![p] = <<Head(sent[p])>>]
  BY ReadFacts
<1>2. \A q \in DOMAIN received' : received'[q] \in {<<>>, <<Head(sent[p])>>}
  BY <1>1 DEF TypeOK
<1>3. \A m \in Messages : <<m>> # <<>> /\ <<m>>[1] = m
  BY SingleFacts, EmptySeq
<1>4. QED
  BY <1>1, <1>2, <1>3 DEF Held

LEMMA HeldRoute ==
  ASSUME TypeOK, ControlInv, NEW p \in Threads \cup {"loop"}, Route(p)
  PROVE  \A m \in Messages : Held(m)' => Held(m)
<1>1. PICK m \in Messages :
        /\ received[p] = <<m>>
        /\ \A q \in DOMAIN received \ {p} : received[q] = <<>>
        /\ received' = [received EXCEPT ![p] = <<>>]
        /\ loop' \in {<<>>, <<m>>}
  BY RouteFacts
<1>2. \A q \in DOMAIN received' : received'[q] = <<>>
  BY <1>1 DEF TypeOK
<1>3. \A n \in Messages : <<n>> # <<>> /\ <<n>>[1] = n
  BY SingleFacts, EmptySeq
<1>4. p \in DOMAIN received
  BY DEF TypeOK
<1>5. QED
  BY <1>1, <1>2, <1>3, <1>4 DEF Held

LEMMA HeldPost ==
  ASSUME TypeOK, ControlInv, NEW topic, Handling(topic), NEW m \in Messages, PostLocal(m)
  PROVE  /\ \A n \in Messages : Held(n)' => n = m
         /\ Held(Message(topic, Head(loop).req))
<1>1. /\ loop = <<Message(topic, Head(loop).req)>>
      /\ loop' = <<>>
      /\ \A q \in DOMAIN received : received[q] = <<>>
      /\ received' = [received EXCEPT !["loop"] = <<m>>]
  BY HandlingFacts
<1>2. \A q \in DOMAIN received' : received'[q] \in {<<>>, <<m>>}
  BY <1>1 DEF TypeOK
<1>3. \A n \in Messages : <<n>> # <<>> /\ <<n>>[1] = n
  BY SingleFacts, EmptySeq
<1>4. QED
  BY <1>1, <1>2, <1>3 DEF Held

LEMMA HeldFrame ==
  ASSUME UNCHANGED <<loop, received>>
  PROVE  \A m \in Messages : Held(m)' <=> Held(m)
BY DEF Held

\* What is in the pipes of the servers, and who sends what.
LEMMA ServerSends ==
  ASSUME RouteInv, TypeOK
  PROVE  /\ \A s \in Servers : \A i \in DOMAIN sent[s] :
              /\ sent[s][i].req \in Requests
              /\ sent[s][i] = Message("API_REQUEST", sent[s][i].req)
              /\ sent[s][i] \in Messages
              /\ ServerOf[sent[s][i].req] = s
         /\ \A p \in Threads, r \in Requests :
              /\ Message("API_REQUEST", r) \in Sends(p) => p \in Servers /\ p = ServerOf[r]
              /\ Message("COMPUTE_REPLY", r) \in Sends(p) => p = r
<1>1. ASSUME NEW s \in Servers, NEW i \in DOMAIN sent[s]
      PROVE  /\ sent[s][i].req \in Requests
             /\ sent[s][i] = Message("API_REQUEST", sent[s][i].req)
             /\ sent[s][i] \in Messages
             /\ ServerOf[sent[s][i].req] = s
  <2>1. sent[s][i] \in Sends(s)
    BY ThreadFacts DEF RouteInv
  <2>2. PICK r \in Requests : sent[s][i] = Message("API_REQUEST", r) /\ ServerOf[r] = s
    BY <2>1, SendsFacts
  <2>3. QED
    BY <2>2, MessageFacts
<1>2. ASSUME NEW p \in Threads, NEW r \in Requests, Message("API_REQUEST", r) \in Sends(p)
      PROVE  p \in Servers /\ p = ServerOf[r]
  <2>1. CASE p \in Servers
    BY <1>2, <2>1, SendsFacts, MessageFacts
  <2>2. CASE p \in Requests
    BY <1>2, <2>2, SendsFacts, MessageFacts
  <2>3. CASE p = "tedb"
    BY <1>2, <2>3, SendsFacts, MessageFacts
  <2>4. CASE p = "resv"
    BY <1>2, <2>4, SendsFacts, MessageFacts
  <2>5. QED
    BY <2>1, <2>2, <2>3, <2>4 DEF Threads, Managers
<1>3. ASSUME NEW p \in Threads, NEW r \in Requests, Message("COMPUTE_REPLY", r) \in Sends(p)
      PROVE  p = r
  <2>1. CASE p \in Servers
    BY <1>3, <2>1, SendsFacts, MessageFacts
  <2>2. CASE p \in Requests
    BY <1>3, <2>2, SendsFacts, MessageFacts
  <2>3. CASE p = "tedb"
    BY <1>3, <2>3, SendsFacts, MessageFacts
  <2>4. CASE p = "resv"
    BY <1>3, <2>4, SendsFacts, MessageFacts
  <2>5. QED
    BY <2>1, <2>2, <2>3, <2>4 DEF Threads, Managers
<1>4. QED
  BY <1>1, <1>2, <1>3

-----------------------------------------------------------------------------
\* What a worker does to its thread, its job and its pipe.
LEMMA WorkerFacts ==
  ASSUME TypeOK, NEW r \in Requests,
         \/ AskTewg(r) \/ TakeMessage(r) \/ Answer(r) \/ EndLoop(r) \/ HandleException(r)
  PROVE  /\ thread[r] = "running"
         /\ UNCHANGED <<posted, ports, received, loop, events, stopped, joining>>
         /\ \A p \in Threads \ {r} : sent'[p] = sent[p]
         /\ \A q \in Requests \ {r} : thread'[q] = thread[q] /\ job'[q] = job[q]
         /\ thread'[r] \in {"running", "ended"}
         /\ \A s \in Servers : written'[s] = written[s]
<1>1. r \notin Servers /\ r \in Threads
  BY ThreadFacts
<1>2. CASE AskTewg(r)
  BY <1>1, <1>2 DEF AskTewg, Send, core, TypeOK
<1>3. CASE TakeMessage(r)
  BY <1>1, <1>3, ThreadFacts DEF TakeMessage, core, TypeOK
<1>4. CASE Answer(r)
  BY <1>1, <1>4 DEF Answer, Send, core, TypeOK
<1>5. CASE EndLoop(r)
  BY <1>1, <1>5 DEF EndLoop, core, TypeOK
<1>6. CASE HandleException(r)
  <2>1. PICK n \in 0 .. Len(sent[r]) :
          sent' = [sent EXCEPT ![r] = Append(SubSeq(@, 1, n), Message("COMPUTE_REPLY", r))]
    BY <1>6 DEF HandleException
  <2>2. \A p \in Threads \ {r} : sent'[p] = sent[p]
    BY <2>1 DEF TypeOK
  <2>3. QED
    BY <1>1, <1>6, <2>2 DEF HandleException, core, TypeOK
<1>7. QED
  BY <1>2, <1>3, <1>4, <1>5, <1>6

\* What a manager passes on.
LEMMA ForwardFacts ==
  ASSUME TypeOK, NEW p \in Managers, NEW topic \in {"TEWG_RESV_REQUEST", "TEWG_REPLY"},
         Forward(p, topic)
  PROVE  /\ UNCHANGED <<posted, ports, received, loop, events, stopped, joining, thread, job>>
         /\ \A q \in Threads \ {p} : sent'[q] = sent[q]
         /\ \A s \in Servers : written'[s] = written[s]
BY ThreadFacts DEF Forward, Send, core, workers, TypeOK

\* A request is posted once and its worker started once.
LEMMA RequestStep ==
  ASSUME TypeOK, ControlInv, RouteInv, RequestInv, AnswerInv, [Next]_vars
  PROVE  RequestInv'
<1>1. ASSUME NEW r \in Requests, PostRequest(r)
      PROVE  RequestInv'
  <2> DEFINE s == ServerOf[r]
             m == Message("API_REQUEST", r)
  <2>1. /\ r \notin posted /\ posted' = posted \cup {r}
        /\ sent' = [sent EXCEPT ![s] = Append(@, m)]
        /\ UNCHANGED <<ports, stopped, thread, job, loop, received>>
    BY <1>1 DEF PostRequest, Send, core, workers
  <2>2. s \in Servers /\ s \in Threads /\ m \in Messages /\ m.req = r
    BY ThreadFacts, MessageFacts
  <2>3. thread[r] = "none" /\ ~Held(m)
    BY <2>1 DEF RequestInv
  <2>4. \A q \in Threads \ {s} : sent'[q] = sent[q]
    BY <2>1 DEF TypeOK
  <2>5. \A i \in DOMAIN sent'[s] : \/ i = Len(sent[s]) + 1 /\ sent'[s][i] = m
                                   \/ i \in DOMAIN sent[s] /\ sent'[s][i] = sent[s][i]
    BY <2>1, <2>2, AppendFacts DEF TypeOK
  <2>6. \A i \in DOMAIN sent[s] : sent[s][i].req # r
    BY <2>1, <2>2 DEF RequestInv
  <2>7. ASSUME NEW t \in Servers, NEW i \in DOMAIN sent'[t]
        PROVE  /\ sent'[t][i].req \in posted'
               /\ thread'[sent'[t][i].req] = "none"
               /\ \A j \in DOMAIN sent'[t] : sent'[t][i].req = sent'[t][j].req => i = j
    <3>1. CASE t # s
      <4>1. sent'[t] = sent[t]
        BY <2>4, <3>1, ThreadFacts
      <4>2. posted \subseteq posted' /\ thread' = thread
        BY <2>1
      <4>3. QED
        BY <4>1, <4>2 DEF RequestInv
    <3>2. CASE t = s
      BY <2>1, <2>2, <2>3, <2>5, <2>6, <3>2 DEF RequestInv
    <3>3. QED
      BY <3>1, <3>2
  <2>8. ASSUME NEW q \in Requests, Held(Message("API_REQUEST", q))'
        PROVE  /\ q \in posted' /\ thread'[q] = "none"
               /\ \A t \in Servers : \A i \in DOMAIN sent'[t] : sent'[t][i].req # q
    <3>1. Held(Message("API_REQUEST", q)) /\ q # r
      BY <2>1, <2>3, <2>8, MessageFacts, HeldFrame
    <3>2. ASSUME NEW t \in Servers, NEW i \in DOMAIN sent'[t]
          PROVE  sent'[t][i].req # q
      <4>1. CASE t = s
        BY <2>2, <2>5, <3>1, <4>1 DEF RequestInv
      <4>2. CASE t # s
        BY <2>4, <3>1, <4>2, ThreadFacts DEF RequestInv
      <4>3. QED
        BY <4>1, <4>2
    <3>3. QED
      BY <2>1, <3>1, <3>2 DEF RequestInv
  <2>9. \A q \in Requests : sent'[q] = sent[q]
    BY <2>2, <2>4, ThreadFacts
  <2>10. QED
    BY <2>1, <2>7, <2>8, <2>9 DEF RequestInv
<1>2. ASSUME NEW r \in Requests,
             AskTewg(r) \/ TakeMessage(r) \/ Answer(r) \/ EndLoop(r) \/ HandleException(r)
      PROVE  RequestInv'
  <2>1. /\ thread[r] = "running" /\ thread'[r] # "none"
        /\ UNCHANGED <<posted, ports, received, loop, stopped>>
        /\ \A p \in Threads \ {r} : sent'[p] = sent[p]
        /\ \A q \in Requests \ {r} : thread'[q] = thread[q] /\ job'[q] = job[q]
    BY <1>2, WorkerFacts
  <2>2. \A s \in Servers : sent'[s] = sent[s]
    BY <2>1, ThreadFacts
  <2>3. \A s \in Servers : \A i \in DOMAIN sent[s] :
           sent[s][i].req \in Requests /\ sent[s][i].req # r
    BY <2>1, ServerSends DEF RequestInv
  <2>4. QED
    BY <2>1, <2>2, <2>3, ThreadFacts DEF RequestInv, Held
<1>3. ASSUME NEW p \in Managers, NEW topic \in {"TEWG_RESV_REQUEST", "TEWG_REPLY"},
             Forward(p, topic)
      PROVE  RequestInv'
  BY <1>3, ForwardFacts, ThreadFacts DEF RequestInv, Held
<1>4. ASSUME NEW p \in Threads, ReadMessage(p)
      PROVE  RequestInv'
  <2>1. /\ sent[p] # <<>> /\ sent[p] \in Seq(Messages) /\ Head(sent[p]) \in Messages
        /\ sent' = [sent EXCEPT ![p] = Tail(@)]
        /\ UNCHANGED <<posted, ports, thread, job, stopped>>
    BY <1>4, ReadFacts DEF TypeOK
  <2>2. /\ Head(sent[p]) = sent[p][1] /\ 1 \in DOMAIN sent[p] /\ Head(sent[p]) \in Sends(p)
        /\ \A i \in DOMAIN Tail(sent[p]) :
             i + 1 \in DOMAIN sent[p] /\ i + 1 # 1 /\ Tail(sent[p])[i] = sent[p][i + 1]
        /\ \A i \in DOMAIN Tail(sent[p]) : i \in Nat
    BY <2>1, TailFacts, LenProperties DEF RouteInv
  <2>3. sent'[p] = Tail(sent[p]) /\ \A q \in Threads \ {p} : sent'[q] = sent[q]
    BY <2>1 DEF TypeOK
  <2>4. ASSUME NEW s \in Servers, NEW i \in DOMAIN sent'[s]
        PROVE  /\ sent'[s][i].req \in posted'
               /\ thread'[sent'[s][i].req] = "none"
               /\ \A j \in DOMAIN sent'[s] : sent'[s][i].req = sent'[s][j].req => i = j
    <3>1. CASE s = p
      <4>1. \A j \in DOMAIN sent'[s] : /\ j + 1 \in DOMAIN sent[s] /\ j \in Nat
                                       /\ sent'[s][j] = sent[s][j + 1]
        BY <2>2, <2>3, <3>1
      <4>2. ASSUME NEW j \in DOMAIN sent'[s], sent'[s][i].req = sent'[s][j].req
            PROVE  i = j
        <5>1. i + 1 = j + 1
          BY <4>1, <4>2 DEF RequestInv
        <5>2. i \in Nat /\ j \in Nat
          BY <4>1
        <5>3. QED
          BY <5>1, <5>2
      <4>3. sent'[s][i].req \in posted /\ thread[sent'[s][i].req] = "none"
        BY <4>1 DEF RequestInv
      <4>4. QED
        BY <2>1, <4>2, <4>3
    <3>2. CASE s # p
      <4>1. sent'[s] = sent[s]
        BY <2>3, <3>2, ThreadFacts
      <4>2. QED
        BY <2>1, <4>1 DEF RequestInv
    <3>3. QED
      BY <3>1, <3>2
  <2>5. ASSUME NEW r \in Requests, Held(Message("API_REQUEST", r))'
        PROVE  /\ r \in posted' /\ thread'[r] = "none"
               /\ \A s \in Servers : \A i \in DOMAIN sent'[s] : sent'[s][i].req # r
    <3>1. Message("API_REQUEST", r) \in Messages /\ Message("API_REQUEST", r).req = r
      BY MessageFacts
    <3>2. Message("API_REQUEST", r) = sent[p][1]
      BY <1>4, <2>2, <2>5, <3>1, HeldRead
    <3>3. p \in Servers /\ p = ServerOf[r]
      BY <2>2, <3>2, ServerSends
    <3>4. sent[p][1].req = r
      BY <3>1, <3>2
    <3>5. ASSUME NEW s \in Servers, NEW i \in DOMAIN sent'[s]
          PROVE  sent'[s][i].req # r
      <4>1. CASE s = p
        <5>1. /\ i + 1 \in DOMAIN sent[p] /\ i + 1 # 1
              /\ sent'[s][i] = sent[p][i + 1]
          BY <2>2, <2>3, <4>1
        <5>2. QED
          BY <2>2, <3>3, <3>4, <5>1 DEF RequestInv
      <4>2. CASE s # p
        <5>1. sent'[s] = sent[s]
          BY <2>3, <4>2, ThreadFacts
        <5>2. ServerOf[sent[s][i].req] = s
          BY <5>1, ServerSends
        <5>3. QED
          BY <3>3, <4>2, <5>1, <5>2
      <4>3. QED
        BY <4>1, <4>2
    <3>6. r \in posted /\ thread[r] = "none"
      BY <2>2, <3>3, <3>4 DEF RequestInv
    <3>7. QED
      BY <2>1, <3>5, <3>6
  <2>6. ASSUME NEW r \in Requests, thread[r] = "none"
        PROVE  sent'[r] = <<>>
    <3>1. sent[r] = <<>> /\ r \in Threads
      BY <2>6, ThreadFacts DEF RequestInv
    <3>2. QED
      BY <2>1, <2>3, <3>1
  <2>7. QED
    BY <2>1, <2>4, <2>5, <2>6 DEF RequestInv
<1>5. ASSUME NEW p \in Threads \cup {"loop"}, Route(p)
      PROVE  RequestInv'
  <2>1. UNCHANGED <<posted, ports, sent, thread, job, stopped>>
    BY <1>5, RouteFacts
  <2>2. \A m \in Messages : Held(m)' => Held(m)
    BY <1>5, HeldRoute
  <2>3. \A r \in Requests : Held(Message("API_REQUEST", r))' => Held(Message("API_REQUEST", r))
    BY <2>2, MessageFacts
  <2>4. QED
    BY <2>1, <2>3 DEF RequestInv
<1>6. CASE RouterDone \/ JoinDone
  BY <1>6 DEF RouterDone, JoinDone, RequestInv, Held, workers
<1>7. CASE HandleRequest
  <2> DEFINE r == Head(loop).req
             m == Message("COMPUTE_REQUEST", r)
  <2>1. /\ Handling("API_REQUEST") /\ PostLocal(m)
        /\ ports' = ports \cup {r} /\ thread' = [thread EXCEPT ![r] = "running"]
        /\ UNCHANGED <<posted, sent, job, stopped>>
    BY <1>7 DEF HandleRequest
  <2>2. r \in Requests
    BY <2>1, TailFacts, MessageFacts DEF Handling, TypeOK
  <2>3. m \in Messages /\ m.topic = "COMPUTE_REQUEST"
    BY <2>2, MessageFacts
  <2>4. Held(Message("API_REQUEST", r)) /\ \A n \in Messages : Held(n)' => n = m
    BY <2>1, <2>3, HeldPost
  <2>5. /\ r \in posted /\ thread[r] = "none"
        /\ \A s \in Servers : \A i \in DOMAIN sent[s] : sent[s][i].req # r
    BY <2>2, <2>4 DEF RequestInv
  <2>6. \A q \in Requests : ~Held(Message("API_REQUEST", q))'
    <3>1. \A q \in Requests : /\ Message("API_REQUEST", q) \in Messages
                              /\ Message("API_REQUEST", q).topic = "API_REQUEST"
      BY MessageFacts
    <3>2. QED
      BY <2>3, <2>4, <3>1
  <2>7. thread'[r] = "running" /\ \A q \in Requests \ {r} : thread'[q] = thread[q]
    BY <2>1, <2>2 DEF TypeOK
  <2>8. \A s \in Servers : \A i \in DOMAIN sent[s] : sent[s][i].req \in Requests
    BY ServerSends
  <2> HIDE DEF r, m
  <2>9. QED
    BY <2>1, <2>2, <2>5, <2>6, <2>7, <2>8 DEF RequestInv
<1>8. CASE HandleReply
  <2> DEFINE r == Head(loop).req
             m == Message(ReplyTopic(r), r)
  <2>1. /\ Handling("COMPUTE_REPLY") /\ PostLocal(m)
        /\ ports' = ports \ {r} /\ stopped' = stopped \cup {r}
        /\ UNCHANGED <<posted, sent, job, thread>>
    BY <1>8 DEF HandleReply, DeletePort, Stop, workers
  <2>2. r \in Requests
    BY <2>1, TailFacts, MessageFacts DEF Handling, TypeOK
  <2>3. m \in Messages /\ m.topic \in {"API_REPLY", "XMLRPC_API_REPLY"}
    BY <2>2, MessageFacts
  <2>4. Held(Message("COMPUTE_REPLY", r)) /\ \A n \in Messages : Held(n)' => n = m
    BY <2>1, <2>3, HeldPost
  <2>5. thread[r] # "none"
    BY <2>2, <2>4 DEF RequestInv, AnswerInv
  <2>6. \A q \in Requests : ~Held(Message("API_REQUEST", q))'
    <3>1. \A q \in Requests : /\ Message("API_REQUEST", q) \in Messages
                              /\ Message("API_REQUEST", q).topic = "API_REQUEST"
      BY MessageFacts
    <3>2. QED
      BY <2>3, <2>4, <3>1
  <2> HIDE DEF r, m
  <2>7. QED
    BY <2>1, <2>2, <2>5, <2>6 DEF RequestInv
<1>9. CASE UNCHANGED vars
  BY <1>9 DEF vars, RequestInv, Held
<1>10. QED
  BY <1>1, <1>2, <1>3, <1>4, <1>5, <1>6, <1>7, <1>8, <1>9, StepCases

-----------------------------------------------------------------------------
\* A worker sends its answer once, after everything else; the core stops it then.
LEMMA AnswerFrame ==
  ASSUME AnswerInv, TypeOK, UNCHANGED <<received, loop, ports, stopped>>,
         \A q \in Requests : /\ sent'[q] = sent[q]
                             /\ job[q] = "answered" => job'[q] = "answered"
                             /\ thread[q] # "none" => thread'[q] # "none"
  PROVE  AnswerInv'
<1>1. \A q \in Requests : Held(Message("COMPUTE_REPLY", q))' => Held(Message("COMPUTE_REPLY", q))
  BY HeldFrame, MessageFacts
<1>2. \A q \in stopped : q \in Requests
  BY DEF TypeOK
<1>3. \A q \in Requests : \A i \in DOMAIN sent'[q] :
         sent'[q][i] = Message("COMPUTE_REPLY", q) =>
           i = Len(sent'[q]) /\ job'[q] = "answered" /\ q \notin stopped'
  BY DEF AnswerInv
<1>4. \A q \in Requests : Held(Message("COMPUTE_REPLY", q))' =>
         sent'[q] = <<>> /\ job'[q] = "answered" /\ q \notin stopped'
  BY <1>1 DEF AnswerInv
<1>5. \A q \in stopped' :
         /\ q \notin ports' /\ job'[q] = "answered" /\ thread'[q] # "none"
         /\ sent'[q] = <<>> /\ received'[q] = <<>>
  BY <1>2 DEF AnswerInv
<1>6. QED
  BY <1>3, <1>4, <1>5 DEF AnswerInv

\* A worker that has not answered sends a message after others of which none is its answer.
LEMMA AnswerSend ==
  ASSUME TypeOK, AnswerInv, NEW r \in Requests, job[r] # "answered",
         UNCHANGED <<received, loop, ports, stopped>>,
         NEW q \in Seq(Messages), NEW m \in Messages,
         \A i \in DOMAIN q : i \in DOMAIN sent[r] /\ q[i] = sent[r][i],
         sent'[r] = Append(q, m),
         m = Message("COMPUTE_REPLY", r) => job'[r] = "answered",
         \A p \in Threads \ {r} : sent'[p] = sent[p],
         \A p \in Requests \ {r} : thread'[p] = thread[p] /\ job'[p] = job[p]
  PROVE  AnswerInv'
<1>1. r \notin stopped /\ ~Held(Message("COMPUTE_REPLY", r))
  BY DEF AnswerInv
<1>2. \A i \in DOMAIN sent[r] : sent[r][i] # Message("COMPUTE_REPLY", r)
  BY DEF AnswerInv
<1>3. ASSUME NEW i \in DOMAIN sent'[r], sent'[r][i] = Message("COMPUTE_REPLY", r)
      PROVE  i = Len(sent'[r]) /\ job'[r] = "answered"
  <2>1. i = Len(q) + 1 /\ Append(q, m)[i] = m
    BY <1>2, <1>3, AppendFacts
  <2>2. QED
    BY <1>3, <2>1, AppendFacts
<1>4. ASSUME NEW p \in Requests, p # r
      PROVE  sent'[p] = sent[p] /\ thread'[p] = thread[p] /\ job'[p] = job[p]
  BY <1>4, ThreadFacts
<1>5. \A p \in Requests : Held(Message("COMPUTE_REPLY", p))' => Held(Message("COMPUTE_REPLY", p))
  BY HeldFrame, MessageFacts
<1>6. \A p \in Requests : \A i \in DOMAIN sent'[p] :
         sent'[p][i] = Message("COMPUTE_REPLY", p) =>
           i = Len(sent'[p]) /\ job'[p] = "answered" /\ p \notin stopped'
  BY <1>1, <1>3, <1>4 DEF AnswerInv
<1>7. \A p \in Requests : Held(Message("COMPUTE_REPLY", p))' =>
         sent'[p] = <<>> /\ job'[p] = "answered" /\ p \notin stopped'
  BY <1>1, <1>4, <1>5 DEF AnswerInv
<1>8. \A p \in stopped' :
         /\ p \notin ports' /\ job'[p] = "answered" /\ thread'[p] # "none"
         /\ sent'[p] = <<>> /\ received'[p] = <<>>
  BY <1>1, <1>4 DEF AnswerInv, TypeOK
<1>9. QED
  BY <1>6, <1>7, <1>8 DEF AnswerInv

LEMMA AnswerStep ==
  ASSUME TypeOK, ControlInv, RouteInv, RequestInv, AnswerInv, [Next]_vars
  PROVE  AnswerInv'
<1>1. ASSUME NEW r \in Requests, PostRequest(r)
      PROVE  AnswerInv'
  <2>1. \A q \in Requests : sent'[q] = sent[q]
    BY <1>1, ThreadFacts DEF PostRequest, Send, TypeOK
  <2>2. UNCHANGED <<received, loop, ports, stopped, job, thread>>
    BY <1>1 DEF PostRequest, core, workers
  <2>3. QED
    BY <2>1, <2>2, AnswerFrame
<1>2. ASSUME NEW p \in Managers, NEW topic \in {"TEWG_RESV_REQUEST", "TEWG_REPLY"},
             Forward(p, topic)
      PROVE  AnswerInv'
  <2>1. \A q \in Requests : sent'[q] = sent[q]
    BY <1>2, ForwardFacts, ThreadFacts
  <2>2. QED
    BY <1>2, <2>1, ForwardFacts, AnswerFrame
<1>3. ASSUME NEW r \in Requests, TakeMessage(r) \/ EndLoop(r)
      PROVE  AnswerInv'
  <2>1. UNCHANGED <<received, loop, ports, stopped, sent>>
    BY <1>3 DEF TakeMessage, EndLoop, core
  <2>2. thread'[r] # "none" /\ \A q \in Requests \ {r} : thread'[q] = thread[q] /\ job'[q] = job[q]
    BY <1>3, WorkerFacts
  <2>3. job[r] = "answered" => job'[r] = "answered"
    BY <1>3 DEF TakeMessage, EndLoop, TypeOK
  <2>4. QED
    BY <2>1, <2>2, <2>3, AnswerFrame
<1>4. ASSUME NEW r \in Requests, AskTewg(r) \/ Answer(r)
      PROVE  AnswerInv'
  <2>1. PICK m \in {Message("TEWG_REQUEST", r), Message("COMPUTE_REPLY", r)} :
          /\ sent' = [sent EXCEPT ![r] = Append(@, m)]
          /\ m = Message("COMPUTE_REPLY", r) => job'[r] = "answered"
          /\ job[r] # "answered"
    <3>1. CASE AskTewg(r)
      <4>1. Message("TEWG_REQUEST", r) # Message("COMPUTE_REPLY", r)
        BY MessageFacts
      <4>2. QED
        BY <3>1, <4>1 DEF AskTewg, Send
    <3>2. CASE Answer(r)
      BY <3>2 DEF Answer, Send, TypeOK
    <3>3. QED
      BY <1>4, <3>1, <3>2
  <2>2. /\ UNCHANGED <<received, loop, ports, stopped>>
        /\ \A p \in Threads \ {r} : sent'[p] = sent[p]
        /\ \A p \in Requests \ {r} : thread'[p] = thread[p] /\ job'[p] = job[p]
    BY <1>4, WorkerFacts
  <2>3. m \in Messages /\ sent[r] \in Seq(Messages) /\ sent'[r] = Append(sent[r], m)
    BY <2>1, MessageFacts, ThreadFacts DEF TypeOK
  <2>4. QED
    BY <2>1, <2>2, <2>3, AnswerSend
<1>5. ASSUME NEW r \in Requests, HandleException(r)
      PROVE  AnswerInv'
  <2>1. PICK n \in 0 .. Len(sent[r]) :
          sent' = [sent EXCEPT ![r] = Append(SubSeq(@, 1, n), Message("COMPUTE_REPLY", r))]
    BY <1>5 DEF HandleException
  <2>2. sent[r] \in Seq(Messages) /\ r \in Threads /\ Message("COMPUTE_REPLY", r) \in Messages
    BY ThreadFacts, MessageFacts DEF TypeOK
  <2> DEFINE q == SubSeq(sent[r], 1, n)
  <2>3. q \in Seq(Messages) /\ \A i \in DOMAIN q : i \in DOMAIN sent[r] /\ q[i] = sent[r][i]
    BY <2>2
  <2>4. sent'[r] = Append(q, Message("COMPUTE_REPLY", r))
    BY <2>1, <2>2 DEF TypeOK
  <2>5. job[r] # "answered" /\ job'[r] = "answered"
    BY <1>5 DEF HandleException, TypeOK
  <2>6. /\ UNCHANGED <<received, loop, ports, stopped>>
        /\ \A p \in Threads \ {r} : sent'[p] = sent[p]
        /\ \A p \in Requests \ {r} : thread'[p] = thread[p] /\ job'[p] = job[p]
    BY <1>5, WorkerFacts
  <2> HIDE DEF q
  <2>7. QED
    BY <2>2, <2>3, <2>4, <2>5, <2>6, AnswerSend
<1>6. ASSUME NEW p \in Threads, ReadMessage(p)
      PROVE  AnswerInv'
  <2>1. /\ sent[p] # <<>> /\ sent[p] \in Seq(Messages) /\ Head(sent[p]) \in Messages
        /\ \A q \in DOMAIN received : received[q] = <<>>
        /\ received' = [received EXCEPT ![p] = <<Head(sent[p])>>]
        /\ sent' = [sent EXCEPT ![p] = Tail(@)]
        /\ UNCHANGED <<posted, ports, thread, job, stopped>>
    BY <1>6, ReadFacts DEF TypeOK
  <2>2. /\ Head(sent[p]) = sent[p][1] /\ 1 \in DOMAIN sent[p] /\ Head(sent[p]) \in Sends(p)
        /\ Len(Tail(sent[p])) = Len(sent[p]) - 1 /\ Tail(sent[p]) \in Seq(Messages)
        /\ \A i \in DOMAIN Tail(sent[p]) :
             i + 1 \in DOMAIN sent[p] /\ i \in Nat /\ Tail(sent[p])[i] = sent[p][i + 1]
    BY <2>1, TailFacts, LenProperties DEF RouteInv
  <2>3. sent'[p] = Tail(sent[p]) /\ \A q \in Threads \ {p} : sent'[q] = sent[q]
    BY <2>1 DEF TypeOK
  <2>4. ASSUME NEW r \in Requests, NEW i \in DOMAIN sent'[r],
               sent'[r][i] = Message("COMPUTE_REPLY", r)
        PROVE  i = Len(sent'[r]) /\ job[r] = "answered" /\ r \notin stopped
    <3>1. CASE r = p
      <4>1. /\ i + 1 \in DOMAIN sent[r] /\ i \in Nat
            /\ sent[r][i + 1] = Message("COMPUTE_REPLY", r)
        BY <2>2, <2>3, <2>4, <3>1
      <4>2. i + 1 = Len(sent[r]) /\ job[r] = "answered" /\ r \notin stopped
        BY <4>1 DEF AnswerInv
      <4>3. Len(sent'[r]) = Len(sent[r]) - 1
        BY <2>2, <2>3, <3>1
      <4>4. QED
        BY <4>1, <4>2, <4>3
    <3>2. CASE r # p
      <4>1. sent'[r] = sent[r]
        BY <2>3, <3>2, ThreadFacts
      <4>2. QED
        BY <2>4, <4>1 DEF AnswerInv
    <3>3. QED
      BY <3>1, <3>2
  <2>5. ASSUME NEW r \in Requests, Held(Message("COMPUTE_REPLY", r))'
        PROVE  sent'[r] = <<>> /\ job[r] = "answered" /\ r \notin stopped
    <3>1. sent[p][1] = Message("COMPUTE_REPLY", r)
      <4>1. Message("COMPUTE_REPLY", r) \in Messages
        BY MessageFacts
      <4>2. QED
        BY <1>6, <2>2, <2>5, <4>1, HeldRead
    <3>2. p = r
      BY <2>2, <3>1, ServerSends
    <3>3. 1 = Len(sent[p]) /\ job[r] = "answered" /\ r \notin stopped
      BY <2>2, <3>1, <3>2 DEF AnswerInv
    <3>4. sent'[r] = <<>>
      <4>1. Len(Tail(sent[p])) = 0
        BY <2>2, <3>3
      <4>2. QED
        BY <2>2, <2>3, <3>2, <4>1, LenFacts
    <3>5. QED
      BY <3>3, <3>4
  <2>6. ASSUME NEW r \in stopped
        PROVE  sent'[r] = <<>> /\ received'[r] = <<>>
    <3>1. sent[r] = <<>> /\ r \in Threads
      BY ThreadFacts DEF AnswerInv, TypeOK
    <3>2. r # p
      BY <2>1, <3>1
    <3>3. sent'[r] = <<>>
      BY <2>3, <3>1, <3>2
    <3>4. received'[r] = <<>>
      BY <2>1, <3>1, <3>2 DEF TypeOK
    <3>5. QED
      BY <3>3, <3>4
  <2>7. UNCHANGED <<ports, thread, job, stopped>>
    BY <2>1
  <2>8. \A r \in Requests : \A i \in DOMAIN sent'[r] :
         sent'[r][i] = Message("COMPUTE_REPLY", r) =>
           i = Len(sent'[r]) /\ job'[r] = "answered" /\ r \notin stopped'
    BY <2>4, <2>7
  <2>9. \A r \in Requests : Held(Message("COMPUTE_REPLY", r))' =>
         sent'[r] = <<>> /\ job'[r] = "answered" /\ r \notin stopped'
    BY <2>5, <2>7
  <2>10. \A r \in stopped' :
           /\ r \notin ports' /\ job'[r] = "answered" /\ thread'[r] # "none"
           /\ sent'[r] = <<>> /\ received'[r] = <<>>
    BY <2>6, <2>7 DEF AnswerInv
  <2>11. QED
    BY <2>8, <2>9, <2>10 DEF AnswerInv
<1>7. ASSUME NEW p \in Threads \cup {"loop"}, Route(p)
      PROVE  AnswerInv'
  <2>1. UNCHANGED <<posted, ports, sent, thread, job, stopped>>
    BY <1>7, RouteFacts
  <2>2. \A m \in Messages : Held(m)' => Held(m)
    BY <1>7, HeldRoute
  <2>3. \A r \in Requests :
          Held(Message("COMPUTE_REPLY", r))' => Held(Message("COMPUTE_REPLY", r))
    BY <2>2, MessageFacts
  <2>4. received' = [received EXCEPT ![p] = <<>>]
    BY <1>7, RouteFacts
  <2>5. \A r \in stopped : received'[r] = <<>>
    BY <2>4, ThreadFacts DEF AnswerInv, TypeOK
  <2>6. QED
    BY <2>1, <2>3, <2>5 DEF AnswerInv
<1>8. CASE RouterDone \/ JoinDone
  BY <1>8, AnswerFrame DEF RouterDone, JoinDone, workers
<1>9. CASE HandleRequest
  <2> DEFINE r == Head(loop).req
             m == Message("COMPUTE_REQUEST", r)
  <2>1. /\ Handling("API_REQUEST") /\ PostLocal(m)
        /\ ports' = ports \cup {r} /\ thread' = [thread EXCEPT ![r] = "running"]
        /\ UNCHANGED <<posted, sent, job, stopped>>
    BY <1>9 DEF HandleRequest
  <2>2. r \in Requests
    BY <2>1, TailFacts, MessageFacts DEF Handling, TypeOK
  <2>3. m \in Messages /\ m.topic = "COMPUTE_REQUEST"
    BY <2>2, MessageFacts
  <2>4. Held(Message("API_REQUEST", r)) /\ \A n \in Messages : Held(n)' => n = m
    BY <2>1, <2>3, HeldPost
  <2>5. r \notin stopped
    BY <2>2, <2>4 DEF RequestInv
  <2>6. \A q \in Requests : ~Held(Message("COMPUTE_REPLY", q))'
    <3>1. \A q \in Requests : /\ Message("COMPUTE_REPLY", q) \in Messages
                              /\ Message("COMPUTE_REPLY", q).topic = "COMPUTE_REPLY"
      BY MessageFacts
    <3>2. QED
      BY <2>3, <2>4, <3>1
  <2>7. \A q \in Requests : thread[q] # "none" => thread'[q] # "none"
    BY <2>1, <2>2 DEF TypeOK
  <2>8. \A q \in Requests : received'[q] = <<>>
    BY <2>1, <2>3, HandlingFacts, ThreadFacts DEF TypeOK
  <2> HIDE DEF r, m
  <2>9. \A q \in stopped : q \notin ports' /\ thread'[q] # "none" /\ received'[q] = <<>>
    BY <2>1, <2>5, <2>7, <2>8 DEF AnswerInv, TypeOK
  <2>10. QED
    BY <2>1, <2>6, <2>9 DEF AnswerInv
<1>10. CASE HandleReply
  <2> DEFINE r == Head(loop).req
             m == Message(ReplyTopic(r), r)
  <2>1. /\ Handling("COMPUTE_REPLY") /\ PostLocal(m)
        /\ ports' = ports \ {r} /\ stopped' = stopped \cup {r}
        /\ UNCHANGED <<posted, sent, job, thread>>
    BY <1>10 DEF HandleReply, DeletePort, Stop, workers
  <2>2. r \in Requests
    BY <2>1, TailFacts, MessageFacts DEF Handling, TypeOK
  <2>3. m \in Messages /\ m.topic \in {"API_REPLY", "XMLRPC_API_REPLY"}
    BY <2>2, MessageFacts
  <2>4. Held(Message("COMPUTE_REPLY", r)) /\ \A n \in Messages : Held(n)' => n = m
    BY <2>1, <2>3, HeldPost
  <2>5. sent[r] = <<>> /\ job[r] = "answered" /\ thread[r] # "none"
    BY <2>2, <2>4 DEF RequestInv, AnswerInv
  <2>6. \A q \in Requests : ~Held(Message("COMPUTE_REPLY", q))'
    <3>1. \A q \in Requests : /\ Message("COMPUTE_REPLY", q) \in Messages
                              /\ Message("COMPUTE_REPLY", q).topic = "COMPUTE_REPLY"
      BY MessageFacts
    <3>2. QED
      BY <2>3, <2>4, <3>1
  <2>7. \A q \in Requests : received'[q] = <<>>
    BY <2>1, <2>3, HandlingFacts, ThreadFacts DEF TypeOK
  <2>8. DOMAIN <<>> = {}
    BY EmptySeq
  <2> HIDE DEF r, m
  <2>9. \A q \in Requests : \A i \in DOMAIN sent[q] :
          sent[q][i] = Message("COMPUTE_REPLY", q) => q # r
    BY <2>5, <2>8
  <2>10. \A q \in stopped' :
           /\ q \notin ports' /\ job'[q] = "answered" /\ thread'[q] # "none"
           /\ sent'[q] = <<>> /\ received'[q] = <<>>
    BY <2>1, <2>2, <2>5, <2>7 DEF AnswerInv, TypeOK
  <2>11. QED
    BY <2>1, <2>6, <2>9, <2>10 DEF AnswerInv
<1>11. CASE UNCHANGED vars
  BY <1>11, AnswerFrame DEF vars
<1>12. QED
  BY <1>1, <1>2, <1>3, <1>4, <1>5, <1>6, <1>7, <1>8, <1>9, <1>10, <1>11, StepCases

-----------------------------------------------------------------------------
\* Only the core sends to a server, and only the reply to a request that came through it.
LEMMA ReplyPort ==
  ASSUME NEW p \in Threads \cup {"loop"}, NEW m \in Sends(p), PortOf(m) \in Servers
  PROVE  \E r \in Requests : /\ p = "loop"
                             /\ m = Message(ReplyTopic(r), r)
                             /\ m.req = r
                             /\ PortOf(m) = ServerOf[r]
<1>1. "loop" \notin Servers /\ "tedb" \notin Servers /\ "resv" \notin Servers
      /\ \A r \in Requests : r \notin Servers
  BY ThreadFacts DEF Servers
<1>2. \A r \in Requests :
        /\ PortOf(Message("API_REQUEST", r)) = "loop"
        /\ PortOf(Message("COMPUTE_REPLY", r)) = "loop"
        /\ PortOf(Message("COMPUTE_REQUEST", r)) = r
        /\ PortOf(Message("TEWG_REPLY", r)) = r
        /\ PortOf(Message("TEWG_REQUEST", r)) = "tedb"
        /\ PortOf(Message("TEWG_RESV_REQUEST", r)) = "resv"
  BY DEF PortOf, Message
<1>3. \A r \in Requests : PortOf(Message(ReplyTopic(r), r)) = ServerOf[r]
  BY CoreAssumption DEF PortOf, Message, ReplyTopic
<1>4. CASE p \in Servers
  BY <1>1, <1>2, <1>4, SendsFacts
<1>5. CASE p \in Requests
  BY <1>1, <1>2, <1>5, SendsFacts
<1>6. CASE p \in Managers
  BY <1>1, <1>2, <1>6, SendsFacts DEF Managers
<1>7. CASE p = "loop"
  <2>1. CASE \E r \in Requests : m = Message("COMPUTE_REQUEST", r)
    BY <1>1, <1>2, <2>1
  <2>2. CASE \E r \in Requests : m = Message(ReplyTopic(r), r)
    BY <1>3, <1>7, <2>2 DEF Message
  <2>3. QED
    BY <1>7, <2>1, <2>2, SendsFacts
<1>8. QED
  BY <1>4, <1>5, <1>6, <1>7 DEF Threads

\* The replies and the joined workers are left alone.
LEMMA ReplyFrame ==
  ASSUME TypeOK, ReplyInv, UNCHANGED <<stopped, joining>>,
         \A r \in Requests : received'["loop"] = <<Message(ReplyTopic(r), r)>> =>
                               received["loop"] = <<Message(ReplyTopic(r), r)>>,
         \A s \in Servers : written'[s] = written[s],
         \A r \in Requests : thread[r] = "ended" => thread'[r] = "ended"
  PROVE  ReplyInv'
<1>1. \A r \in Requests : Joined(r) => Joined(r)'
  BY DEF Joined
<1>2. \A s \in Servers : \A i \in DOMAIN written[s] : written[s][i].req \in Requests
  BY ThreadFacts, MessageFacts DEF TypeOK
<1>3. \A r \in Requests : received'["loop"] = <<Message(ReplyTopic(r), r)>> =>
        /\ Joined(r)' \/ joining' = {r}
        /\ \A s \in Servers : \A i \in DOMAIN written'[s] : written'[s][i].req # r
  BY <1>1 DEF ReplyInv
<1>4. \A s \in Servers : \A i \in DOMAIN written'[s] :
        Joined(written[s][i].req)' /\ ServerOf[written'[s][i].req] = s
  BY <1>1, <1>2 DEF ReplyInv, Joined
<1>5. joining' \subseteq stopped'
  BY DEF ReplyInv
<1>6. QED
  BY <1>3, <1>4, <1>5 DEF ReplyInv, Joined

LEMMA ReplyStep ==
  ASSUME TypeOK, ControlInv, RouteInv, RequestInv, AnswerInv, ReplyInv, [Next]_vars
  PROVE  ReplyInv'
<1>1. ASSUME NEW r \in Requests, PostRequest(r)
      PROVE  ReplyInv'
  BY <1>1, ReplyFrame DEF PostRequest, core, workers
<1>2. ASSUME NEW p \in Managers, NEW topic \in {"TEWG_RESV_REQUEST", "TEWG_REPLY"},
             Forward(p, topic)
      PROVE  ReplyInv'
  BY <1>2, ForwardFacts, ReplyFrame
<1>3. ASSUME NEW r \in Requests,
             AskTewg(r) \/ TakeMessage(r) \/ Answer(r) \/ EndLoop(r) \/ HandleException(r)
      PROVE  ReplyInv'
  <2>1. /\ thread[r] = "running"
        /\ UNCHANGED <<received, stopped, joining>>
        /\ \A q \in Requests \ {r} : thread'[q] = thread[q]
        /\ \A s \in Servers : written'[s] = written[s]
    BY <1>3, WorkerFacts
  <2>2. \A q \in Requests : thread[q] = "ended" => thread'[q] = "ended"
    BY <2>1
  <2>3. QED
    BY <2>1, <2>2, ReplyFrame
<1>4. ASSUME NEW p \in Threads, ReadMessage(p)
      PROVE  ReplyInv'
  <2>1. /\ received' = [received EXCEPT ![p] = <<Head(sent[p])>>]
        /\ UNCHANGED <<written, thread, stopped, joining>>
    BY <1>4, ReadFacts
  <2>2. received'["loop"] = received["loop"]
    BY <2>1, ThreadFacts DEF TypeOK
  <2>3. QED
    BY <2>1, <2>2, ReplyFrame
<1>5. ASSUME NEW p \in Threads \cup {"loop"}, Route(p)
      PROVE  ReplyInv'
  <2>1. PICK m \in Messages :
          /\ received[p] = <<m>> /\ joining = {}
          /\ \A q \in DOMAIN received \ {p} : received[q] = <<>>
          /\ received' = [received EXCEPT ![p] = <<>>]
          /\ \/ UNCHANGED written
             \/ /\ PortOf(m) \in Threads
                /\ written' = [written EXCEPT ![PortOf(m)] = Append(@, m)]
          /\ UNCHANGED <<thread, stopped, joining>>
    BY <1>5, RouteFacts
  <2>2. received'["loop"] = <<>> /\ \A n \in Messages : <<n>> # <<>>
    BY <2>1, ThreadFacts, SingleFacts, EmptySeq DEF TypeOK
  <2>3. \A r \in Requests : received'["loop"] # <<Message(ReplyTopic(r), r)>>
    BY <2>2, MessageFacts
  <2>4. CASE \A s \in Servers : written'[s] = written[s]
    BY <2>1, <2>3, <2>4, ReplyFrame
  <2>5. CASE PortOf(m) \in Servers /\ written' = [written EXCEPT ![PortOf(m)] = Append(@, m)]
    <3>1. m \in Sends(p)
      BY <2>1, SingleFacts DEF RouteInv
    <3>2. PICK r \in Requests : /\ p = "loop" /\ m = Message(ReplyTopic(r), r)
                                /\ m.req = r /\ PortOf(m) = ServerOf[r]
      BY <2>5, <3>1, ReplyPort
    <3>3. Joined(r)
      BY <2>1, <3>2 DEF ReplyInv
    <3>4. \A q \in Requests : Joined(q) => Joined(q)'
      BY <2>1 DEF Joined
    <3> DEFINE s == PortOf(m)
    <3>5. written'[s] = Append(written[s], m) /\ \A t \in Servers \ {s} : written'[t] = written[t]
      BY <2>5, ThreadFacts DEF TypeOK
    <3>6. \A i \in DOMAIN written'[s] : \/ written'[s][i] = m
                                        \/ i \in DOMAIN written[s] /\ written'[s][i] = written[s][i]
      BY <2>5, <3>5, AppendFacts, ThreadFacts DEF TypeOK
    <3>7. \A t \in Servers : \A i \in DOMAIN written[t] : written[t][i].req \in Requests
      BY ThreadFacts, MessageFacts DEF TypeOK
    <3>8. \A t \in Servers : \A i \in DOMAIN written[t] :
            /\ written[t][i].req \in stopped' \ joining' /\ thread'[written[t][i].req] = "ended"
            /\ ServerOf[written[t][i].req] = t
      BY <3>4, <3>7 DEF ReplyInv, Joined
    <3>9. r \in stopped' \ joining' /\ thread'[r] = "ended"
      BY <3>3, <3>4 DEF Joined
    <3> HIDE DEF s
    <3>10. ASSUME NEW t \in Servers, NEW i \in DOMAIN written'[t]
           PROVE  /\ written'[t][i].req \in stopped' \ joining'
                  /\ thread'[written'[t][i].req] = "ended"
                  /\ ServerOf[written'[t][i].req] = t
      <4>1. CASE t # s
        BY <3>5, <3>8, <4>1
      <4>2. CASE t = s /\ written'[s][i] = m
        BY <3>2, <3>9, <4>2 DEF s
      <4>3. CASE t = s /\ written'[s][i] # m
        BY <3>6, <3>8, <4>3
      <4>4. QED
        BY <4>1, <4>2, <4>3
    <3>11. joining' \subseteq stopped'
      BY <2>1
    <3>12. QED
      BY <2>3, <3>10, <3>11 DEF ReplyInv, Joined
  <2>6. QED
    <3>1. CASE PortOf(m) \in Servers
      BY <2>1, <2>4, <2>5, <3>1
    <3>2. CASE PortOf(m) \notin Servers
      BY <2>1, <2>4, <3>2, ThreadFacts DEF TypeOK
    <3>3. QED
      BY <3>1, <3>2
<1>6. CASE RouterDone
  BY <1>6, ReplyFrame DEF RouterDone, workers
<1>7. CASE HandleRequest
  <2> DEFINE r == Head(loop).req
             m == Message("COMPUTE_REQUEST", r)
  <2>1. /\ Handling("API_REQUEST") /\ PostLocal(m)
        /\ thread' = [thread EXCEPT ![r] = "running"]
        /\ UNCHANGED <<written, stopped, joining>>
    BY <1>7 DEF HandleRequest
  <2>2. r \in Requests
    BY <2>1, TailFacts, MessageFacts DEF Handling, TypeOK
  <2>3. m \in Messages /\ m.topic = "COMPUTE_REQUEST"
    BY <2>2, MessageFacts
  <2>4. Held(Message("API_REQUEST", r)) /\ received' = [received EXCEPT !["loop"] = <<m>>]
    BY <2>1, <2>3, HeldPost, HandlingFacts
  <2>5. thread[r] = "none"
    BY <2>2, <2>4 DEF RequestInv
  <2>6. \A q \in Requests : thread[q] = "ended" => thread'[q] = "ended"
    BY <2>1, <2>2, <2>5 DEF TypeOK
  <2>7. received'["loop"] = <<m>>
    BY <2>4 DEF TypeOK
  <2>8. \A q \in Requests : <<m>> # <<Message(ReplyTopic(q), q)>>
    <3>1. ASSUME NEW q \in Requests
          PROVE  <<m>> # <<Message(ReplyTopic(q), q)>>
      <4>1. Message(ReplyTopic(q), q) # m /\ Message(ReplyTopic(q), q) \in Messages
        BY <2>3, MessageFacts
      <4>2. <<m>>[1] # <<Message(ReplyTopic(q), q)>>[1]
        BY <2>3, <4>1
      <4>3. QED
        BY <4>2
    <3>2. QED
      BY <3>1
  <2> HIDE DEF r, m
  <2>9. QED
    BY <2>1, <2>6, <2>7, <2>8, ReplyFrame
<1>8. CASE HandleReply
  <2> DEFINE r == Head(loop).req
             m == Message(ReplyTopic(r), r)
  <2>1. /\ Handling("COMPUTE_REPLY") /\ PostLocal(m)
        /\ stopped' = stopped \cup {r} /\ joining' = {r} /\ joining = {}
        /\ UNCHANGED <<written, thread>>
    BY <1>8 DEF HandleReply, Stop, Join, workers, Handling
  <2>2. r \in Requests
    BY <2>1, TailFacts, MessageFacts DEF Handling, TypeOK
  <2>3. m \in Messages /\ m.req = r
    BY <2>2, MessageFacts
  <2>4. Held(Message("COMPUTE_REPLY", r)) /\ received' = [received EXCEPT !["loop"] = <<m>>]
    BY <2>1, <2>3, HeldPost, HandlingFacts
  <2>5. r \notin stopped
    BY <2>2, <2>4 DEF AnswerInv
  <2>6. \A q \in Requests : <<m>> = <<Message(ReplyTopic(q), q)>> => q = r
    <3>1. ASSUME NEW q \in Requests, <<m>> = <<Message(ReplyTopic(q), q)>>
          PROVE  q = r
      <4>1. m = Message(ReplyTopic(q), q)
        BY <3>1
      <4>2. Message(ReplyTopic(q), q).req = q
        BY MessageFacts
      <4>3. QED
        BY <2>3, <4>1, <4>2
    <3>2. QED
      BY <3>1
  <2>7. received'["loop"] = <<m>>
    BY <2>4 DEF TypeOK
  <2> HIDE DEF r, m
  <2>8. \A s \in Servers : \A i \in DOMAIN written[s] :
          /\ written[s][i].req \in stopped' \ joining' /\ thread'[written[s][i].req] = "ended"
          /\ written[s][i].req # r
          /\ ServerOf[written[s][i].req] = s
    BY <2>1, <2>5 DEF ReplyInv, Joined
  <2>9. joining' \subseteq stopped' /\ \A q \in Requests : received'["loop"] =
          <<Message(ReplyTopic(q), q)>> => joining' = {q} /\ q = r
    BY <2>1, <2>6, <2>7
  <2>10. QED
    BY <2>1, <2>8, <2>9 DEF ReplyInv, Joined
<1>9. CASE JoinDone
  <2>1. /\ joining' = {} /\ \A r \in joining : thread[r] = "ended"
        /\ UNCHANGED <<received, written, stopped, thread>>
    BY <1>9 DEF JoinDone, workers
  <2>2. QED
    BY <2>1 DEF ReplyInv, Joined
<1>10. CASE UNCHANGED vars
  BY <1>10, ReplyFrame DEF vars
<1>11. QED
  BY <1>1, <1>2, <1>3, <1>4, <1>5, <1>6, <1>7, <1>8, <1>9, <1>10, StepCases

-----------------------------------------------------------------------------
\* The requests a server was answered, as the messages to it name them.
LEMMA NamedAppend ==
  ASSUME NEW q \in Seq(Messages), NEW m \in Messages
  PROVE  [i \in DOMAIN Append(q, m) |-> Append(q, m)[i].req]
           = Append([i \in DOMAIN q |-> q[i].req], m.req)
<1> DEFINE f == [i \in DOMAIN q |-> q[i].req]
           g == [i \in DOMAIN Append(q, m) |-> Append(q, m)[i].req]
<1>1. /\ f \in Seq(Requests) /\ Len(f) = Len(q) /\ \A i \in 1 .. Len(q) : f[i] = q[i].req
  <2>1. \A i \in 1 .. Len(q) : q[i] \in Messages
    OBVIOUS
  <2>2. DOMAIN q = 1 .. Len(q) /\ Len(q) \in Nat
    BY LenProperties
  <2>3. \A i \in 1 .. Len(q) : q[i].req \in Requests
    BY <2>1, MessageFacts
  <2>4. QED
    BY <2>2, <2>3
<1>2. /\ g \in Seq(Requests) /\ Len(g) = Len(q) + 1
      /\ \A i \in 1 .. Len(q) + 1 : g[i] = Append(q, m)[i].req
  <2>1. Append(q, m) \in Seq(Messages) /\ Len(Append(q, m)) = Len(q) + 1 /\ Len(q) \in Nat
        /\ DOMAIN Append(q, m) = 1 .. Len(q) + 1
    BY AppendFacts
  <2>2. \A i \in 1 .. Len(q) + 1 : Append(q, m)[i] \in Messages
    BY <2>1, ElementOfSeq
  <2>3. \A i \in 1 .. Len(q) + 1 : Append(q, m)[i].req \in Requests
    BY <2>2, MessageFacts
  <2>4. QED
    BY <2>1, <2>3
<1>3. /\ Append(f, m.req) \in Seq(Requests) /\ Len(Append(f, m.req)) = Len(q) + 1
      /\ Append(f, m.req)[Len(q) + 1] = m.req
      /\ \A i \in 1 .. Len(q) : Append(f, m.req)[i] = f[i]
  BY <1>1, MessageFacts, AppendProperties
<1>4. \A i \in 1 .. Len(q) + 1 : g[i] = Append(f, m.req)[i]
  <2>1. \A i \in 1 .. Len(q) : Append(q, m)[i] = q[i]
    BY AppendProperties
  <2>2. Append(q, m)[Len(q) + 1] = m
    BY AppendProperties
  <2>3. Len(q) \in Nat /\ \A n \in Nat : \A i \in 1 .. n + 1 : i = n + 1 \/ i \in 1 .. n
    BY LenProperties
  <2> HIDE DEF f, g
  <2>4. ASSUME NEW i \in 1 .. Len(q) + 1
        PROVE  g[i] = Append(f, m.req)[i]
    <3>1. CASE i = Len(q) + 1
      BY <1>2, <1>3, <2>2, <3>1
    <3>2. CASE i \in 1 .. Len(q)
      BY <1>1, <1>2, <1>3, <2>1, <3>2
    <3>3. QED
      BY <2>3, <3>1, <3>2
  <2>5. QED
    BY <2>4
<1> HIDE DEF f, g
<1>5. g = Append(f, m.req)
  BY <1>2, <1>3, <1>4, SeqEqual
<1>6. QED
  BY <1>5 DEF f, g

Answers == [s \in Servers |-> [i \in DOMAIN written[s] |-> written[s][i].req]]

\* A step of the core or of a thread around it is one of RequestServer, or none at all.
LEMMA ServerStep ==
  ASSUME TypeOK, ControlInv, RouteInv, RequestInv, AnswerInv, ReplyInv, [Next]_vars
  PROVE  [Server!Next]_(Server!vars)
<1>1. ASSUME posted' = posted, \A s \in Servers : written'[s] = written[s]
      PROVE  UNCHANGED Server!vars
  BY <1>1 DEF Server!vars
<1>2. ASSUME NEW r \in Requests, PostRequest(r)
      PROVE  Server!Post(r)
  BY <1>2 DEF PostRequest, Server!Post
<1>3. ASSUME NEW p \in Threads \cup {"loop"}, Route(p)
      PROVE  \/ \E r \in Requests : Server!Answer(r)
             \/ UNCHANGED Server!vars
  <2>1. PICK m \in Messages :
          /\ received[p] = <<m>> /\ joining = {}
          /\ \/ UNCHANGED written
             \/ /\ PortOf(m) \in Threads
                /\ written' = [written EXCEPT ![PortOf(m)] = Append(@, m)]
          /\ UNCHANGED <<posted, thread>>
    BY <1>3, RouteFacts
  <2>2. CASE \A s \in Servers : written'[s] = written[s]
    BY <1>1, <2>1, <2>2
  <2>3. CASE PortOf(m) \in Servers /\ written' = [written EXCEPT ![PortOf(m)] = Append(@, m)]
    <3>1. m \in Sends(p)
      BY <2>1, SingleFacts DEF RouteInv
    <3>2. PICK r \in Requests : /\ p = "loop" /\ m = Message(ReplyTopic(r), r)
                                /\ m.req = r /\ PortOf(m) = ServerOf[r]
      BY <2>3, <3>1, ReplyPort
    <3> DEFINE s == ServerOf[r]
    <3>3. s \in Servers /\ s \in Threads
      BY ThreadFacts
    <3>4. r \in posted
      BY <2>1, <3>2 DEF ReplyInv, Joined, RequestInv
    <3>5. \A i \in DOMAIN written[s] : written[s][i].req # r
      BY <2>1, <3>2, <3>3 DEF ReplyInv
    <3>6. written'[s] = Append(written[s], m) /\ \A t \in Servers \ {s} : written'[t] = written[t]
      BY <2>3, <3>2, <3>3, ThreadFacts DEF TypeOK
    <3>7. Answers[s] = [i \in DOMAIN written[s] |-> written[s][i].req]
      BY <3>3 DEF Answers
    <3>8. [i \in DOMAIN written'[s] |-> written'[s][i].req] = Append(Answers[s], r)
      <4>1. written[s] \in Seq(Messages) /\ written'[s] = Append(written[s], m) /\ m.req = r
        BY <3>2, <3>3, <3>6 DEF TypeOK
      <4>2. [i \in DOMAIN Append(written[s], m) |-> Append(written[s], m)[i].req]
              = Append([i \in DOMAIN written[s] |-> written[s][i].req], m.req)
        BY <4>1, NamedAppend
      <4> HIDE DEF s
      <4>3. QED
        BY <3>7, <4>1, <4>2
    <3>9. r \notin Server!ToSet(Answers[s])
      BY <3>5, <3>7 DEF Server!ToSet
    <3>10. Answers' = [Answers EXCEPT ![s] = Append(@, r)]
      <4>1. \A t \in Servers : Answers'[t] = IF t = s THEN Append(Answers[s], r) ELSE Answers[t]
        BY <3>6, <3>8 DEF Answers
      <4>2. DOMAIN Answers' = Servers /\ DOMAIN Answers = Servers
        BY DEF Answers
      <4>3. QED
        BY <4>1, <4>2, <3>3 DEF Answers
    <3>11. Server!Answer(r)
      BY <2>1, <3>4, <3>9, <3>10 DEF Server!Answer, Answers
    <3>12. QED
      BY <3>11
  <2>4. QED
    <3>1. CASE PortOf(m) \in Servers
      BY <2>1, <2>2, <2>3, <3>1
    <3>2. CASE PortOf(m) \notin Servers
      BY <2>1, <2>2, <3>2, ThreadFacts DEF TypeOK
    <3>3. QED
      BY <3>1, <3>2
<1>4. ASSUME NEW r \in Requests,
             AskTewg(r) \/ TakeMessage(r) \/ Answer(r) \/ EndLoop(r) \/ HandleException(r)
      PROVE  UNCHANGED Server!vars
  BY <1>1, <1>4, WorkerFacts
<1>5. ASSUME NEW p \in Managers, NEW topic \in {"TEWG_RESV_REQUEST", "TEWG_REPLY"},
             Forward(p, topic)
      PROVE  UNCHANGED Server!vars
  BY <1>1, <1>5, ForwardFacts
<1>6. ASSUME NEW p \in Threads, ReadMessage(p)
      PROVE  UNCHANGED Server!vars
  BY <1>1, <1>6 DEF ReadMessage
<1>7. CASE RouterDone \/ HandleRequest \/ HandleReply \/ JoinDone \/ UNCHANGED vars
  BY <1>1, <1>7 DEF RouterDone, HandleRequest, HandleReply, JoinDone, vars
<1>8. QED
  BY <1>2, <1>3, <1>4, <1>5, <1>6, <1>7, StepCases DEF Server!Next

-----------------------------------------------------------------------------
\* At the start nothing is posted, sent or scheduled.
LEMMA InitInv ==
  ASSUME Init
  PROVE  IInv
<1>1. TypeOK
  BY DEF Init, TypeOK
<1>2. DOMAIN <<>> = {} /\ Len(<<>>) = 0
  BY EmptySeq
<1>3. \A p \in DOMAIN received : received[p] = <<>>
  BY DEF Init
<1>4. ControlInv
  BY <1>2, <1>3, EventFacts DEF Init, ControlInv
<1>5. RouteInv
  BY <1>2, <1>3 DEF Init, RouteInv
<1>6. \A m \in Messages : ~Held(m)
  BY <1>3, SingleFacts, EmptySeq DEF Init, Held
<1>7. RequestInv
  BY <1>2, <1>6, ThreadFacts, MessageFacts DEF Init, RequestInv
<1>8. AnswerInv
  BY <1>2, <1>6, ThreadFacts, MessageFacts DEF Init, AnswerInv
<1>9. ReplyInv
  <2>1. \A r \in Requests : received["loop"] # <<Message(ReplyTopic(r), r)>>
    BY <1>3, MessageFacts, SingleFacts, EmptySeq DEF Init
  <2>2. QED
    BY <1>2, <2>1, ThreadFacts DEF Init, ReplyInv
<1>10. QED
  BY <1>1, <1>4, <1>5, <1>7, <1>8, <1>9 DEF IInv

LEMMA StepInv == IInv /\ [Next]_vars => IInv'
BY TypeStep, ControlStep, RouteStep, RequestStep, AnswerStep, ReplyStep DEF IInv

\* What the core, the servers, the managers and the workers do never leaves the states
\* the invariant describes.
THEOREM Invariance == Spec => []IInv
BY InitInv, StepInv, PTL DEF Spec

\* Every variable of the core keeps to its type.
THEOREM TypeCorrect == Spec => []TypeOK
<1>1. IInv => TypeOK
  BY DEF IInv
<1>2. QED
  BY <1>1, Invariance, PTL

\* A message the core has read is dealt with before it reads the next one, and none is
\* left behind when no event is scheduled.
THEOREM DealtWith == Spec => []OneAtATime
<1>1. IInv => OneAtATime
  BY EventFacts DEF IInv, ControlInv, OneAtATime
<1>2. QED
  BY <1>1, Invariance, PTL

\* The port of a stopped worker is gone, and neither its pipe nor its inQueue held
\* anything more: deleting the port cuts nothing off.
THEOREM PortEmpty == Spec => []NothingCut
<1>1. IInv => NothingCut
  BY DEF IInv, AnswerInv, NothingCut
<1>2. QED
  BY <1>1, Invariance, PTL

\* A client's answer is on its way only when the worker's thread has ended and was joined.
THEOREM JoinedFirst == Spec => []AnsweredAfterJoin
<1>1. IInv => AnsweredAfterJoin
  BY DEF IInv, ReplyInv, Joined, AnsweredAfterJoin
<1>2. QED
  BY <1>1, Invariance, PTL

\* The core, with everything around it, is a request server: it answers requests that
\* were posted, each at most once and to the server it came through.
THEOREM ServesRequests == Spec => Server!Safety
<1>1. Init => Server!Init
  <2>1. ASSUME Init
        PROVE  Server!Init
    <3>1. \A s \in Servers : [i \in DOMAIN written[s] |-> written[s][i].req] = <<>>
      BY <2>1, ThreadFacts, EmptySeq DEF Init
    <3>2. QED
      BY <2>1, <3>1 DEF Init, Server!Init, Server!Servers, Servers
  <2>2. QED
    BY <2>1
<1>2. IInv /\ [Next]_vars => [Server!Next]_(Server!vars)
  BY ServerStep DEF IInv
<1>3. QED
  BY <1>1, <1>2, Invariance, PTL DEF Spec, Server!Safety
=============================================================================

------------------------------ MODULE TceCore ------------------------------
(***************************************************************************)
(* The core of the server: one thread runs the message router and the      *)
(* handlers of the messages that are routed to itself (MxTCE), around it   *)
(* are the threads of the API servers, of the TEDB and the reservation     *)
(* manager, and one compute worker for each request.  The core creates the *)
(* worker and its port, takes its answer, deletes the port, stops the      *)
(* worker's loop and joins the thread: while it does nothing else runs.    *)
(* A pipe hands over what was sent in order (Channel); what a worker does  *)
(* with its TEWG is left open (ComputeJob).                                *)
(***************************************************************************)
EXTENDS Naturals, Sequences, FiniteSets

CONSTANTS Requests,   \* the requests; a worker, its port and its queue are named for one
          ServerOf    \* ServerOf[r]: the server r comes through, "api" or "xmlrpc"

ASSUME CoreAssumption ==
  /\ ServerOf \in [Requests -> {"api", "xmlrpc"}]
  /\ Requests \cap {"api", "xmlrpc", "tedb", "resv", "loop"} = {}

VARIABLES posted,    \* the requests the servers have posted
          ports,     \* the worker ports in the router's list
          sent,      \* sent[p]: messages on their way from thread p to the core
          received,  \* received[p]: the inQueue of port p, read and not yet routed
          written,   \* written[p]: messages on their way to thread p
          loop,      \* the outQueue of the loopback port, routed to the core itself
          events,    \* the core's list of priority events: "router" and "handler"
          thread,    \* thread[r]: the worker's thread, "none", "running" or "ended"
          job,       \* job[r]: what the worker has done: "new", "asked", "told", "answered"
          stopped,   \* the workers whose event loop was told to stop
          joining    \* the workers the core waits for in Join, none or one

vars == <<posted, ports, sent, received, written, loop, events, thread, job, stopped, joining>>
core == <<ports, received, loop, events, stopped, joining>>
workers == <<thread, job>>

Servers == {"api", "xmlrpc"}
Managers == {"tedb", "resv"}
Threads == Servers \cup Managers \cup Requests

\* The request is what the queue, the context tag or the GRI of the message stands for.
Message(topic, r) == [topic |-> topic, req |-> r]

\* AddRoute and LookupRoute: where a message goes.
PortOf(m) ==
  CASE m.topic \in {"API_REQUEST", "COMPUTE_REPLY"} -> "loop"
    [] m.topic \in {"COMPUTE_REQUEST", "TEWG_REPLY"} -> m.req
    [] m.topic = "TEWG_REQUEST" -> "tedb"
    [] m.topic = "TEWG_RESV_REQUEST" -> "resv"
    [] m.topic = "API_REPLY" -> "api"
    [] m.topic = "XMLRPC_API_REPLY" -> "xmlrpc"

Up(p) == p \notin Requests \/ p \in ports

Init ==
  /\ posted = {}
  /\ ports = {}
  /\ sent = [p \in Threads |-> <<>>]
  /\ received = [p \in Threads \cup {"loop"} |-> <<>>]
  /\ written = [p \in Threads |-> <<>>]
  /\ loop = <<>>
  /\ events = <<>>
  /\ thread = [r \in Requests |-> "none"]
  /\ job = [r \in Requests |-> "new"]
  /\ stopped = {}
  /\ joining = {}

-----------------------------------------------------------------------------
\* The threads around the core.

Send(p, m) == sent' = [sent EXCEPT ![p] = Append(@, m)]

\* A server posts a request (HandleAPIMessage, execute).
PostRequest(r) ==
  /\ r \notin posted
  /\ posted' = posted \cup {r}
  /\ Send(ServerOf[r], Message("API_REQUEST", r))
  /\ UNCHANGED <<core, written, workers>>

\* The TEDB manager takes its snapshot and passes the request on, the reservation manager
\* adds its deltas and replies to the worker.
Forward(p, topic) ==
  /\ written[p] # <<>>
  /\ Send(p, Message(topic, Head(written[p]).req))
  /\ written' = [written EXCEPT ![p] = Tail(@)]
  /\ UNCHANGED <<posted, core, workers>>

AskTewg_Again(r) ==
  /\ thread[r] = "running"
  /\ job[r] \in {"new", "answered"}
  /\ Send(r, Message("TEWG_REQUEST", r))
  /\ job' = [job EXCEPT ![r] = "asked"]
  /\ UNCHANGED <<posted, core, written, thread>>

\* A worker's loop runs an action that needs the topology.
AskTewg(r) ==
  /\ thread[r] = "running"
  /\ job[r] = "new"
  /\ Send(r, Message("TEWG_REQUEST", r))
  /\ job' = [job EXCEPT ![r] = "asked"]
  /\ UNCHANGED <<posted, core, written, thread>>

\* ComputeWorker::hookHandleMessage: no action expects a COMPUTE_REQUEST.
TakeMessage(r) ==
  /\ thread[r] = "running"
  /\ written[r] # <<>>
  /\ job' = [job EXCEPT ![r] = IF Head(written[r]).topic = "TEWG_REPLY" /\ @ = "asked"
                               THEN "told" ELSE @]
  /\ written' = [written EXCEPT ![r] = Tail(@)]
  /\ UNCHANGED <<posted, core, sent, thread>>

\* The tree of actions ends with Finish, the loop goes on.
Answer(r) ==
  /\ thread[r] = "running"
  /\ job[r] = "told"
  /\ Send(r, Message("COMPUTE_REPLY", r))
  /\ job' = [job EXCEPT ![r] = "answered"]
  /\ UNCHANGED <<posted, core, written, thread>>

\* An action throws out of the loop; HandleException writes past the outQueue, of which
\* the rest is never sent, and the thread ends.
HandleException(r) ==
  /\ thread[r] = "running"
  /\ job[r] # "answered"
  /\ \E n \in 0 .. Len(sent[r]) :
       sent' = [sent EXCEPT ![r] = Append(SubSeq(@, 1, n), Message("COMPUTE_REPLY", r))]
  /\ job' = [job EXCEPT ![r] = "answered"]
  /\ thread' = [thread EXCEPT ![r] = "ended"]
  /\ UNCHANGED <<posted, core, written>>

\* The loop sees that it was stopped.
EndLoop(r) ==
  /\ thread[r] = "running"
  /\ r \in stopped
  /\ thread' = [thread EXCEPT ![r] = "ended"]
  /\ UNCHANGED <<posted, core, sent, written, job>>

-----------------------------------------------------------------------------
\* The core's event loop: one event at a time, none while it waits in Join.

\* MessageRouter::Check
Check(list) == IF "router" \in {list[i] : i \in DOMAIN list} THEN list ELSE Append(list, "router")

\* MxTCE::CheckMessage: a handler for each message.
CheckMessage(list) == Append(list, "handler")

\* Fetch prefers priority events: select is asked only when there are none.
Readable == events = <<>>

\* MessagePort::Run
ReadMessage(p) ==
  /\ joining = {}
  /\ Readable
  /\ Up(p)
  /\ sent[p] # <<>>
  /\ received' = [received EXCEPT ![p] = Append(@, Head(sent[p]))]
  /\ sent' = [sent EXCEPT ![p] = Tail(@)]
  /\ events' = Check(events)
  /\ UNCHANGED <<posted, ports, written, loop, workers, stopped, joining>>

Routing == joining = {} /\ events # <<>> /\ Head(events) = "router"

\* MessageRouter::Run, one message: it goes to the core itself, to a thread or, when the
\* worker's port is gone, nowhere.
Route(p) ==
  /\ Routing
  /\ Up(p)
  /\ received[p] # <<>>
  /\ LET m == Head(received[p])
         to == PortOf(m)
     IN
       \/ /\ to = "loop"
          /\ loop' = Append(loop, m)
          /\ events' = CheckMessage(events)
          /\ UNCHANGED written
       \/ /\ to # "loop"
          /\ written' = IF Up(to) THEN [written EXCEPT ![to] = Append(@, m)] ELSE written
          /\ UNCHANGED <<loop, events>>
  /\ received' = [received EXCEPT ![p] = Tail(@)]
  /\ UNCHANGED <<posted, ports, sent, workers, stopped, joining>>

\* MessageRouter::Run ends when every port is empty.
RouterDone ==
  /\ Routing
  /\ \A p \in DOMAIN received : Up(p) => received[p] = <<>>
  /\ events' = Tail(events)
  /\ UNCHANGED <<posted, ports, sent, received, written, loop, workers, stopped, joining>>

Handling(topic) ==
  /\ joining = {}
  /\ events # <<>>
  /\ Head(events) = "handler"
  /\ loop # <<>>
  /\ Head(loop).topic = topic

\* PostLocalMessage, at the end of a handler.
PostLocal(m) ==
  /\ received' = [received EXCEPT !["loop"] = Append(@, m)]
  /\ events' = Check(Tail(events))
  /\ loop' = Tail(loop)

\* MxTCEMessageHandler::Run, a request: AddPort, Start, then the COMPUTE_REQUEST.
HandleRequest ==
  /\ Handling("API_REQUEST")
  /\ LET r == Head(loop).req IN
       /\ ports' = ports \cup {r}
       /\ thread' = [thread EXCEPT ![r] = "running"]
       /\ PostLocal(Message("COMPUTE_REQUEST", r))
  /\ UNCHANGED <<posted, sent, written, job, stopped, joining>>

ReplyTopic(r) == IF ServerOf[r] = "xmlrpc" THEN "XMLRPC_API_REPLY" ELSE "API_REPLY"

DeletePort_Kept(r) == UNCHANGED ports

\* DeletePort: what has not been read is never read, what was written may yet be.
DeletePort(r) == ports' = ports \ {r}

Stop_None(r) == UNCHANGED stopped

Stop(r) == stopped' = stopped \cup {r}

Join_Detached(r) == UNCHANGED joining

Join(r) == joining' = {r}

\* MxTCEMessageHandler::Run, a worker's answer.
HandleReply ==
  /\ Handling("COMPUTE_REPLY")
  /\ LET r == Head(loop).req IN
       /\ PostLocal(Message(ReplyTopic(r), r))
       /\ DeletePort(r)
       /\ Stop(r)
       /\ Join(r)
  /\ UNCHANGED <<posted, sent, written, workers>>

\* pthread_join returns.
JoinDone ==
  /\ joining # {}
  /\ \A r \in joining : thread[r] = "ended"
  /\ joining' = {}
  /\ UNCHANGED <<posted, ports, sent, received, written, loop, events, workers, stopped>>

CoreStep ==
  \/ \E p \in Threads : ReadMessage(p)
  \/ \E p \in Threads \cup {"loop"} : Route(p)
  \/ RouterDone
  \/ HandleRequest
  \/ HandleReply
  \/ JoinDone

WorkerTurn(r) == AskTewg(r) \/ TakeMessage(r) \/ Answer(r) \/ EndLoop(r)

ForwardTewg == Forward("tedb", "TEWG_RESV_REQUEST")
ReplyTewg == Forward("resv", "TEWG_REPLY")

\* All is answered and no client sends another request.
Idle ==
  /\ posted = Requests
  /\ events = <<>>
  /\ joining = {}
  /\ \A p \in Threads : sent[p] = <<>>
  /\ \A r \in Requests : thread[r] = "ended"
  /\ UNCHANGED vars

Next ==
  \/ \E r \in Requests : PostRequest(r) \/ WorkerTurn(r) \/ HandleException(r)
  \/ ForwardTewg \/ ReplyTewg
  \/ CoreStep
  \/ Idle

Spec == Init /\ [][Next]_vars

\* Every thread runs: each is a loop over events.  ModifyFDSets takes every readable port
\* from one select and Fetch serves all of them before the next, so that no port waits for
\* ever.  No exception has to be thrown.
Fairness ==
  /\ \A p \in Threads : SF_vars(ReadMessage(p))
  /\ WF_vars(CoreStep)
  /\ WF_vars(ForwardTewg)
  /\ WF_vars(ReplyTewg)
  /\ \A r \in Requests : WF_vars(WorkerTurn(r))

FairSpec == Spec /\ Fairness

-----------------------------------------------------------------------------
Messages ==
  [topic : {"API_REQUEST", "API_REPLY", "XMLRPC_API_REPLY", "COMPUTE_REQUEST", "COMPUTE_REPLY",
            "TEWG_REQUEST", "TEWG_RESV_REQUEST", "TEWG_REPLY"},
   req : Requests]

\* Every variable keeps to its type.
TypeOK ==
  /\ posted \subseteq Requests
  /\ ports \subseteq Requests
  /\ sent \in [Threads -> Seq(Messages)]
  /\ received \in [Threads \cup {"loop"} -> Seq(Messages)]
  /\ written \in [Threads -> Seq(Messages)]
  /\ loop \in Seq(Messages)
  /\ events \in Seq({"router", "handler"})
  /\ thread \in [Requests -> {"none", "running", "ended"}]
  /\ job \in [Requests -> {"new", "asked", "told", "answered"}]
  /\ stopped \subseteq Requests
  /\ joining \subseteq Requests

\* Routers, readers and handlers schedule each other, yet a message the core has read is
\* dealt with, the message the core sends itself included, before the next one is read;
\* and none is left when nothing is scheduled.
OneAtATime ==
  /\ Len(loop) <= 1
  /\ \A p \in DOMAIN received : received[p] # <<>> =>
       /\ Len(received[p]) = 1
       /\ loop = <<>>
       /\ \A q \in DOMAIN received \ {p} : received[q] = <<>>
  /\ events = <<>> => loop = <<>> /\ \A p \in DOMAIN received : received[p] = <<>>

\* DeletePort closes the worker's pipe at once.  It cuts nothing: when a worker's answer
\* is handled its pipe and its inQueue are empty and it never sends again.
NothingCut ==
  \A r \in stopped : r \notin ports /\ sent[r] = <<>> /\ received[r] = <<>>

\* A client hears of its answer only when the worker's thread has ended and was joined:
\* what the worker shares with the reply is not used by both.
AnsweredAfterJoin ==
  \A s \in Servers : \A i \in DOMAIN written[s] :
    LET r == written[s][i].req IN thread[r] = "ended" /\ r \in stopped \ joining

\* The core serves every request, once, through its own server, although it waits for
\* one worker at a time and other workers' messages arrive in any order.
Server == INSTANCE RequestServer WITH
  answers <- [s \in Servers |-> [i \in DOMAIN written[s] |-> written[s][i].req]]

IsRequestServer == Server!Spec

\* No worker, thread or port outlives its request.
Reclaimed == \A r \in Requests : r \in posted ~> thread[r] = "ended" /\ r \notin ports
=============================================================================

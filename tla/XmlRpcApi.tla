----------------------------- MODULE XmlRpcApi -----------------------------
(***************************************************************************)
(* The XML-RPC API server.  Each call has a thread of the HTTP server and  *)
(* takes one lock; ComputePath posts a request to the core (RequestServer  *)
(* answers it) and runs an event loop on the one port of the method until  *)
(* a reply of its own or the timer stops it.  Replies that come after      *)
(* their call has given up reach a later call: their context tags are      *)
(* remembered as discarded.                                                *)
(***************************************************************************)
EXTENDS Naturals, Sequences, SequencesExt

CONSTANT Calls   \* the calls of clients; a context tag is unique, it stands for its call

ASSUME CallsAssumption ==
  Calls \cap {"none", "ok", "malformed", "timeout", "incomplete"} = {}

VARIABLES lock,       \* xmlrpcApiLock: the calls that hold it
          state,      \* state[c]: "new", "looping", "stopped", "returned" or "faulted"
          result,     \* result[c]: what *retvalP says, the tag of a reply or an error
          unanswered, \* the requests the core has not answered
          socket,     \* replies written to the port and not yet read
          inQueue,    \* replies read: GetMsgInQueue
          discarded   \* discardedContextTags

callVars == <<lock, state, result, unanswered, socket, inQueue, discarded>>

CallsInit ==
  /\ lock = {}
  /\ state = [c \in Calls |-> "new"]
  /\ result = [c \in Calls |-> "none"]
  /\ unanswered = {}
  /\ socket = <<>>
  /\ inQueue = <<>>
  /\ discarded = {}

Free == lock = {}

\* _final: the call returns what it has.
Return(c, value) ==
  /\ state' = [state EXCEPT ![c] = "returned"]
  /\ result' = [result EXCEPT ![c] = value]
  /\ lock' = lock \ {c}

\* GetVersion, ListAggregates, or a ComputePath whose RSpec has no path to compute.
ReturnAtOnce(c, value) ==
  /\ state[c] = "new"
  /\ Free
  /\ Return(c, value)
  /\ UNCHANGED <<unanswered, socket, inQueue, discarded>>

\* A parameter of ComputePath has the wrong type: the conversion throws out of execute,
\* past Unlock.
Fault(c) ==
  /\ state[c] = "new"
  /\ Free
  /\ lock' = {c}
  /\ state' = [state EXCEPT ![c] = "faulted"]
  /\ UNCHANGED <<result, unanswered, socket, inQueue, discarded>>

\* ComputePath posts its request and enters the loop (fire).
ComputePath(c) ==
  /\ state[c] = "new"
  /\ Free
  /\ lock' = {c}
  /\ state' = [state EXCEPT ![c] = "looping"]
  /\ unanswered' = unanswered \cup {c}
  /\ inQueue' = <<>>
  /\ UNCHANGED <<result, socket, discarded>>

\* The core answers when it has the answer.
Reply(c) ==
  /\ c \in unanswered
  /\ unanswered' = unanswered \ {c}
  /\ socket' = Append(socket, c)
  /\ UNCHANGED <<lock, state, result, inQueue, discarded>>

\* hookRunCallback: a tag is erased from its copy of the discarded ones when it is met.
HasValidMessage(queue) ==
  \E i \in DOMAIN queue :
    queue[i] \notin discarded \/ \E j \in 1 .. i - 1 : queue[j] = queue[i]

\* MessagePort::Run, with its callback: the loop reads one reply.
Read(c) ==
  /\ state[c] = "looping"
  /\ socket # <<>>
  /\ inQueue' = Append(inQueue, Head(socket))
  /\ socket' = Tail(socket)
  /\ state' = IF HasValidMessage(inQueue') THEN [state EXCEPT ![c] = "stopped"] ELSE state
  /\ UNCHANGED <<lock, result, unanswered, discarded>>

Timeout_Never(c) == FALSE /\ UNCHANGED callVars

\* The timer: XMLRPC_TimeoutOrCallback::Run
Timeout(c) ==
  /\ state[c] = "looping"
  /\ state' = [state EXCEPT ![c] = "stopped"]
  /\ UNCHANGED <<lock, result, unanswered, socket, inQueue, discarded>>

Discard(c) == discarded' = discarded \cup {c}

\* Nothing has come.
CollectNothing(c) ==
  /\ state[c] = "stopped"
  /\ inQueue = <<>>
  /\ Discard(c)
  /\ Return(c, "timeout")
  /\ UNCHANGED <<unanswered, socket, inQueue>>

IsReplyTo_Any(reply, c) == TRUE

IsReplyTo(reply, c) == reply = c

\* The first reply with the call's own tag; if others come first the tag is discarded.
CollectReply(c) ==
  /\ state[c] = "stopped"
  /\ \E i \in DOMAIN inQueue :
       /\ IsReplyTo(inQueue[i], c)
       /\ \A j \in 1 .. i - 1 : ~IsReplyTo(inQueue[j], c)
       /\ IF i > 1 THEN Discard(c) ELSE UNCHANGED discarded
       /\ \E value \in {inQueue[i], "incomplete"} : Return(c, value)
       /\ inQueue' = RemoveAt(inQueue, i)
  /\ UNCHANGED <<unanswered, socket>>

\* Parsing the reply throws what execute does not catch (an RSpec with no schemaLocation).
FaultInReply(c) ==
  /\ state[c] = "stopped"
  /\ \E i \in DOMAIN inQueue : IsReplyTo(inQueue[i], c)
  /\ state' = [state EXCEPT ![c] = "faulted"]
  /\ UNCHANGED <<lock, result, unanswered, socket, inQueue, discarded>>

DiscardOnly_None(c) == UNCHANGED discarded

\* The timer has stopped the loop and there are only other calls' replies: nothing is
\* returned.
DiscardOnly(c) == Discard(c)

CollectOthers(c) ==
  /\ state[c] = "stopped"
  /\ inQueue # <<>>
  /\ \A i \in DOMAIN inQueue : ~IsReplyTo(inQueue[i], c)
  /\ DiscardOnly(c)
  /\ Return(c, "none")
  /\ UNCHANGED <<unanswered, socket, inQueue>>

Turn(c) ==
  \/ \E value \in {"ok", "malformed"} : ReturnAtOnce(c, value)
  \/ ComputePath(c)
  \/ Read(c)
  \/ Timeout(c)
  \/ CollectNothing(c)
  \/ CollectReply(c)
  \/ CollectOthers(c)

CallsNext == \E c \in Calls : Turn(c) \/ Fault(c) \/ FaultInReply(c) \/ Reply(c)

CallsSpec == CallsInit /\ [][CallsNext]_callVars

\* A call that has the lock goes on, at the latest when its timer is due.  Which of the
\* threads that wait gets a pthread mutex is not said, but there are finitely many.
CallsFairSpec == CallsSpec /\ \A c \in Calls : WF_callVars(Turn(c))

-----------------------------------------------------------------------------
\* Every variable keeps to its type.
CallsTypeOK ==
  /\ lock \subseteq Calls
  /\ state \in [Calls -> {"new", "looping", "stopped", "returned", "faulted"}]
  /\ result \in [Calls -> Calls \cup {"none", "ok", "malformed", "timeout", "incomplete"}]
  /\ unanswered \subseteq Calls
  /\ socket \in Seq(Calls)
  /\ inQueue \in Seq(Calls)
  /\ discarded \subseteq Calls

\* "lock to assure only one API call is served at a time": two calls would take each
\* other's replies from the one port, and run one event loop in two threads.
OneServed == \A c \in Calls : state[c] \in {"looping", "stopped"} => lock = {c}

\* However late the replies of earlier calls are, and in whatever order they come, the
\* first reply that stops a loop before its time is the call's own.
StopsForItsReply ==
  [][\A c \in Calls : Read(c) /\ state'[c] = "stopped" => c \in ToSet(inQueue')]_callVars

\* Whoever gets a manifest gets the one it asked for.
OwnManifest == \A c \in Calls : result[c] \in Calls => result[c] = c

\* Every call returns, the core's answer or not, as long as no call has faulted.
Returns == \A c \in Calls : <>(state[c] = "returned" \/ \E d \in Calls : state[d] = "faulted")
=============================================================================

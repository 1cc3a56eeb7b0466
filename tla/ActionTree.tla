----------------------------- MODULE ActionTree -----------------------------
(***************************************************************************)
(* One compute worker thread, of any of the types the factory creates      *)
(* (compute/compute_worker.cc): the tree of Actions of its workflow        *)
(* (compute/action.cc), the event loop that runs them by turns             *)
(* (common/event.cc), the delivery of replies to the actions that expect   *)
(* them (compute/compute_worker.cc) and the answer of the root action.     *)
(*                                                                         *)
(* An action is scheduled as a priority event; being nice, it moves to the *)
(* nices list the first time Fetch sees it and stays an event of that type *)
(* from then on.  Messages travel as in Channel, so that a request is      *)
(* pending until one step delivers its reply.                              *)
(***************************************************************************)
EXTENDS Naturals, Sequences, FiniteSets, EventList

CONSTANTS
  Actions,    \* the actions of the workflow
  Roots,      \* the roots of the workflows, of which hookRun schedules that of its worker
  Children,   \* Children[a]: the children of a, in the order of AddChild
  Ancestors,  \* Ancestors[a]: its parent, the parent of that, ...
  Topic,      \* Topic[a]: the reply a expects, "none" if Process asks for nothing
  Context,    \* Context[a]: its context tag, "" if it has none
  MayThrow,   \* the actions whose Process may throw
  Judges,     \* the Action_CheckResult_Coordinate
  Decides     \* Decides[r]: the actions that must succeed for results, {}: none may fail

ChildrenOf(a) == {Children[a][i] : i \in DOMAIN Children[a]}

ASSUME TreeAssumption ==
  /\ Roots \subseteq Actions
  /\ Children \in [Actions -> Seq(Actions)]
  /\ Ancestors \in [Actions -> SUBSET Actions]
  /\ \A a \in Actions : IsFiniteSet(Ancestors[a])
  /\ \A r \in Roots : Ancestors[r] = {} /\ Topic[r] = "none"
  /\ \A a \in Actions \ Roots :
       \E p \in Actions : a \in ChildrenOf(p) /\ Ancestors[a] = Ancestors[p] \cup {p}
  /\ \A a \in Actions : \A c \in ChildrenOf(a) : Ancestors[c] = Ancestors[a] \cup {a}
  /\ \A a \in Actions : a \notin Ancestors[a]
  /\ \A a, b \in Actions : \A i \in DOMAIN Children[a], j \in DOMAIN Children[b] :
       Children[a][i] = Children[b][j] => a = b /\ i = j

ASSUME WorkflowAssumption ==
  /\ Topic \in [Actions -> {"none", "TEWG_REPLY", "COMPUTE_REPLY"}]
  /\ MayThrow \subseteq Actions
  /\ Judges \subseteq Actions
  /\ Decides \in [Roots -> SUBSET Actions]
  /\ \A j \in Judges : \A c \in ChildrenOf(j) : Children[c] = <<>>

\* What the workflows are meant to have besides: those who may expect the same topic have
\* "each separate contextName" (coordinate_actions.cc:67), which for the subworkers is the
\* id of a path in the client's document; and a worker that answers by what has succeeded
\* has no subworkers.
SeparateContexts ==
  \A a, b \in Actions :
    /\ Topic[a] = Topic[b] /\ Topic[a] # "none"
    /\ \E r \in Roots : r \in Ancestors[a] \cap Ancestors[b]
    /\ Context[a] = "" \/ Context[a] = Context[b]
    => a = b

DecidesAlone ==
  \A r \in Roots, a \in Actions : Decides[r] # {} /\ r \in Ancestors[a] =>
    Topic[a] # "COMPUTE_REPLY" /\ Judges \cap Ancestors[a] = {}

VARIABLES state,       \* state[a], the ActionState
          priorities,  \* the list of priority events, all of them new actions
          nices,       \* the list of nice events
          expecting,   \* the actions with an expected message topic
          message,     \* message[a]: the reply delivered to a, or Nothing
          asked,       \* history: the actions that have sent their request
          pending,     \* the requests without a reply
          thrown,      \* the actions that threw; ERROR_MSG is set when there is one
          answers,     \* the COMPUTE_REPLY messages sent
          thread       \* the event loop, "running" or "ended" by an exception

vars == <<state, priorities, nices, expecting, message, asked, pending, thrown,
          answers, thread>>

Working == {"WaitingMessages", "WaitingChildren"}

Ended == {"Finished", "Failed"}

Terminal == Ended \cup {"Cancelled"}

Nothing == [from |-> "nobody", result |-> "none"]

\* A worker replies to a COMPUTE_REQUEST from the Finish of its root, with results or an
\* error, or from HandleException, without a context.  A TEWG_REPLY is never an error.
ReplyKinds(a) ==
  IF Topic[a] = "TEWG_REPLY" THEN {"results"} ELSE {"results", "error", "exception"}

Init ==
  /\ state = [a \in Actions |-> "Idle"]
  /\ \E r \in Roots : priorities = <<r>>
  /\ nices = <<>>
  /\ expecting = {}
  /\ message = [a \in Actions |-> Nothing]
  /\ asked = {}
  /\ pending = {}
  /\ thrown = {}
  /\ answers = <<>>
  /\ thread = "running"

-----------------------------------------------------------------------------
Without(q, a) == Sieve(q, Actions \ {a})

\* Fetch, in every turn of its loop: the first priority event moves to the nices list.
NewNices == IF priorities = <<>> THEN nices ELSE Append(nices, Head(priorities))

OldPriorities == IF priorities = <<>> THEN <<>> ELSE Tail(priorities)

\* Action::Wait: Remove sets repeats to 0, so that EventMaster::Run does not schedule
\* the action once more after Wait has done it.
Wait(q, a) == Append(Without(q, a), a)

\* CleanUp goes down from a through the actions that have neither finished nor failed
\* and cancels them; a failed one makes those above it, up to a, failed ones.
CleanedBelow(st, a) ==
  {b \in Actions : a \in Ancestors[b] /\
     \A p \in Ancestors[b] : a \in Ancestors[p] => st[p] \notin Ended}

CleanUp_ChildrenOnly(st, a) ==
  [b \in Actions |-> IF b \in ChildrenOf(a) /\ st[b] \notin Ended THEN "Cancelled" ELSE st[b]]

CleanUp_EveryAction(st, a) ==
  [b \in Actions |-> IF b = a \/ st[b] \in Ended THEN st[b] ELSE "Cancelled"]

CleanUp(st, a) ==
  LET below == CleanedBelow(st, a)
      spoilt == {b \in below \cup {a} : \E c \in below : b \in Ancestors[c] /\ st[c] = "Failed"}
  IN [b \in Actions |->
       IF b \in below \cup {a} /\ (b = a \/ st[b] \notin Ended)
       THEN IF b \in spoilt THEN "Failed" ELSE IF b = a THEN st[a] ELSE "Cancelled"
       ELSE st[b]]

SetState(a, s) == [state EXCEPT ![a] = s]

-----------------------------------------------------------------------------
\* The Finish of the root: results if what decides has succeeded, an error otherwise.
Answer(r, st) ==
  IF (IF Decides[r] = {} THEN thrown = {} ELSE \A d \in Decides[r] : st[d] = "Finished")
  THEN "results" ELSE "error"

\* Finish removes the action from its list; the root answers first.
Finish(a, st) ==
  /\ state' = st
  /\ nices' = Without(Tail(NewNices), a)
  /\ priorities' = OldPriorities
  /\ answers' = IF a \in Roots THEN Append(answers, Answer(a, st)) ELSE answers
  /\ UNCHANGED <<thrown, thread>>

\* An exception caught by Run.  That of the root leaves the event loop, and
\* HandleException answers by writing to the socket.
Throw(a) ==
  /\ state' = CleanUp(SetState(a, "Failed"), a)
  /\ thrown' = thrown \cup {a}
  /\ nices' = Tail(NewNices)
  /\ priorities' = OldPriorities
  /\ answers' = IF a \in Roots THEN Append(answers, "error") ELSE answers
  /\ thread' = IF a \in Roots THEN "ended" ELSE thread

Waiting(a, st, scheduled) ==
  /\ state' = st
  /\ nices' = Wait(Tail(NewNices), a)
  /\ priorities' = OldPriorities \o scheduled
  /\ UNCHANGED <<thrown, answers, thread>>

-----------------------------------------------------------------------------
AllEnded_FinishedOnly(a) == \A c \in ChildrenOf(a) : state[c] = "Finished"

AllEnded_AnyChild(a) ==
  ChildrenOf(a) # {} => \E c \in ChildrenOf(a) : state[c] \in Terminal

AllEnded(a) == \A c \in ChildrenOf(a) : state[c] \in Terminal

Condemned(a) == a \in Judges /\ \E c \in ChildrenOf(a) : state[c] = "Failed"

\* Action_CheckResult_Coordinate::ProcessChildren cancels every subworker action, the
\* ended ones too: its test for them, a disjunction of inequalities, is always true.
CancelAll(a) == [b \in Actions |-> IF b \in ChildrenOf(a) THEN "Cancelled" ELSE state[b]]

\* ProcessChildren and what follows it, children scheduled in the same turn included.
PollChildren(a, scheduled) ==
  \/ /\ Condemned(a)
     /\ Waiting(a, [CancelAll(a) EXCEPT ![a] = "WaitingChildren"], scheduled)
  \/ /\ ~Condemned(a)
     /\ ~AllEnded(a)
     /\ Waiting(a, SetState(a, "WaitingChildren"), scheduled)
  \/ /\ ~Condemned(a)
     /\ AllEnded(a)
     /\ Finish(a, CleanUp(SetState(a, "Finished"), a))

\* Run in state _Idle.
Process(a) ==
  /\ state[a] = "Idle"
  /\ \/ /\ a \in MayThrow
        /\ Throw(a)
        /\ UNCHANGED <<expecting, asked, pending>>
     \/ /\ Topic[a] # "none"
        /\ expecting' = expecting \cup {a}
        /\ asked' = asked \cup {a}
        /\ pending' = pending \cup {a}
        /\ Waiting(a, SetState(a, "WaitingMessages"), <<>>)
     \/ /\ Topic[a] = "none"
        /\ Children[a] # <<>>
        /\ Waiting(a, SetState(a, "WaitingChildren"), Children[a])
        /\ UNCHANGED <<expecting, asked, pending>>
     \/ /\ Topic[a] = "none"
        /\ Children[a] = <<>>
        /\ Finish(a, SetState(a, "Finished"))
        /\ UNCHANGED <<expecting, asked, pending>>
  /\ UNCHANGED <<message>>

\* Run in state _WaitingMessages: ProcessMessages takes the message, which may be an
\* error; when nothing more is expected the children are scheduled and polled.
ProcessMessages(a) ==
  /\ state[a] = "WaitingMessages"
  /\ \/ /\ message[a].result \in {"error", "exception"}
        /\ Throw(a)
     \/ /\ message[a].result \notin {"error", "exception"}
        /\ a \in expecting
        /\ Waiting(a, state, <<>>)
     \/ /\ message[a].result \notin {"error", "exception"}
        /\ a \notin expecting
        /\ PollChildren(a, Children[a])
  /\ UNCHANGED <<expecting, message, asked, pending>>

\* Run in state _WaitingChildren.
ProcessChildren(a) ==
  /\ state[a] = "WaitingChildren"
  /\ PollChildren(a, <<>>)
  /\ UNCHANGED <<expecting, message, asked, pending>>

\* Run of an action that was cancelled while it was in the list, or has failed.  The case
\* of a finished one is left out: it is in no list, as PolledOnce says.
Drop(a) ==
  /\ state[a] \in {"Cancelled", "Failed"}
  /\ state' = CleanUp(state, a)
  /\ nices' = Tail(NewNices)
  /\ priorities' = OldPriorities
  /\ UNCHANGED <<expecting, message, asked, pending, thrown, answers, thread>>

\* A turn of Fetch in which select finds nothing: the first nice event runs.
RunAction ==
  /\ thread = "running"
  /\ NewNices # <<>>
  /\ LET a == Head(NewNices) IN
       Process(a) \/ ProcessMessages(a) \/ ProcessChildren(a) \/ Drop(a)

-----------------------------------------------------------------------------
\* hookHandleMessage: the message goes to every action that expects its topic, unless it
\* has a context and the action another.
Matches_AnyContext(a, kind, b) == b \in expecting /\ Topic[b] = Topic[a]

Matches(a, kind, b) ==
  /\ b \in expecting
  /\ Topic[b] = Topic[a]
  /\ kind = "exception" \/ Context[a] = "" \/ Context[b] = Context[a]

\* A turn of Fetch in which select finds the socket readable: the reader runs.
HandleMessage(a, kind) ==
  /\ thread = "running"
  /\ a \in pending
  /\ kind \in ReplyKinds(a)
  /\ LET takers == {b \in Actions : Matches(a, kind, b)} IN
       /\ message' = [b \in Actions |->
                        IF b \in takers THEN [from |-> a, result |-> kind] ELSE message[b]]
       /\ expecting' = expecting \ takers
  /\ pending' = pending \ {a}
  /\ nices' = NewNices
  /\ priorities' = OldPriorities
  /\ UNCHANGED <<state, asked, thrown, answers, thread>>

Next ==
  \/ RunAction
  \/ \E a \in Actions, kind \in {"results", "error", "exception"} : HandleMessage(a, kind)

Spec == Init /\ [][Next]_vars

\* The worker's event loop goes on; no reply has to come.
FairSpec == Spec /\ WF_vars(RunAction)

-----------------------------------------------------------------------------
Scheduled == {priorities[i] : i \in DOMAIN priorities} \cup {nices[i] : i \in DOMAIN nices}

Answered == answers # <<>>

\* Every variable keeps to its type.
TypeOK ==
  /\ state \in [Actions -> {"Idle"} \cup Working \cup Terminal]
  /\ priorities \in Seq(Actions)
  /\ nices \in Seq(Actions)
  /\ expecting \subseteq Actions
  /\ message \in [Actions -> {Nothing} \cup
                              [from : Actions, result : {"results", "error", "exception"}]]
  /\ asked \subseteq Actions
  /\ pending \subseteq asked
  /\ thrown \subseteq Actions
  /\ answers \in Seq({"results", "error"})
  /\ thread \in {"running", "ended"}

\* Polling neither drops nor doubles an action: while the loop runs, an action that still
\* waits for replies or children is in exactly one place of the two lists, one that has
\* finished is in none, and a new one is there only once its parent has had its reply.
PolledOnce ==
  LET turns == priorities \o nices IN
    /\ \A i, j \in DOMAIN turns : turns[i] = turns[j] => i = j
    /\ \A a \in Scheduled : state[a] # "Finished"
    /\ thread = "running" => \A a \in Actions : state[a] \in Working => a \in Scheduled
    /\ \A a \in Scheduled \ Roots :
         \E p \in Actions : a \in ChildrenOf(p) /\ state[p] \in {"WaitingChildren"} \cup Terminal

\* Polling keeps every action where it belongs; and when the worker has answered no action
\* of its tree is left that would do anything but leave the list: the loop may be stopped at
\* any point after the answer.
QuietAfterAnswer ==
  /\ PolledOnce
  /\ Answered => \E r \in Roots : \A a \in Actions :
                   a = r \/ r \in Ancestors[a] => state[a] \in Terminal

\* Parallel branches fail independently: an action has failed or was cancelled only
\* because one of its own ancestors or descendants threw, or one under the same judge.
FailureStaysInBranch ==
  \A a \in Actions : state[a] \in {"Failed", "Cancelled"} =>
      \E t \in thrown :
        t = a \/ t \in Ancestors[a] \/ a \in Ancestors[t]
          \/ \E j \in Judges : j \in Ancestors[a] \cap Ancestors[t]

\* Results are combined from replies meant for the action that holds them: whoever asked
\* got its own subworker's reply, although replies are matched by topic and context only.
OwnReplies ==
  answers = <<"results">> =>
    \A r \in Roots, a \in Actions :
      state[r] # "Idle" /\ Decides[r] = {} /\ r \in Ancestors[a] /\ Topic[a] # "none" =>
        message[a] = [from |-> a, result |-> "results"]

\* A worker is a job: one answer, no request after it, no results before all replies.
Job == INSTANCE ComputeJob

IsJob == Job!Spec

\* The worker answers when the requests it sends are always answered in the end; with a
\* judge one failed subworker is enough, whatever the others do.
AnswersInTheEnd ==
  /\ []<>(pending = {}) => <>Answered
  /\ (\E j \in Judges : Condemned(j)) ~> Answered

=============================================================================

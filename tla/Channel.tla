------------------------------ MODULE Channel ------------------------------
(***************************************************************************)
(* What a message pipe between the core and one thread promises, without   *)
(* the event loops, the socket and the descriptors that provide it: two    *)
(* queues, one per direction, from which messages are handed over in       *)
(* order.  An urgent message may overtake the ones still queued.  When an  *)
(* end closes, the tail of either queue is lost and nothing sent later is  *)
(* delivered.                                                              *)
(***************************************************************************)
EXTENDS Naturals, Sequences

CONSTANTS Msgs,    \* the messages that may be sent, each at most once
          Urgent   \* those sent with the urgent flag

VARIABLES queue,      \* queue[e]: sent by end e, not yet handed to its peer
          delivered,  \* delivered[e]: handed to end e, in order
          sent,       \* the messages sent so far
          link        \* "whole", or "cut" once an end has closed

vars == <<queue, delivered, sent, link>>

Ends == {"server", "client"}

Peer(e) == IF e = "server" THEN "client" ELSE "server"

InsertAfter(q, i, m) == SubSeq(q, 1, i) \o <<m>> \o SubSeq(q, i + 1, Len(q))

Init ==
  /\ queue = [e \in Ends |-> <<>>]
  /\ delivered = [e \in Ends |-> <<>>]
  /\ sent = {}
  /\ link = "whole"

Send(e, m) ==
  /\ m \notin sent
  /\ sent' = sent \cup {m}
  /\ \/ /\ link = "cut"
        /\ UNCHANGED queue
     \/ /\ link = "whole"
        /\ \E i \in 0 .. Len(queue[e]) :
             /\ m \in Urgent \/ i = Len(queue[e])
             /\ queue' = [queue EXCEPT ![e] = InsertAfter(queue[e], i, m)]
  /\ UNCHANGED <<delivered, link>>

Deliver(e) ==
  /\ \E n \in 1 .. Len(queue[e]) :
       /\ delivered' = [delivered EXCEPT ![Peer(e)] = @ \o SubSeq(queue[e], 1, n)]
       /\ queue' = [queue EXCEPT ![e] = SubSeq(queue[e], n + 1, Len(queue[e]))]
  /\ UNCHANGED <<sent, link>>

Cut ==
  /\ link = "whole"
  /\ link' = "cut"
  /\ \E s \in 0 .. Len(queue["server"]), c \in 0 .. Len(queue["client"]) :
       queue' = [e \in Ends |-> SubSeq(queue[e], 1, IF e = "server" THEN s ELSE c)]
  /\ UNCHANGED <<delivered, sent>>

Next ==
  \/ \E e \in Ends, m \in Msgs : Send(e, m)
  \/ \E e \in Ends : Deliver(e)
  \/ Cut

Spec == Init /\ [][Next]_vars
=============================================================================

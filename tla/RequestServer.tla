--------------------------- MODULE RequestServer ---------------------------
(***************************************************************************)
(* What the core promises to its two API servers, without the router, the  *)
(* compute workers and the managers behind it: every request is answered,  *)
(* once, to the server that posted it.                                     *)
(***************************************************************************)
EXTENDS Sequences, SequencesExt

CONSTANTS Requests, ServerOf

VARIABLES posted,   \* the requests posted so far
          answers   \* answers[s]: the requests answered to server s, in order

vars == <<posted, answers>>

Servers == {"api", "xmlrpc"}

Init ==
  /\ posted = {}
  /\ answers = [s \in Servers |-> <<>>]

Post(r) ==
  /\ posted' = posted \cup {r}
  /\ UNCHANGED answers

Answer(r) ==
  /\ r \in posted
  /\ r \notin ToSet(answers[ServerOf[r]])
  /\ answers' = [answers EXCEPT ![ServerOf[r]] = Append(@, r)]
  /\ UNCHANGED posted

Next == \E r \in Requests : Post(r) \/ Answer(r)

Safety == Init /\ [][Next]_vars

Spec == Safety /\ \A r \in Requests : WF_vars(Answer(r))
=============================================================================

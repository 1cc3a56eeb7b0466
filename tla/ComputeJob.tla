----------------------------- MODULE ComputeJob -----------------------------
(***************************************************************************)
(* What a compute worker thread promises to whoever started it, without    *)
(* the actions, the event lists and the polling that provide it: it asks   *)
(* for data while it works, it answers exactly once, it asks nothing after *)
(* that, and an answer with results waits for everything it asked for.     *)
(***************************************************************************)
EXTENDS Sequences

CONSTANT Actions   \* the actions of its workflow, each asks at most once

VARIABLES asked,    \* the actions that have sent their request
          pending,  \* those whose reply has not come
          answers   \* the answers given, each "results" or "error"

vars == <<asked, pending, answers>>

Init ==
  /\ asked = {}
  /\ pending = {}
  /\ answers = <<>>

Ask(a) ==
  /\ answers = <<>>
  /\ a \notin asked
  /\ asked' = asked \cup {a}
  /\ pending' = pending \cup {a}
  /\ UNCHANGED answers

Reply(a) ==
  /\ a \in pending
  /\ pending' = pending \ {a}
  /\ UNCHANGED <<asked, answers>>

Answer(result) ==
  /\ answers = <<>>
  /\ result = "results" => pending = {}
  /\ answers' = <<result>>
  /\ UNCHANGED <<asked, pending>>

Next ==
  \/ \E a \in Actions : Ask(a) \/ Reply(a)
  \/ \E result \in {"results", "error"} : Answer(result)

Spec == Init /\ [][Next]_vars
=============================================================================

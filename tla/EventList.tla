----------------------------- MODULE EventList -----------------------------
(***************************************************************************)
(* What the loops that take elements out of a list leave in it, in its     *)
(* order: those at some places, or those that are in some set.  SelectSeq  *)
(* says something like it, but has its recursion in an operator, about     *)
(* which nothing can be proved.                                            *)
(***************************************************************************)
EXTENDS Naturals, Sequences

\* What there is after the first n places of q.
Kept(q, places) ==
  LET kept[n \in 0 .. Len(q)] ==
        IF n = 0 THEN <<>>
        ELSE IF n \in places THEN Append(kept[n - 1], q[n]) ELSE kept[n - 1]
  IN kept

Keep(q, places) == Kept(q, places)[Len(q)]

Sieve(q, S) == Keep(q, {i \in DOMAIN q : q[i] \in S})
=============================================================================

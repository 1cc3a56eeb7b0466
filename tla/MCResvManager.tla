--------------------------- MODULE MCResvManager ---------------------------
(***************************************************************************)
(* Instances of ResvManager for TLC: two domains, one of them with two     *)
(* reservations of its own, one with a reservation whose path never loads, *)
(* and a reservation that crosses both.                                    *)
(***************************************************************************)
EXTENDS ResvManager

CONSTANTS A, B, a1, a2, x, bad, w

MCCrosses == [g \in Gris |-> IF g \in {a1, a2} THEN {A} ELSE IF g = bad THEN {B} ELSE {A, B}]

MCLists == [d \in Domains |->
  IF d = A THEN {<<>>, <<x>>, <<a1, a2>>} ELSE {<<x>>, <<bad, x>>}]

\* The loop as the code writes it; itR is a place in resvs.
RECURSIVE EraseLoop(_, _)
EraseLoop(resvs, itR) ==
  IF itR > Len(resvs) THEN resvs
  ELSE IF resvs[itR].status # "DELETE" THEN EraseLoop(resvs, itR + 1)
  ELSE IF itR = Len(resvs) THEN EraseLoop(RemoveAt(resvs, itR), 1)
  ELSE EraseLoop(RemoveAt(resvs, itR), itR + 1)

ASSUME \A n \in 0 .. 7 : \A s \in [1 .. n -> {"LISTED", "DELETE"}] :
         LET q == [i \in 1 .. n |-> [gri |-> i, status |-> s[i]]]
         IN EraseMarked(q) = EraseLoop(q, 1)
=============================================================================

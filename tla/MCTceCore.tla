----------------------------- MODULE MCTceCore -----------------------------
(***************************************************************************)
(* Instances of TceCore for TLC: requests of both servers at once.         *)
(***************************************************************************)
EXTENDS TceCore

CONSTANTS a1, x

MCServerOf == [r \in Requests |-> IF r = x THEN "xmlrpc" ELSE "api"]
=============================================================================

---------------------------- MODULE MCApiServer ----------------------------
(***************************************************************************)
(* Instances of ApiServer for TLC.                                         *)
(***************************************************************************)
EXTENDS ApiServer

CONSTANTS k1, k2, k3, g1

Orders == k1 :> 1 @@ k2 :> 2 @@ k3 :> 3
Messages == [gri : {g1}, kind : Kind]
=============================================================================

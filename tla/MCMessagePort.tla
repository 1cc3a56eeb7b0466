--------------------------- MODULE MCMessagePort ---------------------------
(***************************************************************************)
(* Instances of MessagePort for TLC: three messages, one of them urgent,   *)
(* and a socket that holds one message, so that the outQueue fills up.     *)
(***************************************************************************)
EXTENDS MessagePort

CONSTANTS m1, m2, m3

MCMsgs == {m1, m2, m3}
MCUrgent == {m3}
=============================================================================

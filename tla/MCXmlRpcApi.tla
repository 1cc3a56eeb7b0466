---------------------------- MODULE MCXmlRpcApi ----------------------------
(***************************************************************************)
(* Instances of XmlRpcApi for TLC: enough calls for a reply that is two    *)
(* calls late.                                                             *)
(***************************************************************************)
EXTENDS XmlRpcApi

CONSTANTS c1, c2, c3, c4
=============================================================================

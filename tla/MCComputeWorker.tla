--------------------------- MODULE MCComputeWorker ---------------------------
(***************************************************************************)
(* The workflows of the four worker types of ComputeWorkerFactory, as      *)
(* trees of ActionTree for TLC.                                            *)
(*                                                                         *)
(* Simple and bridging workers run one chain of actions.  The coordinate   *)
(* worker asks for a TEWG, then runs one subworker per multi-point         *)
(* constraint and one for all point-to-point constraints, and a judge over *)
(* them.  The multi-point-to-point worker runs, for one path and two       *)
(* bandwidth contexts, two parallel chains, each with a TEWG of its own;   *)
(* Action_ReorderPaths_MP2P creates its part of the chain itself, before   *)
(* its children are scheduled.                                             *)
(***************************************************************************)
EXTENDS ActionTree

MCRoots == {"simple", "mpvb", "coordinate", "mp2p"}

\* Records, for TLC evaluates the elements of a function constructor over and over.
MCChildren ==
  [ simple |-> <<"tewg">>, tewg |-> <<"ksp">>, ksp |-> <<"finalize">>, finalize |-> <<>>,
    mpvb |-> <<"tewg_b">>, tewg_b |-> <<"prestage">>, prestage |-> <<"bridge">>,
    bridge |-> <<"finalize_b">>, finalize_b |-> <<>>,
    coordinate |-> <<"tewg_c">>, tewg_c |-> <<"check">>,
    check |-> <<"sub1", "sub2", "sub3">>, sub1 |-> <<>>, sub2 |-> <<>>, sub3 |-> <<>>,
    mp2p |-> <<"tewg1", "tewg2">>,
    tewg1 |-> <<"ksp1">>, ksp1 |-> <<"ats1">>, ats1 |-> <<"round1">>,
    round1 |-> <<"reorder1">>, reorder1 |-> <<"again1">>, again1 |-> <<"final1">>,
    final1 |-> <<>>,
    tewg2 |-> <<"ksp2">>, ksp2 |-> <<"ats2">>, ats2 |-> <<"round2">>,
    round2 |-> <<"reorder2">>, reorder2 |-> <<"again2">>, again2 |-> <<"final2">>,
    final2 |-> <<>> ]

MCActions == DOMAIN MCChildren

MCAncestors ==
  [ simple |-> {}, tewg |-> {"simple"}, ksp |-> {"simple", "tewg"},
    finalize |-> {"simple", "tewg", "ksp"},
    mpvb |-> {}, tewg_b |-> {"mpvb"}, prestage |-> {"mpvb", "tewg_b"},
    bridge |-> {"mpvb", "tewg_b", "prestage"},
    finalize_b |-> {"mpvb", "tewg_b", "prestage", "bridge"},
    coordinate |-> {}, tewg_c |-> {"coordinate"}, check |-> {"coordinate", "tewg_c"},
    sub1 |-> {"coordinate", "tewg_c", "check"},
    sub2 |-> {"coordinate", "tewg_c", "check"},
    sub3 |-> {"coordinate", "tewg_c", "check"},
    mp2p |-> {},
    tewg1 |-> {"mp2p"}, ksp1 |-> {"mp2p", "tewg1"}, ats1 |-> {"mp2p", "tewg1", "ksp1"},
    round1 |-> {"mp2p", "tewg1", "ksp1", "ats1"},
    reorder1 |-> {"mp2p", "tewg1", "ksp1", "ats1", "round1"},
    again1 |-> {"mp2p", "tewg1", "ksp1", "ats1", "round1", "reorder1"},
    final1 |-> {"mp2p", "tewg1", "ksp1", "ats1", "round1", "reorder1", "again1"},
    tewg2 |-> {"mp2p"}, ksp2 |-> {"mp2p", "tewg2"}, ats2 |-> {"mp2p", "tewg2", "ksp2"},
    round2 |-> {"mp2p", "tewg2", "ksp2", "ats2"},
    reorder2 |-> {"mp2p", "tewg2", "ksp2", "ats2", "round2"},
    again2 |-> {"mp2p", "tewg2", "ksp2", "ats2", "round2", "reorder2"},
    final2 |-> {"mp2p", "tewg2", "ksp2", "ats2", "round2", "reorder2", "again2"} ]

Subworkers == {"sub1", "sub2", "sub3"}

MCTopic == [a \in MCActions |->
  CASE a \in {"tewg", "tewg_b", "tewg_c", "tewg1", "tewg2"} -> "TEWG_REPLY"
    [] a \in Subworkers -> "COMPUTE_REPLY"
    [] OTHER -> "none"]

\* The context of a chain of the multi-point-to-point worker is its bandwidth, that of a
\* subworker its path.
MCContext == [a \in MCActions |->
  CASE a = "tewg1" \/ "tewg1" \in MCAncestors[a] -> "cxt_user_preferred_bw"
    [] a = "tewg2" \/ "tewg2" \in MCAncestors[a] -> "cxt_user_maximum_bw"
    [] a = "sub1" -> "path1"
    [] a = "sub2" -> "path2"
    [] a = "sub3" -> "mp2p"
    [] OTHER -> ""]

MCMayThrow ==
  { "ksp", "finalize", "mpvb", "prestage", "bridge", "finalize_b",
    "mp2p", "ksp1", "ats1", "round1", "again1", "ksp2", "ats2", "round2", "again2" }

MCJudges == {"check"}

\* Finish of the simple root looks for feasible paths, that of the multi-point-to-point
\* one for those of the preferred bandwidth; the others look for ERROR_MSG.
MCDecides == [r \in MCRoots |->
  CASE r = "simple" -> {"ksp"} [] r = "mp2p" -> {"final1"} [] OTHER -> {}]

\* The workflows of the code are as they are meant to be.
ASSUME MCWorkflows == SeparateContexts /\ DecidesAlone
=============================================================================

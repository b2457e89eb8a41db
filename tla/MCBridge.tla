------------------------------ MODULE MCBridge ------------------------------
(***************************************************************************)
(* Instances of Bridge for TLC.                                            *)
(***************************************************************************)
EXTENDS Bridge

CONSTANTS n1, n2, g1, unknown, known1

MCOneNode == {n1}
MCTwoNodes == {n1, n2}
MCGroups == {g1}
MCNoGroups == {}
MCStatus == {unknown, known1}
MCOneStatus == {unknown}
=============================================================================

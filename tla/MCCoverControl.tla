--------------------------- MODULE MCCoverControl ---------------------------
(***************************************************************************)
(* Instances of CoverControl for TLC.                                      *)
(***************************************************************************)
EXTENDS CoverControl

CONSTANTS n1, n2

MCOneNode == {n1}
MCTwoNodes == {n1, n2}
MCIds == 1..2
MCPlaces == {FULLY_OPEN, 30000, FULLY_CLOSED}
=============================================================================

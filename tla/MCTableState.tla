---------------------------- MODULE MCTableState ----------------------------
(* Instances of TableState for TLC.                                        *)
EXTENDS TableState

FourRows == <<2, 4, 1, 3>>
=============================================================================

-------------------------- MODULE MCPageOperations --------------------------
(* Instances of PageOperations for TLC.                                    *)
EXTENDS PageOperations

TwoRows == {1, 2}
=============================================================================

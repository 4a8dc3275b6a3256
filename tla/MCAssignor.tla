------------------------------ MODULE MCAssignor ------------------------------
(* Small instances of Assignor for TLC.                                    *)
EXTENDS Assignor

CONSTANTS w1, w2, w3

=============================================================================

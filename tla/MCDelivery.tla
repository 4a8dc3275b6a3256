------------------------------ MODULE MCDelivery ------------------------------
(* Small instances of Delivery for TLC.                                    *)
EXTENDS Delivery

CONSTANTS t1, t2, c1, c2

TwoLogs == [tp \in TP |-> IF tp = t1 THEN {0, 1} ELSE {0}]

(* The second message of t1 cannot be decoded for channel c2.              *)
OneBad == [tp \in TP |-> IF tp = t1 THEN {<<1, c2>>} ELSE {}]
=============================================================================

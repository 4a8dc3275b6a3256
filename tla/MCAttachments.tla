---------------------------- MODULE MCAttachments ----------------------------
(* Small instances of Attachments for TLC.                                 *)
EXTENDS Attachments

CONSTANTS t1, t2, w1

DenseLog == [tp \in TP |-> {0, 1, 2}]

(* Partitions of different length.                                         *)
TwoLogs == [tp \in TP |-> IF tp = t1 THEN {0, 1} ELSE {1}]
=============================================================================

------------------------------ MODULE MCConsumer ------------------------------
(* Small instances of Consumer for TLC.                                    *)
EXTENDS Consumer

CONSTANTS t1, t2, w1, w2

(* Offsets 2 and 3 were compacted away.                                    *)
HoleLog == [tp \in TP |-> {0, 1, 4}]

(* The hole follows offset 0.                                              *)
ZeroHoleLog == [tp \in TP |-> {0, 3}]

(* Holes before, between and after messages.                               *)
SeekLog == [tp \in TP |-> {1, 5, 6, 9}]

DenseLog == [tp \in TP |-> {0, 1, 2}]
=============================================================================

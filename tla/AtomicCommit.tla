---------------------------- MODULE AtomicCommit ----------------------------
(***************************************************************************)
(* What processing_guarantee = "exactly_once" keeps of its promise to      *)
(* somebody who reads committed records only, whatever happens to the      *)
(* workers: the offset of a partition moves in one step with records, and  *)
(* never to where the record of an event before it is missing.  Records    *)
(* that are committed stay.  Records of events after the offset may come   *)
(* with it: an agent that is busy has its records in the same transaction. *)
(* A record may be there twice, and the offset may be moved back.          *)
(***************************************************************************)
EXTENDS Integers

CONSTANTS
    Partitions,
    Events,    \* events in each partition
    Direct     \* those whose record the agent sends itself

VARIABLES offset, written

vars == <<offset, written>>

Init ==
    /\ offset = [p \in Partitions |-> 0]
    /\ written = [p \in Partitions |-> {}]

Commit(p, n) ==
    /\ offset' = [offset EXCEPT ![p] = n]
    /\ written' \in [Partitions -> SUBSET Direct]
    /\ written[p] \cup (Direct \cap 1..n) \subseteq written'[p]
    /\ \A q \in Partitions \ {p} : written'[q] = written[q]

Next == \E p \in Partitions, n \in 1..Events : Commit(p, n)

Spec == Init /\ [][Next]_vars
=============================================================================

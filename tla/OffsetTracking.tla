---------------------------- MODULE OffsetTracking ----------------------------
(***************************************************************************)
(* The offset bookkeeping of faust/transport/consumer.py for one topic     *)
(* partition, as operators on values:                                      *)
(*                                                                         *)
(*   acked   Consumer._acked[tp], the list of acked offsets.  The list is  *)
(*           sorted before it is read, so only how often each offset       *)
(*           occurs matters: a bag [Offset -> Nat].                        *)
(*   index   Consumer._acked_index[tp], a set of offsets.                  *)
(*   gap     Consumer._gap[tp], an IntervalTree: a set of half-open        *)
(*           intervals <<begin, end>>.                                     *)
(*                                                                         *)
(* Offsets of a partition are 0..LastOffset.  A committed offset is the    *)
(* offset of the NEXT message to read, so it ranges over 0..LastOffset+1,  *)
(* or is NoOffset where the code has None.                                 *)
(***************************************************************************)
EXTENDS Integers, FiniteSets, FiniteSetsExt

CONSTANT LastOffset

ASSUME LastOffsetAssumption == LastOffset \in Nat

NoOffset == -1
Offset == 0..LastOffset
NextOffset == 0..(LastOffset + 1)
MaybeNext == NextOffset \cup {NoOffset}
Interval == Offset \X NextOffset

EmptyBag == [o \in Offset |-> 0]

(* Python truth of an optional offset: both None and 0 are false.          *)
Truthy(o) == o # NoOffset /\ o # 0

OffsetsIn(bag) == {o \in Offset : bag[o] > 0}

Covers(g, o) == g[1] <= o /\ o < g[2]

-----------------------------------------------------------------------------
(* IntervalTree (external library, as consumer.py uses it).                *)

(* gap_for_tp.overlap(0, upTo): the intervals that meet [0, upTo).         *)
Overlap(gaps, upTo) == {g \in gaps : g[1] < upTo}

(* gap_for_tp.chop(0, upTo): remove the points below upTo.                 *)
Chop(gaps, upTo) ==
    {g \in gaps : upTo <= g[1]}
        \cup {<<upTo, g[2]>> : g \in {h \in gaps : h[1] < upTo /\ upTo < h[2]}}

(* gap_for_tp.merge_overlaps(): intervals that share a point become one.   *)
(* Two intervals that only touch are left apart.  The hull <<b, e>> of a   *)
(* run of overlapping intervals is covered without a seam: every inner     *)
(* boundary b < x < e lies strictly inside some interval, and no interval  *)
(* crosses b or e.                                                         *)
MergeOverlaps(gaps) ==
    {m \in {g[1] : g \in gaps} \X {g[2] : g \in gaps} :
        /\ m[1] < m[2]
        /\ \A x \in (m[1] + 1)..(m[2] - 1) : \E g \in gaps : g[1] < x /\ x < g[2]
        /\ \E g \in gaps : g[1] = m[1] /\ g[2] <= m[2]
        /\ ~ \E g \in gaps : \/ g[1] < m[1] /\ m[1] < g[2]
                             \/ g[1] < m[2] /\ m[2] < g[2]}

-----------------------------------------------------------------------------
(* Consumer.ack: an offset below the committed one, or acked before, is    *)
(* ignored.                                                                *)
AckCounts(committed, index, o) ==
    (committed = NoOffset \/ o >= committed) /\ o \notin index

(* Consumer._add_gap: the interval that is added for a hole in the read    *)
(* offsets from..to, both ends included; {} when it is empty.              *)
GapInterval(committed, from, to) ==
    LET begin == IF committed # NoOffset /\ committed + 1 > from
                 THEN committed + 1 ELSE from
    IN  IF begin <= to THEN {<<begin, to + 1>>} ELSE {}

(* The head of the acked list handed to consecutive_numbers: a maximal run *)
(* of consecutive offsets from the smallest one.  groupby compares index   *)
(* and value, so a repeated offset ends the run after its first copy.      *)
ConsecutiveRun(bag) ==
    {o \in OffsetsIn(bag) :
        \A p \in 0..(o - 1) : bag[p] = 1 \/ \A q \in 0..p : bag[q] = 0}

(* Consumer._should_commit                                                 *)
ShouldCommit(committed, o) ==
    committed = NoOffset \/ (o # 0 /\ o > committed)

(* The part of Consumer._new_offset before the head check: the intervals   *)
(* that begin below the greatest acked offset are added to the acked list  *)
(* and cut out of the gap.                                                 *)
AbsorbGaps(bag, gaps) ==
    LET top   == Max(OffsetsIn(bag))
        cand  == Overlap(gaps, top)
        last  == CHOOSE g \in cand : \A h \in cand : h[1] <= g[1]
        limit == IF last[2] - 1 > top + 1 THEN last[2] - 1 ELSE top + 1
    IN  [acked |-> [o \in Offset |->
                      bag[o] + Cardinality({g \in cand : Covers(g, o)})],
         gap   |-> IF cand = {} THEN gaps ELSE Chop(gaps, limit)]

(* Does the head of the acked list start beyond the committed offset?      *)
HeadGap(committed, bag) ==
    Truthy(committed) /\ Min(OffsetsIn(bag)) - committed > 1

(* Mutant: the offset that is returned skips one message.                  *)
NewOffsetTooFar(bag, idx, gaps, committed) ==
    [acked |-> bag, index |-> idx, gap |-> gaps,
     offset |-> IF OffsetsIn(bag) = {} THEN NoOffset ELSE Max(OffsetsIn(bag)) + 2]

(* Mutant: the batch is not removed from the index.                        *)
NewOffsetKeepsIndex(bag, idx, gaps, committed) ==
    IF OffsetsIn(bag) = {}
    THEN [acked |-> bag, index |-> idx, gap |-> gaps, offset |-> NoOffset]
    ELSE LET run == ConsecutiveRun(bag)
         IN  [acked  |-> [o \in Offset |->
                            IF o \in run THEN bag[o] - 1 ELSE bag[o]],
              index  |-> idx,
              gap    |-> gaps,
              offset |-> Max(run) + 1]

(* Consumer._new_offset: the offset to commit (NoOffset for None) and the  *)
(* bookkeeping it leaves behind, also when it returns None.                *)
NewOffset(bag, idx, gaps, committed) ==
    IF OffsetsIn(bag) = {}
    THEN [acked |-> bag, index |-> idx, gap |-> gaps, offset |-> NoOffset]
    ELSE LET full == AbsorbGaps(bag, gaps)
             run  == ConsecutiveRun(full.acked)
         IN  IF HeadGap(committed, full.acked)
             THEN [acked |-> full.acked, index |-> idx, gap |-> full.gap,
                   offset |-> NoOffset]
             ELSE [acked  |-> [o \in Offset |->
                                 IF o \in run THEN full.acked[o] - 1
                                              ELSE full.acked[o]],
                   index  |-> idx \ run,
                   gap    |-> full.gap,
                   offset |-> Max(run) + 1]

=============================================================================

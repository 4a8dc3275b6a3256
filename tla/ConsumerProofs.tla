---------------------------- MODULE ConsumerProofs ----------------------------
(***************************************************************************)
(* Theorems about OffsetTracking, Consumer and Attachments for every set   *)
(* of partitions, number of agent tasks, log, and bound.                   *)
(***************************************************************************)
EXTENDS Attachments, FiniteSetTheorems, TLAPS

-----------------------------------------------------------------------------
(* What _new_offset returns and leaves behind, for every log length.       *)

(* The order of numbers as a relation.                                     *)
LEMMA LessIsRelation ==
    \A x, y \in Nat : x < y => <<x, y>> \in OpToRel(<, Nat)
  BY Zenon DEF OpToRel

(* A non-empty set of naturals has a least element.                        *)
LEMMA MinExists ==
    ASSUME NEW S \in SUBSET Nat, S # {}
    PROVE  Min(S) \in S /\ \A y \in S : Min(S) <= y
<1>1. PICK x \in S : \A y \in S : ~ (<<y, x>> \in OpToRel(<, Nat))
  BY WFMin, NatLessThanWellFounded
<1>2. \A y \in S : ~ (y < x)
  BY <1>1, LessIsRelation, Zenon
<1>3. \A y \in S : x <= y
  BY <1>2
<1> QED
  BY <1>3, Zenon DEF Min

(* A non-empty set of naturals with an upper bound has a greatest element. *)
LEMMA MaxExists ==
    ASSUME NEW n \in Nat, NEW S \in SUBSET (0..n), S # {}
    PROVE  Max(S) \in S /\ \A y \in S : Max(S) >= y
<1> DEFINE T == {n - y : y \in S}
<1>1. T \in SUBSET Nat /\ T # {}
  <2>1. PICK e \in S : TRUE
    OBVIOUS
  <2>2. n - e \in T
    OBVIOUS
  <2>3. \A y \in S : n - y \in Nat
    OBVIOUS
  <2> QED
    BY <2>2, <2>3
<1>2. PICK z \in T : \A t \in T : ~ (<<t, z>> \in OpToRel(<, Nat))
  BY <1>1, WFMin, NatLessThanWellFounded
<1>3. \A t \in T : ~ (t < z)
  BY <1>1, <1>2, LessIsRelation, Zenon
<1>4. PICK x \in S : z = n - x
  OBVIOUS
<1>5. \A y \in S : x >= y
  BY <1>3, <1>4
<1> QED
  BY <1>5, Zenon DEF Max

(* Offsets are natural numbers.                                            *)
LEMMA OffsetIsNat == Offset \subseteq Nat /\ NextOffset \subseteq Nat
  BY LastOffsetAssumption DEF Offset, NextOffset

(* The acked list, when it is not empty, has a first and a last offset.    *)
LEMMA OffsetsInBounds ==
    ASSUME NEW bag \in [Offset -> Nat], OffsetsIn(bag) # {}
    PROVE  /\ Min(OffsetsIn(bag)) \in OffsetsIn(bag)
           /\ \A o \in OffsetsIn(bag) : Min(OffsetsIn(bag)) <= o
           /\ Max(OffsetsIn(bag)) \in OffsetsIn(bag)
           /\ \A o \in OffsetsIn(bag) : Max(OffsetsIn(bag)) >= o
<1>1. OffsetsIn(bag) \in SUBSET (0..LastOffset) /\ LastOffset \in Nat
  BY LastOffsetAssumption DEF OffsetsIn, Offset
<1>2. OffsetsIn(bag) \in SUBSET Nat
  BY <1>1
<1>3. /\ Min(OffsetsIn(bag)) \in OffsetsIn(bag)
      /\ \A o \in OffsetsIn(bag) : Min(OffsetsIn(bag)) <= o
  BY <1>2, MinExists, Zenon
<1>4. /\ Max(OffsetsIn(bag)) \in OffsetsIn(bag)
      /\ \A o \in OffsetsIn(bag) : Max(OffsetsIn(bag)) >= o
  BY <1>1, MaxExists, Zenon
<1> QED
  BY <1>3, <1>4

(* The batch that is committed is not empty and starts at the head of the  *)
(* acked list.                                                             *)
LEMMA RunExists ==
    ASSUME NEW bag \in [Offset -> Nat], OffsetsIn(bag) # {}
    PROVE  /\ ConsecutiveRun(bag) \in SUBSET Offset
           /\ Min(OffsetsIn(bag)) \in ConsecutiveRun(bag)
           /\ Max(ConsecutiveRun(bag)) \in ConsecutiveRun(bag)
           /\ \A o \in ConsecutiveRun(bag) : Max(ConsecutiveRun(bag)) >= o
<1> DEFINE first == Min(OffsetsIn(bag))
<1>1. first \in OffsetsIn(bag) /\ \A o \in OffsetsIn(bag) : first <= o
  BY OffsetsInBounds
<1>2. first \in Nat /\ first <= LastOffset
  BY <1>1, LastOffsetAssumption DEF OffsetsIn, Offset
<1>3. ASSUME NEW q \in 0..(first - 1) PROVE bag[q] = 0
  <2>1. q \in Offset /\ q < first
    BY <1>2, LastOffsetAssumption DEF Offset
  <2>2. q \notin OffsetsIn(bag)
    BY <1>1, <1>2, <2>1
  <2> QED
    BY <2>1, <2>2 DEF OffsetsIn
<1>4. ASSUME NEW p \in 0..(first - 1), NEW q \in 0..p PROVE bag[q] = 0
  <2>1. q \in 0..(first - 1)
    BY <1>2
  <2> QED
    BY <2>1, <1>3
<1>5. first \in ConsecutiveRun(bag)
  BY <1>1, <1>4 DEF ConsecutiveRun
<1>6. ConsecutiveRun(bag) \in SUBSET (0..LastOffset)
  BY DEF ConsecutiveRun, OffsetsIn, Offset
<1>7. /\ Max(ConsecutiveRun(bag)) \in ConsecutiveRun(bag)
      /\ \A o \in ConsecutiveRun(bag) : Max(ConsecutiveRun(bag)) >= o
  BY <1>5, <1>6, MaxExists, LastOffsetAssumption
<1> QED
  BY <1>5, <1>6, <1>7 DEF Offset

(* Gaps, and any part of them, can be counted.                             *)
LEMMA GapsFinite ==
    ASSUME NEW gaps \in SUBSET Interval, NEW part \in SUBSET gaps
    PROVE  IsFiniteSet(part) /\ Cardinality(part) \in Nat
<1>1. IsFiniteSet(Offset) /\ IsFiniteSet(NextOffset)
  BY FS_Interval, LastOffsetAssumption DEF Offset, NextOffset
<1>2. IsFiniteSet(Interval)
  BY <1>1, FS_Product DEF Interval
<1>3. IsFiniteSet(part)
  BY <1>2, FS_Subset
<1> QED
  BY <1>3, FS_CardinalityType

(* Absorbing the gaps only adds to the acked list, and what is left of the *)
(* gap is still a set of intervals.                                        *)
LEMMA AbsorbGapsType ==
    ASSUME NEW bag \in [Offset -> Nat], OffsetsIn(bag) # {},
           NEW gaps \in SUBSET Interval
    PROVE  /\ AbsorbGaps(bag, gaps).acked \in [Offset -> Nat]
           /\ \A o \in Offset : AbsorbGaps(bag, gaps).acked[o] >= bag[o]
           /\ AbsorbGaps(bag, gaps).gap \in SUBSET Interval
<1> DEFINE top   == Max(OffsetsIn(bag))
           cand  == Overlap(gaps, top)
           last  == CHOOSE g \in cand : \A h \in cand : h[1] <= g[1]
           limit == IF last[2] - 1 > top + 1 THEN last[2] - 1 ELSE top + 1
           added(o) == Cardinality({g \in cand : Covers(g, o)})
           sum   == [o \in Offset |-> bag[o] + added(o)]
           rest  == IF cand = {} THEN gaps ELSE Chop(gaps, limit)
<1>1. AbsorbGaps(bag, gaps) = [acked |-> sum, gap |-> rest]
  BY DEF AbsorbGaps
<1>2. cand \in SUBSET gaps
  BY DEF Overlap
<1>3. \A o \in Offset : added(o) \in Nat
  BY <1>2, GapsFinite
<1>4. sum \in [Offset -> Nat] /\ \A o \in Offset : sum[o] >= bag[o]
  BY <1>3
<1>5. top \in Nat
  BY OffsetsInBounds, OffsetIsNat DEF OffsetsIn
<1>6. ASSUME cand # {} PROVE last \in cand
  <2> DEFINE B == {g[1] : g \in cand}
  <2>1. B \in SUBSET (0..LastOffset) /\ B # {}
    BY <1>2, <1>6 DEF Interval, Offset
  <2>2. Max(B) \in B /\ \A b \in B : Max(B) >= b
    BY <2>1, MaxExists, LastOffsetAssumption, Zenon
  <2>3. PICK g \in cand : g[1] = Max(B)
    BY <2>2
  <2>4. \A h \in cand : h[1] \in Nat /\ h[1] \in B
    BY <2>1, <1>2 DEF Interval, Offset
  <2>5. \A h \in cand : h[1] <= g[1]
    BY <2>2, <2>3, <2>4
  <2> QED
    BY <2>5, Zenon
<1>7. ASSUME cand # {} PROVE limit \in Nat
  <2>1. last[2] \in Nat
    BY <1>2, <1>6, <1>7, OffsetIsNat DEF Interval
  <2> QED
    BY <2>1, <1>5
<1>8. ASSUME NEW n \in Nat PROVE Chop(gaps, n) \in SUBSET Interval
  <2>1. ASSUME NEW g \in gaps, g[1] < n, n < g[2]
        PROVE  <<n, g[2]>> \in Interval
    <3>1. g[2] \in NextOffset
      BY DEF Interval
    <3>2. n \in Offset
      BY <2>1, <3>1, LastOffsetAssumption DEF Offset, NextOffset
    <3> QED
      BY <3>1, <3>2 DEF Interval
  <2> QED
    BY <2>1 DEF Chop
<1>9. rest \in SUBSET Interval
  BY <1>7, <1>8
<1> QED
  BY <1>1, <1>4, <1>9

(* The bookkeeping _new_offset leaves behind is well formed, and the       *)
(* offset it returns is one that may be committed.                         *)
LEMMA NewOffsetType ==
    ASSUME NEW bag \in [Offset -> Nat], NEW idx \in SUBSET Offset,
           NEW gaps \in SUBSET Interval, NEW committed \in MaybeNext
    PROVE  NewOffset(bag, idx, gaps, committed) \in
             [acked : [Offset -> Nat], index : SUBSET Offset,
              gap : SUBSET Interval, offset : MaybeNext]
<1>1. CASE OffsetsIn(bag) = {}
  BY <1>1 DEF NewOffset, MaybeNext
<1>2. CASE OffsetsIn(bag) # {}
  <2> DEFINE full == AbsorbGaps(bag, gaps)
             run  == ConsecutiveRun(full.acked)
             left == [o \in Offset |-> IF o \in run THEN full.acked[o] - 1
                                                    ELSE full.acked[o]]
  <2>1. /\ full.acked \in [Offset -> Nat] /\ full.gap \in SUBSET Interval
        /\ \A o \in Offset : full.acked[o] >= bag[o]
    BY <1>2, AbsorbGapsType
  <2>2. OffsetsIn(full.acked) # {}
    BY <1>2, <2>1 DEF OffsetsIn
  <2>3. Max(run) \in run /\ run \in SUBSET Offset
    BY <2>1, <2>2, RunExists
  <2>4. Max(run) + 1 \in MaybeNext
    <3> HIDE DEF run
    <3>1. Max(run) \in Offset
      BY <2>3
    <3> QED
      BY <3>1, LastOffsetAssumption DEF Offset, NextOffset, MaybeNext
  <2>5. left \in [Offset -> Nat]
    <3>1. \A o \in run : full.acked[o] > 0
      BY DEF ConsecutiveRun, OffsetsIn
    <3> QED
      BY <2>1, <3>1
  <2>6. NewOffset(bag, idx, gaps, committed) =
          IF HeadGap(committed, full.acked)
          THEN [acked |-> full.acked, index |-> idx, gap |-> full.gap,
                offset |-> NoOffset]
          ELSE [acked |-> left, index |-> idx \ run, gap |-> full.gap,
                offset |-> Max(run) + 1]
    BY <1>2 DEF NewOffset
  <2> HIDE DEF full, run, left
  <2> QED
    BY <2>1, <2>4, <2>5, <2>6 DEF MaybeNext
<1> QED
  BY <1>1, <1>2

(* _new_offset takes an offset out of the index only together with a copy  *)
(* of it in the acked list.                                                *)
LEMMA NewOffsetIndex ==
    ASSUME NEW bag \in [Offset -> Nat], NEW gaps \in SUBSET Interval,
           NEW idx \in SUBSET OffsetsIn(bag), NEW committed \in MaybeNext
    PROVE  NewOffset(bag, idx, gaps, committed).index \subseteq
             OffsetsIn(NewOffset(bag, idx, gaps, committed).acked)
<1>1. CASE OffsetsIn(bag) = {}
  BY <1>1 DEF NewOffset
<1>2. CASE OffsetsIn(bag) # {}
  <2> DEFINE full == AbsorbGaps(bag, gaps)
             run  == ConsecutiveRun(full.acked)
             left == [o \in Offset |-> IF o \in run THEN full.acked[o] - 1
                                                    ELSE full.acked[o]]
  <2>1. /\ full.acked \in [Offset -> Nat]
        /\ \A o \in Offset : full.acked[o] >= bag[o]
    BY <1>2, AbsorbGapsType
  <2>2. idx \subseteq OffsetsIn(full.acked)
    BY <2>1 DEF OffsetsIn
  <2>3. idx \ run \subseteq OffsetsIn(left)
    BY <2>2 DEF OffsetsIn
  <2>4. NewOffset(bag, idx, gaps, committed) =
          IF HeadGap(committed, full.acked)
          THEN [acked |-> full.acked, index |-> idx, gap |-> full.gap,
                offset |-> NoOffset]
          ELSE [acked |-> left, index |-> idx \ run, gap |-> full.gap,
                offset |-> Max(run) + 1]
    BY <1>2 DEF NewOffset
  <2> HIDE DEF full, run, left
  <2> QED
    BY <2>2, <2>3, <2>4
<1> QED
  BY <1>1, <1>2

-----------------------------------------------------------------------------
(* Type correctness.                                                       *)

(* The types hold in the beginning.                                        *)
LEMMA InitType == Init => TypeOK
<1> SUFFICES ASSUME Init PROVE TypeOK
  OBVIOUS
<1>1. 0 \in 0..MaxGen /\ 0 \in 0..MaxCrash
  BY ConsumerAssumption
<1>2. NoOffset \in MaybeNext /\ 0 \in NextOffset /\ EmptyBag \in [Offset -> Nat]
  BY LastOffsetAssumption DEF MaybeNext, NextOffset, EmptyBag
<1>3. NoOffsets \in [TP -> MaybeNext] /\ Empty \in [TP -> SUBSET Offset]
  BY <1>2 DEF NoOffsets, Empty
<1>4. gap \in [TP -> SUBSET Interval]
  BY DEF Init, Empty
<1>5. acked \in [TP -> [Offset -> Nat]]
  BY <1>2 DEF Init
<1>6. seeking \in [Seekers -> [TP -> MaybeNext \cup {NotSought}]]
  BY DEF Init
<1>7. queue \in Seq(Message)
  BY DEF Init
<1>8. inflight \in [Workers -> SUBSET Message] /\ position \in [TP -> NextOffset]
  BY <1>2 DEF Init
<1> QED
  BY <1>1, <1>3, <1>4, <1>5, <1>6, <1>7, <1>8 DEF Init, TypeOK, Callers

(* What _filter_committable_offsets computes for each partition.           *)
LEMMA NewType ==
    ASSUME TypeOK, NEW tp \in TP
    PROVE  New(tp) \in [acked : [Offset -> Nat], index : SUBSET Offset,
                        gap : SUBSET Interval, offset : MaybeNext]
  BY NewOffsetType DEF TypeOK, New

(* The position a partition is fetched from is an offset.                  *)
LEMMA StartPositionType ==
    ASSUME TypeOK, NEW tp \in TP
    PROVE  StartPosition(tp) \in NextOffset
  BY LastOffsetAssumption
  DEF TypeOK, StartPosition, MaybeNext, NextOffset, NoOffset

(* commit() keeps the types of the state it changes.                       *)
LEMMA CommitCallType ==
    ASSUME TypeOK, NEW caller \in Callers, CommitCall(caller)
    PROVE  /\ acked' \in [TP -> [Offset -> Nat]]
           /\ ackedIndex' \in [TP -> SUBSET Offset]
           /\ gap' \in [TP -> SUBSET Interval]
           /\ committedOffset' \in [TP -> MaybeNext]
           /\ commitPc' \in {"idle", "attached", "broker"}
           /\ commitOwner' \in Callers \cup {Nobody}
           /\ commitWaiters' \in SUBSET Callers
           /\ commitOffsets' \in [TP -> MaybeNext]
           /\ commitGen' \in 0..MaxGen
<1>1. CASE commitOwner = Nobody
  <2> DEFINE new == [tp \in TP |-> New(tp)]
  <2>1. \A tp \in TP : new[tp] \in [acked : [Offset -> Nat],
            index : SUBSET Offset, gap : SUBSET Interval, offset : MaybeNext]
    BY NewType
  <2>2. Committable(new) \in [TP -> MaybeNext]
    <3> HIDE DEF new
    <3> QED
      BY <2>1 DEF Committable, MaybeNext
  <2>3. /\ IF Committable(new) = NoOffsets
           THEN UNCHANGED <<commitPc, commitOwner, commitOffsets>>
           ELSE /\ commitPc' = "attached"
                /\ commitOwner' = caller
                /\ commitOffsets' = Committable(new)
        /\ acked' = [tp \in TP |-> new[tp].acked]
        /\ ackedIndex' = [tp \in TP |-> new[tp].index]
        /\ gap' = [tp \in TP |-> new[tp].gap]
        /\ UNCHANGED <<commitWaiters, commitGen, committedOffset>>
    BY <1>1, Zenon DEF CommitCall
  <2> HIDE DEF new
  <2> QED
    BY <2>1, <2>2, <2>3 DEF TypeOK
<1>2. CASE commitOwner # Nobody
  BY <1>2 DEF CommitCall, TypeOK, trackVars
<1> QED
  BY <1>1, <1>2

(* perform_seek keeps the types of the state it changes.                   *)
LEMMA SeekType ==
    ASSUME TypeOK, NEW caller \in Seekers
    PROVE  /\ SeekToCommitted(caller) =>
                /\ seeking' \in [Seekers -> [TP -> MaybeNext \cup {NotSought}]]
                /\ position' \in [TP -> NextOffset]
           /\ SeekApply(caller) =>
                /\ seeking' \in [Seekers -> [TP -> MaybeNext \cup {NotSought}]]
                /\ readOffset' \in [TP -> MaybeNext]
                /\ committedOffset' \in [TP -> MaybeNext]
<1>1. ASSUME SeekToCommitted(caller)
      PROVE  /\ seeking' \in [Seekers -> [TP -> MaybeNext \cup {NotSought}]]
             /\ position' \in [TP -> NextOffset]
  BY <1>1, StartPositionType DEF SeekToCommitted, TypeOK
<1>2. ASSUME SeekApply(caller)
      PROVE  /\ seeking' \in [Seekers -> [TP -> MaybeNext \cup {NotSought}]]
             /\ readOffset' \in [TP -> MaybeNext]
             /\ committedOffset' \in [TP -> MaybeNext]
  <2>1. \A tp \in TP : seeking[caller][tp] \in MaybeNext \cup {NotSought}
    BY DEF TypeOK
  <2>2. NoOffset \in MaybeNext
    BY DEF MaybeNext
  <2> QED
    BY <1>2, <2>1, <2>2 DEF SeekApply, TypeOK
<1> QED
  BY <1>1, <1>2

(* ack() keeps the types of the state it changes.                          *)
LEMMA AckType ==
    ASSUME TypeOK, NEW m \in Message, Ack(m)
    PROVE  /\ acked' \in [TP -> [Offset -> Nat]]
           /\ ackedIndex' \in [TP -> SUBSET Offset]
<1>1. m.tp \in TP /\ m.offset \in Offset
  BY DEF Message
<1>2. acked[m.tp] \in [Offset -> Nat] /\ acked[m.tp][m.offset] + 1 \in Nat
  BY <1>1 DEF TypeOK
<1>3. acked \in [TP -> [Offset -> Nat]] /\ ackedIndex \in [TP -> SUBSET Offset]
  BY DEF TypeOK
<1>4. CASE AckCounts(committedOffset[m.tp], ackedIndex[m.tp], m.offset)
  <2>1. /\ ackedIndex' = [ackedIndex EXCEPT ![m.tp] = @ \cup {m.offset}]
        /\ acked' = [acked EXCEPT ![m.tp][m.offset] = @ + 1]
    BY <1>4 DEF Ack
  <2> QED
    BY <1>1, <1>2, <1>3, <2>1
<1>5. CASE ~ AckCounts(committedOffset[m.tp], ackedIndex[m.tp], m.offset)
  BY <1>3, <1>5 DEF Ack
<1> QED
  BY <1>4, <1>5

(* Every step keeps the state well typed.                                  *)
LEMMA NextType == TypeOK /\ [Next]_vars => TypeOK'
<1> SUFFICES ASSUME TypeOK, [Next]_vars PROVE TypeOK'
  OBVIOUS
<1> USE DEF brokerVars, trackVars, flowVars, commitVars, fetchVars, streamVars,
            rebalVars, histVars
<1>0. NoOffsets \in [TP -> MaybeNext] /\ Empty \in [TP -> SUBSET Offset]
  BY DEF NoOffsets, Empty, MaybeNext
<1>1. CASE CommitHandler
  BY <1>1, CommitCallType DEF CommitHandler, TypeOK, Callers
<1>2. CASE CommitAttached
  BY <1>0, <1>2 DEF CommitAttached, CommitEnd, TypeOK, MaybeNext
<1>3. CASE CommitDone
  BY <1>0, <1>3 DEF CommitDone, CommitEnd, TypeOK
<1>4. CASE FetchStart
  BY <1>4 DEF FetchStart, TypeOK
<1>5. CASE FetchReturn
  <2>1. \A upTo : Records(upTo) \in [TP -> SUBSET Offset]
    BY ConsumerAssumption DEF Records
  <2> QED
    BY <1>5, <2>1 DEF FetchReturn, FetchPositions, TypeOK
<1>6. CASE FetchReturnStopped
  BY <1>6, SeekType DEF FetchReturnStopped, TypeOK, Seekers
<1>7. CASE FetcherSeekDone
  BY <1>7, SeekType DEF FetcherSeekDone, TypeOK, Seekers
<1>8. CASE FetchBreak
  BY <1>0, <1>8 DEF FetchBreak, TypeOK
<1>9. ASSUME NEW tp \in TP, FetchNext(tp) PROVE TypeOK'
  <2> DEFINE o == Min(Wanted(tp))
  <2>1. o \in Wanted(tp) /\ Wanted(tp) \in SUBSET Offset
    <3>1. Wanted(tp) \in SUBSET Nat /\ Wanted(tp) \in SUBSET Offset
      BY OffsetIsNat DEF Wanted, TypeOK
    <3>2. Wanted(tp) # {}
      BY <1>9 DEF FetchNext
    <3> QED
      BY <3>1, <3>2, MinExists, Zenon
  <2>2. batch' \in [TP -> SUBSET Offset]
    BY <1>9 DEF FetchNext, TypeOK
  <2>3. NewGap(tp, o) \in SUBSET Interval
    <3>1. o \in Nat /\ o <= LastOffset
      BY <2>1 DEF Offset
    <3>2. readOffset[tp] \in MaybeNext /\ committedOffset[tp] \in MaybeNext
      BY DEF TypeOK
    <3> HIDE DEF o
    <3> QED
      BY <3>1, <3>2, LastOffsetAssumption
      DEF NewGap, HasGap, Truthy, GapInterval, Interval, Offset, NextOffset,
          MaybeNext, NoOffset
  <2>4. gap' \in [TP -> SUBSET Interval]
    BY <1>9, <2>3 DEF FetchNext, TypeOK
  <2>5. current' \in SUBSET Message
    BY <1>9, <2>1 DEF FetchNext, TypeOK, Message
  <2>6. fetchPc' \in {"ready", "merge", "deliver"}
    BY <1>9 DEF FetchNext
  <2> QED
    BY <1>9, <2>2, <2>4, <2>5, <2>6 DEF FetchNext, TypeOK
<1>10. CASE GapMerge
  <2>1. ASSUME NEW gaps \in SUBSET Interval
        PROVE  MergeOverlaps(gaps) \in SUBSET Interval
    BY DEF MergeOverlaps, Interval
  <2>2. PICK m \in current : gap' = [gap EXCEPT ![m.tp] = MergeOverlaps(@)]
    BY <1>10 DEF GapMerge
  <2>3. m.tp \in TP /\ gap[m.tp] \in SUBSET Interval
    BY DEF TypeOK, Message
  <2>4. gap' \in [TP -> SUBSET Interval]
    BY <2>1, <2>2, <2>3 DEF TypeOK
  <2> QED
    BY <1>10, <2>4 DEF GapMerge, TypeOK
<1>11. CASE FetcherCommit
  BY <1>11, CommitCallType DEF FetcherCommit, TypeOK, Callers
<1>12. CASE FetcherCommitReturn
  BY <1>12 DEF FetcherCommitReturn, TypeOK
<1>13. CASE Deliver
  <2>1. PICK m \in current :
          /\ queue' = Append(queue, m) \/ queue' = queue
          /\ readOffset' = [readOffset EXCEPT ![m.tp] = m.offset]
    BY <1>13 DEF Deliver
  <2>2. m \in Message /\ m.offset \in Offset /\ m.tp \in TP
    BY DEF TypeOK, Message
  <2>3. queue' \in Seq(Message)
    <3>1. queue \in Seq(Message)
      BY DEF TypeOK
    <3> QED
      BY <2>1, <2>2, <3>1
  <2>4. m.offset \in MaybeNext
    BY <2>2, LastOffsetAssumption DEF Offset, MaybeNext, NextOffset
  <2>5. /\ readOffset' \in [TP -> MaybeNext] /\ current' \in SUBSET Message
        /\ fetchPc' \in {"off", "idle", "fetching", "seeking", "iterate", "merge",
                         "ready", "committing", "deliver"}
    BY <1>13, <2>1, <2>2, <2>4 DEF Deliver, TypeOK
  <2>6. /\ brokerCommitted' = brokerCommitted /\ position' = position
        /\ assignment' = assignment /\ generation' = generation
        /\ acked' = acked /\ ackedIndex' = ackedIndex /\ gap' = gap
        /\ committedOffset' = committedOffset /\ active' = active
        /\ paused' = paused /\ flowActive' = flowActive /\ commitPc' = commitPc
        /\ commitOwner' = commitOwner /\ commitWaiters' = commitWaiters
        /\ commitOffsets' = commitOffsets /\ commitGen' = commitGen
        /\ batch' = batch /\ batchGen' = batchGen /\ seeking' = seeking
        /\ inflight' = inflight /\ rebalPc' = rebalPc /\ recovPc' = recovPc
        /\ recovGen' = recovGen /\ processed' = processed /\ crashes' = crashes
    BY <1>13 DEF Deliver, brokerVars, trackVars, flowVars, commitVars, rebalVars, histVars
  <2> QED
    BY <2>3, <2>5, <2>6, SMTT(60) DEF TypeOK
<1>14. ASSUME NEW w \in Workers, StreamTake(w) PROVE TypeOK'
  <2>1. Head(queue) \in Message /\ Tail(queue) \in Seq(Message)
    BY <1>14 DEF StreamTake, TypeOK
  <2> QED
    BY <1>14, <2>1 DEF StreamTake, TypeOK
<1>15. ASSUME NEW w \in Workers, StreamSkip(w) PROVE TypeOK'
  <2>1. Head(queue) \in Message /\ Tail(queue) \in Seq(Message)
    BY <1>15 DEF StreamSkip, TypeOK
  <2>2. acked' \in [TP -> [Offset -> Nat]] /\ ackedIndex' \in [TP -> SUBSET Offset]
    BY <1>15, <2>1, AckType DEF StreamSkip, TypeOK
  <2> QED
    BY <1>15, <2>1, <2>2 DEF StreamSkip, TypeOK
<1>16. ASSUME NEW w \in Workers, StreamFinish(w) PROVE TypeOK'
  <2>1. PICK m \in inflight[w] :
          /\ processed' = [processed EXCEPT ![m.tp] = @ \cup {m.offset}]
          /\ Ack(m)
    BY <1>16 DEF StreamFinish
  <2>2. m \in Message
    BY DEF TypeOK
  <2>3. acked' \in [TP -> [Offset -> Nat]] /\ ackedIndex' \in [TP -> SUBSET Offset]
    BY <2>1, <2>2, AckType
  <2>4. processed' \in [TP -> SUBSET Offset]
    BY <2>1, <2>2 DEF TypeOK, Message
  <2> QED
    BY <1>16, <2>3, <2>4 DEF StreamFinish, TypeOK
<1>17. CASE Revoke
  <2>1. /\ EmptyBag \in [Offset -> Nat]
        /\ NoOffset \in MaybeNext
    BY DEF EmptyBag, MaybeNext
  <2>2. /\ gap' \in [TP -> SUBSET Interval]
        /\ acked' \in [TP -> [Offset -> Nat]]
        /\ ackedIndex' \in [TP -> SUBSET Offset]
        /\ readOffset' \in [TP -> MaybeNext]
        /\ committedOffset' \in [TP -> MaybeNext]
    BY <1>17, <2>1 DEF Revoke, Drop, TypeOK
  <2>3. /\ active' \in SUBSET TP
        /\ paused' \in SUBSET TP
        /\ flowActive' \in BOOLEAN
        /\ queue' \in Seq(Message)
        /\ rebalPc' \in {"waitEmpty", "revoked"}
    <3>1. CASE assignment # {}
      <4>1. queue' = <<>>
        BY <1>17, <3>1 DEF Revoke
      <4>2. queue' \in Seq(Message)
        BY <4>1
      <4> QED
        BY <1>17, <3>1, <4>2 DEF Revoke, TypeOK
    <3>2. CASE assignment = {}
      BY <1>17, <3>2 DEF Revoke, TypeOK
    <3> QED
      BY <3>1, <3>2
  <2>4. UNCHANGED <<brokerVars, commitVars, fetchVars, seeking, inflight,
                    recovPc, recovGen, histVars>>
    BY <1>17 DEF Revoke
  <2> QED
    BY <2>1, <2>2, <2>3, <2>4 DEF TypeOK
<1>18. CASE WaitEmptyLoop
  <2>1. /\ acked' \in [TP -> [Offset -> Nat]]
        /\ ackedIndex' \in [TP -> SUBSET Offset]
        /\ gap' \in [TP -> SUBSET Interval]
        /\ committedOffset' \in [TP -> MaybeNext]
        /\ commitPc' \in {"idle", "attached", "broker"}
        /\ commitOwner' \in Callers \cup {Nobody}
        /\ commitWaiters' \in SUBSET Callers
        /\ commitOffsets' \in [TP -> MaybeNext]
        /\ commitGen' \in 0..MaxGen
    <3>1. CASE CommitCall("rebalance")
      BY <3>1, CommitCallType DEF Callers
    <3>2. CASE UNCHANGED <<trackVars, commitVars>>
      BY <3>2 DEF TypeOK
    <3> QED
      BY <1>18, <3>1, <3>2 DEF WaitEmptyLoop
  <2> QED
    BY <1>18, <2>1 DEF WaitEmptyLoop, TypeOK
<1>19. CASE WaitEmptyDone
  <2>1. /\ acked' \in [TP -> [Offset -> Nat]]
        /\ ackedIndex' \in [TP -> SUBSET Offset]
        /\ gap' \in [TP -> SUBSET Interval]
        /\ committedOffset' \in [TP -> MaybeNext]
        /\ commitPc' \in {"idle", "attached", "broker"}
        /\ commitOwner' \in Callers \cup {Nobody}
        /\ commitWaiters' \in SUBSET Callers
        /\ commitOffsets' \in [TP -> MaybeNext]
        /\ commitGen' \in 0..MaxGen
    <3>1. CASE CommitCall("rebalance")
      BY <3>1, CommitCallType DEF Callers
    <3>2. CASE UNCHANGED <<trackVars, commitVars>>
      BY <3>2 DEF TypeOK
    <3> QED
      BY <1>19, <3>1, <3>2 DEF WaitEmptyDone
  <2> QED
    BY <1>19, <2>1 DEF WaitEmptyDone, TypeOK
<1>20. CASE Join
  BY <1>20, StartPositionType, ConsumerAssumption DEF Join, TypeOK
<1>21. CASE OnAssigned
  BY <1>21 DEF OnAssigned, TypeOK
<1>22. CASE SignalRecovery
  BY <1>22 DEF SignalRecovery, TypeOK
<1>23. CASE ResumeStreams
  <2>1. /\ seeking' \in [Seekers -> [TP -> MaybeNext \cup {NotSought}]]
        /\ position' \in [TP -> NextOffset]
    <3>1. CASE SeekToCommitted("recovery")
      BY <3>1, SeekType DEF Seekers
    <3>2. CASE UNCHANGED <<seeking, position>>
      BY <3>2 DEF TypeOK
    <3> QED
      BY <1>23, <3>1, <3>2 DEF ResumeStreams
  <2>2. /\ active' \in SUBSET TP
        /\ paused' \in SUBSET TP
        /\ flowActive' \in BOOLEAN
        /\ recovPc' \in {"idle", "seeking"}
        /\ fetchPc' \in {fetchPc, "idle"}
    BY <1>23 DEF ResumeStreams, TypeOK
  <2> QED
    BY <1>23, <2>1, <2>2 DEF ResumeStreams, TypeOK
<1>24. CASE ResumeFlow
  BY <1>24, SeekType DEF ResumeFlow, TypeOK, Seekers
<1>25. ASSUME NEW tp \in TP, OtherWorker(tp) PROVE TypeOK'
  <2>1. \A o \in Log[tp] : o \in Offset /\ o + 1 \in MaybeNext
    BY ConsumerAssumption, LastOffsetAssumption DEF Offset, MaybeNext, NextOffset
  <2> QED
    BY <1>25, <2>1 DEF OtherWorker, TypeOK
<1>26. CASE Crash
  <2>1. EmptyBag \in [Offset -> Nat] /\ 0 \in 0..MaxGen
    BY ConsumerAssumption DEF EmptyBag
  <2>2. Empty \in [TP -> SUBSET Interval]
    BY DEF Empty
  <2>3. crashes' \in 0..MaxCrash
    BY <1>26, ConsumerAssumption DEF Crash, TypeOK
  <2>4. queue' \in Seq(Message)
    BY <1>26 DEF Crash
  <2> QED
    BY <1>0, <1>26, <2>1, <2>2, <2>3, <2>4 DEF Crash, TypeOK
<1>27. CASE UNCHANGED vars
  BY <1>27 DEF vars, TypeOK
<1> QED
  BY <1>1, <1>2, <1>3, <1>4, <1>5, <1>6, <1>7, <1>8, <1>9, <1>10, <1>11, <1>12,
     <1>13, <1>14, <1>15, <1>16, <1>17, <1>18, <1>19, <1>20, <1>21, <1>22, <1>23,
     <1>24, <1>25, <1>26, <1>27
  DEF Next, Fetcher, Callbacks, Recovery

(* The state of the worker stays well typed: in particular the offset      *)
(* _new_offset hands to the broker always lies in the log, and no counter  *)
(* of the acked list goes below zero.                                      *)
THEOREM TypeCorrect == Spec => []TypeOK
  BY InitType, NextType, PTL DEF Spec

-----------------------------------------------------------------------------
(* The index of acked offsets.  With the types of the state the property   *)
(* is inductive by itself.                                                 *)

(* commit() takes an offset out of the index only with its last copy.      *)
LEMMA CommitCallIndex ==
    ASSUME TypeOK, IndexMirrorsAcked, NEW caller, CommitCall(caller)
    PROVE  IndexMirrorsAcked'
<1>1. CASE commitOwner = Nobody
  <2> DEFINE new == [tp \in TP |-> New(tp)]
  <2>1. /\ acked' = [tp \in TP |-> new[tp].acked]
        /\ ackedIndex' = [tp \in TP |-> new[tp].index]
    BY <1>1, Zenon DEF CommitCall
  <2>2. ASSUME NEW tp \in TP
        PROVE  New(tp).index \subseteq OffsetsIn(New(tp).acked)
    BY NewOffsetIndex DEF New, TypeOK, IndexMirrorsAcked
  <2> QED
    BY <2>1, <2>2 DEF IndexMirrorsAcked
<1>2. CASE commitOwner # Nobody
  BY <1>2 DEF CommitCall, IndexMirrorsAcked, trackVars
<1> QED
  BY <1>1, <1>2

(* ack() enters an offset into both.                                       *)
LEMMA AckIndex ==
    ASSUME TypeOK, IndexMirrorsAcked, NEW m \in Message, Ack(m)
    PROVE  IndexMirrorsAcked'
<1>1. m.tp \in TP /\ m.offset \in Offset
  BY DEF Message
<1>2. /\ acked[m.tp] \in [Offset -> Nat]
      /\ acked \in [TP -> [Offset -> Nat]]
      /\ ackedIndex \in [TP -> SUBSET Offset]
  BY <1>1 DEF TypeOK
<1>3. CASE AckCounts(committedOffset[m.tp], ackedIndex[m.tp], m.offset)
  <2>1. /\ ackedIndex' = [ackedIndex EXCEPT ![m.tp] = @ \cup {m.offset}]
        /\ acked' = [acked EXCEPT ![m.tp][m.offset] = @ + 1]
    BY <1>3 DEF Ack
  <2>2. \A tp \in TP : tp # m.tp => /\ ackedIndex'[tp] = ackedIndex[tp]
                                    /\ acked'[tp] = acked[tp]
    BY <1>2, <2>1
  <2>3. /\ ackedIndex'[m.tp] = ackedIndex[m.tp] \cup {m.offset}
        /\ acked'[m.tp] = [acked[m.tp] EXCEPT ![m.offset] = @ + 1]
    BY <1>1, <1>2, <2>1
  <2>4. OffsetsIn(acked[m.tp]) \cup {m.offset} \subseteq OffsetsIn(acked'[m.tp])
    BY <1>1, <1>2, <2>3 DEF OffsetsIn
  <2> QED
    BY <2>2, <2>3, <2>4 DEF IndexMirrorsAcked
<1>4. CASE ~ AckCounts(committedOffset[m.tp], ackedIndex[m.tp], m.offset)
  BY <1>4 DEF Ack, IndexMirrorsAcked
<1> QED
  BY <1>3, <1>4

(* An offset that ack() would ignore as a repetition is always waiting in  *)
(* the acked list, however acks, commits, rebalances and crashes interleave. *)
THEOREM IndexCorrect == Spec => []IndexMirrorsAcked
<1>1. Init => IndexMirrorsAcked
  BY DEF Init, IndexMirrorsAcked, Empty
<1>2. TypeOK /\ IndexMirrorsAcked /\ [Next]_vars => IndexMirrorsAcked'
  <2> SUFFICES ASSUME TypeOK, IndexMirrorsAcked, [Next]_vars
               PROVE  IndexMirrorsAcked'
    OBVIOUS
  <2>1. CASE UNCHANGED <<acked, ackedIndex>>
    BY <2>1 DEF IndexMirrorsAcked
  <2>2. CASE \E caller \in Callers : CommitCall(caller)
    BY <2>2, CommitCallIndex
  <2>3. CASE \E m \in Message : Ack(m)
    BY <2>3, AckIndex
  <2>4. CASE Revoke
    BY <2>4 DEF Revoke, Drop, IndexMirrorsAcked
  <2>5. CASE Crash
    BY <2>5 DEF Crash, IndexMirrorsAcked, Empty
  <2>6. ASSUME NEW w \in Workers, StreamSkip(w)
        PROVE  IndexMirrorsAcked'
    <3>1. Head(queue) \in Message
      BY <2>6 DEF StreamSkip, TypeOK
    <3> QED
      BY <2>1, <2>3, <2>6, <3>1 DEF StreamSkip
  <2>7. ASSUME NEW w \in Workers, StreamFinish(w)
        PROVE  IndexMirrorsAcked'
    <3>1. inflight[w] \in SUBSET Message
      BY DEF TypeOK
    <3> QED
      BY <2>3, <2>7, <3>1 DEF StreamFinish
  <2>8. CASE CommitHandler \/ FetcherCommit \/ WaitEmptyLoop \/ WaitEmptyDone
    BY <2>1, <2>2, <2>8
    DEF CommitHandler, FetcherCommit, WaitEmptyLoop, WaitEmptyDone, Callers,
        trackVars
  <2>9. CASE \/ CommitAttached \/ CommitDone \/ FetchStart \/ FetchReturn
             \/ FetchReturnStopped \/ FetcherSeekDone \/ FetchBreak
             \/ GapMerge \/ FetcherCommitReturn \/ Deliver
    BY <2>1, <2>9
    DEF CommitAttached, CommitDone, FetchStart, FetchReturn, FetchReturnStopped,
        FetcherSeekDone, FetchBreak, GapMerge, FetcherCommitReturn, Deliver,
        trackVars
  <2>10. CASE Join \/ OnAssigned \/ SignalRecovery \/ ResumeStreams \/ ResumeFlow
    BY <2>1, <2>10
    DEF Join, OnAssigned, SignalRecovery, ResumeStreams, ResumeFlow, trackVars
  <2>11. CASE \/ \E tp \in TP : FetchNext(tp) \/ OtherWorker(tp)
              \/ \E w \in Workers : StreamTake(w)
    BY <2>1, <2>11 DEF FetchNext, OtherWorker, StreamTake, trackVars
  <2>12. CASE UNCHANGED vars
    BY <2>1, <2>12 DEF vars, trackVars
  <2> QED
    BY <2>4, <2>5, <2>6, <2>7, <2>8, <2>9, <2>10, <2>11, <2>12
    DEF Next, Fetcher, Callbacks, Recovery
<1> QED
  BY <1>1, <1>2, TypeCorrect, PTL DEF Spec

-----------------------------------------------------------------------------
(* Draining before the next generation.  A message can only be taken by an *)
(* agent while the flow is active, so it is enough that a rebalance finds  *)
(* the flow stopped from the revoke until the streams are resumed, and     *)
(* that wait_empty is passed with no message in an agent.                  *)
Drained == \A w \in Workers : inflight[w] = {}

(* The inductive invariant.                                                *)
DrainInv ==
    /\ DrainedBeforeJoin
    /\ rebalPc \in {"finalCommit", "revoked", "joined", "assigned"} => Drained
    /\ rebalPc # "stable" => ~flowActive
    /\ recovPc # "idle" => rebalPc = "stable"
    /\ rebalPc \in {"joined", "assigned", "stable"} => assignment # {}

(* The invariant holds in the beginning.                                   *)
LEMMA DrainInit == Init => DrainInv
  BY DEF Init, DrainInv, Drained, DrainedBeforeJoin

(* Agents are given no event while the flow is stopped, and only lose one. *)
LEMMA DrainStreams ==
    ASSUME TypeOK, DrainInv, NEW w \in Workers,
           StreamTake(w) \/ StreamSkip(w) \/ StreamFinish(w)
    PROVE  DrainInv'
<1> USE DEF brokerVars, flowVars, rebalVars, streamVars
<1>1. UNCHANGED <<rebalPc, recovPc, assignment, flowActive, generation>>
  BY DEF StreamTake, StreamSkip, StreamFinish
<1>2. inflight \in [Workers -> SUBSET Message]
  BY DEF TypeOK
<1>3. CASE StreamTake(w)
  <2>1. flowActive /\ Head(queue).gen = generation
    BY <1>3 DEF StreamTake, Stale
  <2>2. \A v \in Workers : inflight'[v] = inflight[v] \/ inflight'[v] = {Head(queue)}
    BY <1>2, <1>3 DEF StreamTake
  <2>3. DrainedBeforeJoin'
    BY <1>1, <2>1, <2>2 DEF DrainedBeforeJoin, DrainInv
  <2>4. rebalPc = "stable"
    BY <2>1 DEF DrainInv
  <2> QED
    BY <1>1, <2>3, <2>4 DEF DrainInv
<1>4. CASE StreamSkip(w) \/ StreamFinish(w)
  <2>1. \A v \in Workers : inflight'[v] = inflight[v] \/ inflight'[v] = {}
    BY <1>2, <1>4 DEF StreamSkip, StreamFinish
  <2> QED
    BY <1>1, <2>1 DEF DrainInv, Drained, DrainedBeforeJoin
<1> QED
  BY <1>3, <1>4

(* Every step keeps it.                                                    *)
LEMMA DrainNext ==
    ASSUME StreamWaitEmpty, ~RebalanceAgain, ~MayIdle
    PROVE  TypeOK /\ DrainInv /\ [Next]_vars => DrainInv'
<1> SUFFICES ASSUME TypeOK, DrainInv, [Next]_vars
             PROVE  DrainInv'
  OBVIOUS
<1> USE DEF brokerVars, flowVars, rebalVars, streamVars
<1>1. CASE UNCHANGED <<generation, inflight, rebalPc, flowActive, recovPc, assignment>>
  BY <1>1 DEF DrainInv, Drained, DrainedBeforeJoin
<1>2. CASE Revoke
  <2>1. assignment # {}
    BY <1>2 DEF Revoke, DrainInv
  <2>2. ~flowActive' /\ rebalPc' = "waitEmpty" /\ recovPc' = "idle"
    BY <1>2, <2>1 DEF Revoke
  <2> QED
    BY <1>2, <2>2 DEF Revoke, DrainInv, DrainedBeforeJoin
<1>3. CASE WaitEmptyLoop
  BY <1>3 DEF WaitEmptyLoop, DrainInv, Drained, DrainedBeforeJoin
<1>4. CASE WaitEmptyDone
  <2>1. Unacked = {} => Drained
    BY DEF Unacked, Drained
  <2> QED
    BY <1>4, <2>1 DEF WaitEmptyDone, DrainInv, Drained, DrainedBeforeJoin
<1>5. CASE Join
  <2>1. Drained
    BY <1>5 DEF Join, DrainInv
  <2>2. rebalPc' = "joined" /\ assignment' # {}
    BY <1>5 DEF Join
  <2> QED
    BY <1>5, <2>1, <2>2 DEF Join, DrainInv, Drained, DrainedBeforeJoin
<1>6. CASE OnAssigned \/ SignalRecovery
  BY <1>6 DEF OnAssigned, SignalRecovery, DrainInv, Drained, DrainedBeforeJoin
<1>7. CASE ResumeStreams \/ ResumeFlow
  BY <1>7 DEF ResumeStreams, ResumeFlow, DrainInv, Drained, DrainedBeforeJoin
<1>8. CASE Crash
  BY <1>8 DEF Crash, DrainInv, Drained, DrainedBeforeJoin
<1>9. ASSUME NEW w \in Workers, StreamTake(w) \/ StreamSkip(w) \/ StreamFinish(w)
      PROVE  DrainInv'
  BY <1>9, DrainStreams
<1>10. CASE \/ CommitHandler \/ CommitAttached \/ CommitDone \/ FetcherCommit
            \/ FetchStart \/ FetchReturn \/ FetchReturnStopped
            \/ FetcherSeekDone \/ FetchBreak \/ GapMerge
            \/ FetcherCommitReturn \/ Deliver
  BY <1>1, <1>10
  DEF CommitHandler, CommitAttached, CommitDone, FetcherCommit, FetchStart,
      FetchReturn, FetchReturnStopped, FetcherSeekDone, FetchBreak, GapMerge,
      FetcherCommitReturn, Deliver
<1>11. CASE \E tp \in TP : FetchNext(tp) \/ OtherWorker(tp)
  BY <1>1, <1>11 DEF FetchNext, OtherWorker
<1>12. CASE UNCHANGED vars
  BY <1>1, <1>12 DEF vars
<1> QED
  BY <1>2, <1>3, <1>4, <1>5, <1>6, <1>7, <1>8, <1>9, <1>10, <1>11, <1>12
  DEF Next, Fetcher, Callbacks, Recovery

(* With conf.stream_wait_empty, when no rebalance starts before the flow   *)
(* was resumed after the one before and every generation gives the worker  *)
(* a partition: an agent is never busy with a message of an older          *)
(* generation than the worker's own.                                       *)
THEOREM DrainCorrect ==
    ASSUME StreamWaitEmpty, ~RebalanceAgain, ~MayIdle
    PROVE  Spec => []DrainedBeforeJoin
<1>1. DrainInv => DrainedBeforeJoin
  BY DEF DrainInv
<1> QED
  BY <1>1, DrainInit, DrainNext, TypeCorrect, PTL DEF Spec

-----------------------------------------------------------------------------
(* An interval is a pair of numbers.                                       *)
LEMMA IntervalPair ==
    ASSUME NEW g \in Interval
    PROVE  /\ g[1] \in Offset /\ g[2] \in NextOffset
           /\ g[1] \in Nat /\ g[2] \in Nat
           /\ g = <<g[1], g[2]>>
<1>1. PICK a \in Offset, b \in NextOffset : g = <<a, b>>
  BY DEF Interval
<1> QED
  BY <1>1, OffsetIsNat

(* The interval that begins last is one of them.                           *)
LEMMA LastInterval ==
    ASSUME NEW cand \in SUBSET Interval, cand # {}
    PROVE  (CHOOSE g \in cand : \A h \in cand : h[1] <= g[1]) \in cand
<1> DEFINE B == {g[1] : g \in cand}
<1>1. B \in SUBSET (0..LastOffset) /\ B # {}
  BY DEF Interval, Offset
<1>2. Max(B) \in B /\ \A b \in B : Max(B) >= b
  BY <1>1, MaxExists, LastOffsetAssumption, Zenon
<1>3. PICK g \in cand : g[1] = Max(B)
  BY <1>2
<1>4. \A h \in cand : h[1] \in Nat /\ h[1] \in B
  BY <1>1 DEF Interval, Offset
<1>5. \A h \in cand : h[1] <= g[1]
  BY <1>2, <1>3, <1>4
<1> QED
  BY <1>5, Zenon

-----------------------------------------------------------------------------
(* _new_offset and the gaps.                                               *)

(* Intervals that hold no acked offset inside.                             *)
Clear(gaps, offsets) ==
    \A g \in gaps : g[1] < g[2] /\ \A a \in offsets : a <= g[1] \/ g[2] - 1 <= a

(* Intervals that do not overlap.                                          *)
Disjoint(gaps) == \A g, h \in gaps : g = h \/ g[2] <= h[1] \/ h[2] <= g[1]

(* What is left of an interval that is cut at n.                           *)
CutAt(g, n) == <<IF g[1] < n THEN n ELSE g[1], g[2]>>

(* Absorbing gaps does not go beyond the greatest acked offset, and leaves *)
(* only gaps behind it.                                                    *)
LEMMA AbsorbGapsClear ==
    ASSUME NEW bag \in [Offset -> Nat], OffsetsIn(bag) # {},
           NEW gaps \in SUBSET Interval, Clear(gaps, OffsetsIn(bag)),
           NEW full, full = AbsorbGaps(bag, gaps),
           NEW top, top = Max(OffsetsIn(bag))
    PROVE  /\ \A x \in OffsetsIn(full.acked) :
                 /\ x <= top
                 /\ x \in OffsetsIn(bag) \/ \E g \in gaps : Covers(g, x)
           /\ \/ /\ full.gap = gaps
                 /\ OffsetsIn(full.acked) \subseteq OffsetsIn(bag)
              \/ \E n \in Nat :
                   /\ top < n
                   /\ \A h \in full.gap : /\ h[1] < h[2] /\ n <= h[1]
                                          /\ \E g \in gaps : h = CutAt(g, n)
<1> DEFINE cand  == Overlap(gaps, top)
           last  == CHOOSE g \in cand : \A h \in cand : h[1] <= g[1]
           limit == IF last[2] - 1 > top + 1 THEN last[2] - 1 ELSE top + 1
           added(o) == Cardinality({g \in cand : Covers(g, o)})
           sum   == [o \in Offset |-> bag[o] + added(o)]
           rest  == IF cand = {} THEN gaps ELSE Chop(gaps, limit)
<1>1. full.acked = sum /\ full.gap = rest
  BY DEF AbsorbGaps
<1>2. cand \in SUBSET gaps
  BY DEF Overlap
<1>3. top \in OffsetsIn(bag) /\ top \in Nat /\ \A o \in OffsetsIn(bag) : top >= o
  BY OffsetsInBounds, OffsetIsNat DEF OffsetsIn
<1>4. \A g \in gaps : g[1] \in Nat /\ g[2] \in Nat
  BY OffsetIsNat DEF Interval
<1>5. \A g \in cand : g[2] - 1 <= top
  BY <1>2, <1>3, <1>4 DEF Clear, Overlap
<1>6. ASSUME NEW x \in Offset, sum[x] > 0
      PROVE  /\ x <= top
             /\ x \in OffsetsIn(bag) \/ \E g \in cand : Covers(g, x)
  <2>1. x \in Nat /\ bag[x] \in Nat
    BY OffsetIsNat
  <2>2. CASE bag[x] > 0
    BY <1>3, <2>1, <2>2 DEF OffsetsIn
  <2>3. CASE bag[x] = 0
    <3>1. added(x) # 0
      BY <1>6, <2>3
    <3>2. {g \in cand : Covers(g, x)} # {}
      BY <3>1, FS_EmptySet
    <3>3. PICK g \in cand : Covers(g, x)
      BY <3>2
    <3>4. g[2] - 1 <= top /\ g[2] \in Nat /\ x < g[2]
      BY <1>2, <1>4, <1>5, <3>3 DEF Covers
    <3> HIDE DEF cand
    <3> QED
      BY <1>3, <2>1, <3>3, <3>4
  <2> QED
    BY <2>1, <2>2, <2>3
<1>7. \A x \in OffsetsIn(full.acked) :
         /\ x <= top
         /\ x \in OffsetsIn(bag) \/ \E g \in gaps : Covers(g, x)
  BY <1>1, <1>2, <1>6 DEF OffsetsIn
<1>8. CASE cand = {}
  <2>1. full.gap = gaps
    BY <1>1, <1>8
  <2>2. OffsetsIn(full.acked) \subseteq OffsetsIn(bag)
    BY <1>1, <1>6, <1>8 DEF OffsetsIn
  <2> QED
    BY <1>7, <2>1, <2>2, Zenon
<1>9. CASE cand # {}
  <2>1. last \in cand
    BY <1>2, <1>9, LastInterval
  <2>2. limit \in Nat /\ top < limit
    <3>1. last[2] \in Nat
      BY <1>2, <1>4, <2>1
    <3> HIDE DEF last
    <3> QED
      BY <1>3, <3>1
  <2>3. ASSUME NEW n \in Nat, NEW h \in Chop(gaps, n)
        PROVE  h[1] < h[2] /\ n <= h[1] /\ \E g \in gaps : h = CutAt(g, n)
    <3>1. CASE h \in gaps /\ n <= h[1]
      <4>1. h = <<h[1], h[2]>>
        BY <3>1 DEF Interval
      <4>2. h = CutAt(h, n)
        BY <1>4, <3>1, <4>1 DEF CutAt
      <4> QED
        BY <3>1, <4>2 DEF Clear
    <3>2. ASSUME NEW g \in gaps, g[1] < n, n < g[2], h = <<n, g[2]>>
          PROVE  h[1] < h[2] /\ n <= h[1] /\ \E k \in gaps : h = CutAt(k, n)
      BY <1>4, <3>2 DEF CutAt
    <3> QED
      BY <3>1, <3>2 DEF Chop
  <2>4. rest = Chop(gaps, limit)
    BY <1>9
  <2> HIDE DEF sum, rest, limit, cand
  <2>5. \A h \in full.gap : /\ h[1] < h[2] /\ limit <= h[1]
                            /\ \E g \in gaps : h = CutAt(g, limit)
    BY <1>1, <2>2, <2>3, <2>4
  <2> QED
    BY <1>7, <2>2, <2>5, Zenon
<1> QED
  BY <1>8, <1>9

(* What _new_offset leaves in the acked list lies below an acked offset or *)
(* in a gap below one, and so does the offset it returns; the gaps it      *)
(* leaves are still clear of acked offsets and disjoint.                   *)
Trimmed(bag, gaps, new) ==
    /\ \A x \in OffsetsIn(new.acked) :
          /\ \E y \in OffsetsIn(bag) : x <= y
          /\ x \in OffsetsIn(bag) \/ \E g \in gaps : Covers(g, x)
    /\ new.offset # NoOffset => \E y \in OffsetsIn(bag) : new.offset <= y + 1
    /\ \A h \in new.gap : \E g \in gaps : g[1] <= h[1] /\ h[2] = g[2]
    /\ Clear(new.gap, OffsetsIn(new.acked))
    /\ Disjoint(new.gap)

(* _new_offset keeps the gaps clear and disjoint: what it leaves of a gap  *)
(* is cut at the new offset, and it adds no acked offset beyond the        *)
(* greatest.                                                               *)
LEMMA NewOffsetClear ==
    ASSUME NEW bag \in [Offset -> Nat], NEW idx \in SUBSET Offset,
           NEW gaps \in SUBSET Interval, NEW committed \in MaybeNext,
           Clear(gaps, OffsetsIn(bag)), Disjoint(gaps)
    PROVE  Trimmed(bag, gaps, NewOffset(bag, idx, gaps, committed))
<1> SUFFICES ASSUME NEW new, new = NewOffset(bag, idx, gaps, committed)
             PROVE  Trimmed(bag, gaps, new)
  OBVIOUS
<1> USE DEF Trimmed
<1>1. CASE OffsetsIn(bag) = {}
  <2>1. new = [acked |-> bag, index |-> idx, gap |-> gaps, offset |-> NoOffset]
    BY <1>1 DEF NewOffset
  <2>2. \A h \in gaps : h[1] \in Nat
    BY IntervalPair
  <2>3. \A h \in gaps : \E g \in gaps : g[1] <= h[1] /\ h[2] = g[2]
    BY <2>2
  <2>4. new.acked = bag /\ new.gap = gaps /\ new.offset = NoOffset
    BY <2>1
  <2> QED
    BY <1>1, <2>3, <2>4
<1>2. CASE OffsetsIn(bag) # {}
  <2> DEFINE full == AbsorbGaps(bag, gaps)
             run  == ConsecutiveRun(full.acked)
             left == [o \in Offset |-> IF o \in run THEN full.acked[o] - 1
                                                    ELSE full.acked[o]]
             top  == Max(OffsetsIn(bag))
  <2>1. /\ full.acked \in [Offset -> Nat] /\ full.gap \in SUBSET Interval
        /\ \A o \in Offset : full.acked[o] >= bag[o]
    BY <1>2, AbsorbGapsType
  <2>2. OffsetsIn(full.acked) # {}
    BY <1>2, <2>1 DEF OffsetsIn
  <2>3. Max(run) \in run /\ run \subseteq OffsetsIn(full.acked)
    <3>1. Max(run) \in run
      BY <2>1, <2>2, RunExists
    <3> QED
      BY <3>1 DEF ConsecutiveRun
  <2>4. OffsetsIn(left) \subseteq OffsetsIn(full.acked)
    BY <2>1 DEF OffsetsIn
  <2>5. new = IF HeadGap(committed, full.acked)
              THEN [acked |-> full.acked, index |-> idx, gap |-> full.gap,
                    offset |-> NoOffset]
              ELSE [acked |-> left, index |-> idx \ run, gap |-> full.gap,
                    offset |-> Max(run) + 1]
    BY <1>2 DEF NewOffset
  <2>6. top \in OffsetsIn(bag) /\ top \in Nat
    BY <1>2, OffsetsInBounds, OffsetIsNat DEF OffsetsIn
  <2>7. /\ \A x \in OffsetsIn(full.acked) :
              /\ x <= top
              /\ x \in OffsetsIn(bag) \/ \E g \in gaps : Covers(g, x)
        /\ \/ /\ full.gap = gaps
              /\ OffsetsIn(full.acked) \subseteq OffsetsIn(bag)
           \/ \E n \in Nat :
                /\ top < n
                /\ \A h \in full.gap : /\ h[1] < h[2] /\ n <= h[1]
                                       /\ \E g \in gaps : h = CutAt(g, n)
    BY <1>2, AbsorbGapsClear
  <2>8. /\ new.gap = full.gap
        /\ OffsetsIn(new.acked) \subseteq OffsetsIn(full.acked)
        /\ new.offset # NoOffset => new.offset = Max(run) + 1
    <3> HIDE DEF full, run, left
    <3> QED
      BY <2>4, <2>5
  <2>9. Max(run) <= top /\ Max(run) \in Nat
    <3>1. Max(run) \in OffsetsIn(full.acked)
      BY <2>3
    <3> QED
      BY <2>7, <3>1, OffsetIsNat DEF OffsetsIn
  <2>10. OffsetsIn(full.acked) \subseteq Nat
    BY OffsetIsNat DEF OffsetsIn
  <2>11. \A g \in gaps : g[1] \in Nat /\ g[2] \in Nat
    BY OffsetIsNat DEF Interval
  <2> HIDE DEF full, run, left, top
  <2>12. new.offset # NoOffset => \E y \in OffsetsIn(bag) : new.offset <= y + 1
    BY <2>6, <2>8, <2>9
  <2>13. CASE full.gap = gaps /\ OffsetsIn(full.acked) \subseteq OffsetsIn(bag)
    <3>1. Clear(new.gap, OffsetsIn(new.acked)) /\ Disjoint(new.gap)
      BY <2>8, <2>13 DEF Clear
    <3>2. \A h \in new.gap : \E g \in gaps : g[1] <= h[1] /\ h[2] = g[2]
      BY <2>8, <2>11, <2>13
    <3> QED
      BY <2>6, <2>7, <2>8, <2>12, <3>1, <3>2
  <2>14. ASSUME NEW n \in Nat, top < n,
                \A h \in full.gap : /\ h[1] < h[2] /\ n <= h[1]
                                    /\ \E g \in gaps : h = CutAt(g, n)
         PROVE  /\ Clear(new.gap, OffsetsIn(new.acked)) /\ Disjoint(new.gap)
                /\ \A h \in new.gap : \E g \in gaps : g[1] <= h[1] /\ h[2] = g[2]
    <3>1. \A h \in new.gap : h[1] \in Nat /\ h[2] \in Nat
      <4>1. new.gap \in SUBSET Interval
        BY <2>1, <2>8
      <4> QED
        BY <4>1, OffsetIsNat DEF Interval
    <3>2. Clear(new.gap, OffsetsIn(new.acked))
      BY <2>6, <2>7, <2>8, <2>10, <2>14, <3>1 DEF Clear
    <3>3. \A h \in new.gap : \E g \in gaps : /\ h = CutAt(g, n)
                                             /\ g[1] <= h[1] /\ h[2] = g[2]
      BY <2>8, <2>11, <2>14 DEF CutAt
    <3>4. Disjoint(new.gap)
      <4> SUFFICES ASSUME NEW h \in new.gap, NEW k \in new.gap
                   PROVE  h = k \/ h[2] <= k[1] \/ k[2] <= h[1]
        BY DEF Disjoint
      <4>1. PICK g \in gaps : h = CutAt(g, n) /\ g[1] <= h[1] /\ h[2] = g[2]
        BY <3>3
      <4>2. PICK f \in gaps : k = CutAt(f, n) /\ f[1] <= k[1] /\ k[2] = f[2]
        BY <3>3
      <4>3. g = f \/ g[2] <= f[1] \/ f[2] <= g[1]
        BY DEF Disjoint
      <4> QED
        BY <2>11, <3>1, <4>1, <4>2, <4>3
    <3> QED
      BY <3>2, <3>3, <3>4
  <2> QED
    BY <2>6, <2>7, <2>8, <2>12, <2>13, <2>14
<1> QED
  BY <1>1, <1>2

(* Intervals that are disjoint are left alone.                             *)
LEMMA MergeDisjoint ==
    ASSUME NEW gaps \in SUBSET Interval, Disjoint(gaps),
           \A g \in gaps : g[1] < g[2]
    PROVE  MergeOverlaps(gaps) \subseteq gaps
<1> SUFFICES ASSUME NEW m \in MergeOverlaps(gaps) PROVE m \in gaps
  OBVIOUS
<1>1. \A g \in gaps : g[1] \in Nat /\ g[2] \in Nat /\ g = <<g[1], g[2]>>
  <2> SUFFICES ASSUME NEW g \in gaps
               PROVE  g[1] \in Nat /\ g[2] \in Nat /\ g = <<g[1], g[2]>>
    OBVIOUS
  <2> QED
    BY IntervalPair
<1>2. /\ m[1] \in Nat /\ m[2] \in Nat /\ m = <<m[1], m[2]>>
      /\ \A x \in (m[1] + 1)..(m[2] - 1) : \E g \in gaps : g[1] < x /\ x < g[2]
  BY <1>1 DEF MergeOverlaps
<1>3. PICK g \in gaps : g[1] = m[1] /\ g[2] <= m[2]
  BY DEF MergeOverlaps
<1>4. g[2] = m[2]
  <2> SUFFICES ASSUME g[2] < m[2] PROVE FALSE
    BY <1>1, <1>2, <1>3
  <2>1. g[2] \in (m[1] + 1)..(m[2] - 1)
    BY <1>1, <1>2, <1>3
  <2>2. PICK h \in gaps : h[1] < g[2] /\ g[2] < h[2]
    BY <1>2, <2>1
  <2>3. h = g \/ h[2] <= g[1] \/ g[2] <= h[1]
    BY DEF Disjoint
  <2> QED
    BY <1>1, <2>2, <2>3
<1> QED
  BY <1>1, <1>2, <1>3, <1>4
-----------------------------------------------------------------------------
(* At-least-once.  The property rests on the order of the pipeline: what a *)
(* partition has been read up to is either settled (in H) or still on its  *)
(* way, in an agent, in the queue, with the fetcher or in the batch, in    *)
(* this order.  So when a message is acked everything before it is settled, *)
(* and a hole that was read over contains no message.  H is the set of     *)
(* settled offsets by partition: those processed here, those whose         *)
(* attached messages are kept or sent in Attachments.                      *)

(* One agent task, events skipped without an ack, and rebalances that find *)
(* the worker at rest.                                                     *)
Orderly ==
    /\ \A v, w \in Workers : v = w
    /\ Cython /\ StreamWaitEmpty
    /\ ~RebalanceAgain /\ ~SlowFetcher /\ ~MayIdle

(* Every message of the partition below n is settled.                      *)
Done(H, tp, n) == \A x \in Log[tp] : x < n => x \in H[tp]

(* Where a message can be on its way.                                      *)
InAgent(tp, x) ==
    \E w \in Workers : \E m \in inflight[w] : m.tp = tp /\ m.offset = x
(* In the queue of the streams, in front of place i.                       *)
QueuedBefore(tp, x, i) ==
    \E j \in 1..(i - 1) : queue[j] = [tp |-> tp, offset |-> x, gen |-> generation]
(* In the queue of the streams.                                            *)
Queued(tp, x) == QueuedBefore(tp, x, Len(queue) + 1)
(* In the hands of the fetcher.                                            *)
Held(tp, x) == \E m \in current : m.tp = tp /\ m.offset = x
(* In the batch the fetcher iterates over, if it is of this generation.    *)
Batched(tp) == IF batchGen = generation THEN batch[tp] ELSE {}

(* Where the fetcher may hold a message.                                   *)
Holding == {"merge", "ready", "committing", "deliver"}
(* Where the rebalance is once the new generation is known.                *)
NewGeneration == {"joined", "assigned", "stable"}

(* Only messages of the log are read, and the fetcher holds one at most.   *)
FetchInv ==
    /\ \A tp \in TP : batch[tp] \subseteq Log[tp]
    /\ \A m \in current : m.offset \in Log[m.tp]
    /\ \A i \in 1..Len(queue) : queue[i].offset \in Log[queue[i].tp]
    /\ \A w \in Workers : \A m \in inflight[w] : m.offset \in Log[m.tp]
    /\ fetchPc \notin Holding \cup {"iterate"} => batch = Empty
    /\ fetchPc \notin Holding => current = {}
    /\ \A m, n \in current : m = n
    /\ \A w \in Workers : \A m, n \in inflight[w] : m = n

(* What a rebalance leaves of the generation before it.                    *)
PhaseInv ==
    /\ flowActive => recovPc = "idle" /\ active = assignment
    /\ recovPc # "idle" => recovGen = generation /\ ~flowActive
    /\ recovPc = "seeking" => active = assignment /\ FetcherAtRest
    /\ active \subseteq assignment
    /\ rebalPc \notin {"assigned", "stable"} => active = {}
    /\ batchGen <= generation
    /\ \A m \in current : m.gen <= generation
    /\ \A i \in 1..Len(queue) : queue[i].gen <= generation
    /\ (rebalPc \in NewGeneration /\ ~flowActive) =>
          /\ batchGen # generation
          /\ \A m \in current : m.gen # generation
          /\ \A i \in 1..Len(queue) : queue[i].gen # generation
    /\ flowActive =>
          /\ fetchPc # "seeking"
          /\ \A m \in current : m.gen = generation /\ m.tp \in assignment
          /\ \A i \in 1..Len(queue) :
                queue[i].gen = generation => queue[i].tp \in assignment

(* While the flow is active, the messages between the read offset and the  *)
(* position are with the fetcher.                                          *)
ReadInv ==
    flowActive => \A tp \in assignment :
        /\ readOffset[tp] <= position[tp]
        /\ \A x \in Batched(tp) : x < position[tp]
        /\ \A m \in current : m.tp = tp =>
              /\ readOffset[tp] <= m.offset /\ m.offset < position[tp]
              /\ \A x \in Batched(tp) : m.offset < x
        /\ \A x \in Log[tp] : (readOffset[tp] < x /\ x < position[tp]) =>
              x \in Batched(tp) \/ Held(tp, x)

(* n is not beyond what was read of the partition.                         *)
Reached(tp, n) ==
    /\ flowActive /\ tp \in assignment
    /\ n <= readOffset[tp] \/ \E m \in current : m.tp = tp /\ n <= m.offset

(* A gap interval ends with the message that showed the hole and has no    *)
(* other message in it but its first; no acked offset lies inside it.      *)
GapInv ==
    \A tp \in TP :
        /\ Clear(gap[tp], Log[tp] \cup OffsetsIn(acked[tp]))
        /\ Disjoint(gap[tp])
        /\ \A g \in gap[tp] : Reached(tp, g[2] - 1)
        /\ \A a \in OffsetsIn(acked[tp]) : a \in Log[tp] \/ Reached(tp, a)

(* What is committed, about to be, or acked comes after settled messages;  *)
(* so does what an agent is busy with.                                     *)
SettledOffsets(H) ==
    \A tp \in TP : /\ Done(H, tp, brokerCommitted[tp])
                   /\ Done(H, tp, commitOffsets[tp])
                   /\ \A a \in OffsetsIn(acked[tp]) : Done(H, tp, a + 1)

(* What an agent is busy with comes after settled messages.                *)
SettledAgents(H) ==
    \A w \in Workers : \A m \in inflight[w] : Done(H, m.tp, m.offset)

(* The position the streams will be resumed at.                            *)
SettledSeek(H) ==
    recovPc = "seeking" => \A tp \in assignment :
        /\ Done(H, tp, position[tp])
        /\ \/ seeking["recovery"][tp] = position[tp]
           \/ seeking["recovery"][tp] = NoOffset /\ position[tp] = 0

(* What is committed, acked, sought or processed comes after settled       *)
(* messages.                                                               *)
SettledInv(H) == SettledOffsets(H) /\ SettledAgents(H) /\ SettledSeek(H)

(* What comes before a message on its way is settled or further on.        *)
Ahead(H, tp, x) == x \in H[tp] \/ InAgent(tp, x) \/ Queued(tp, x)

(* What comes before a message in the queue is settled, in an agent, or in *)
(* the queue in front of it.                                               *)
OrderQueue(H) ==
    flowActive => \A i \in 1..Len(queue) : queue[i].gen = generation =>
        \A x \in Log[queue[i].tp] : x < queue[i].offset =>
            \/ x \in H[queue[i].tp] \/ InAgent(queue[i].tp, x)
            \/ QueuedBefore(queue[i].tp, x, i)

(* What comes before the message the fetcher holds is further on.          *)
OrderHeld(H) ==
    flowActive => \A m \in current : \A x \in Log[m.tp] :
        x < m.offset => Ahead(H, m.tp, x)

(* What comes before the position is settled or in the pipeline.            *)
OrderRead(H) ==
    flowActive => \A tp \in assignment : \A x \in Log[tp] :
        x < position[tp] => \/ Ahead(H, tp, x) \/ Held(tp, x)
                            \/ x \in Batched(tp) /\ readOffset[tp] <= x

(* The order of the pipeline.                                              *)
OrderInv(H) == OrderQueue(H) /\ OrderHeld(H) /\ OrderRead(H)

(* The inductive invariant.                                                *)
PipeInv(H) ==
    /\ DrainInv /\ FetchInv /\ PhaseInv /\ ReadInv /\ GapInv
    /\ SettledInv(H) /\ OrderInv(H)

(* What is left of a queue when its head is taken.                         *)
LEMMA TailFacts ==
    ASSUME NEW S, NEW s \in Seq(S), s # <<>>
    PROVE  /\ Len(s) \in Nat /\ 0 < Len(s)
           /\ Head(s) = s[1] /\ s[1] \in S
           /\ Len(Tail(s)) = Len(s) - 1
           /\ \A i \in 1..Len(Tail(s)) : i + 1 \in 1..Len(s) /\ Tail(s)[i] = s[i + 1]
  OBVIOUS

(* The elements of a sequence with one appended.                           *)
LEMMA AppendFacts ==
    ASSUME NEW S, NEW s \in Seq(S), NEW m \in S
    PROVE  /\ Len(s) \in Nat
           /\ Len(Append(s, m)) = Len(s) + 1
           /\ \A i \in 1..Len(s) : Append(s, m)[i] = s[i]
           /\ Append(s, m)[Len(s) + 1] = m
  OBVIOUS

-----------------------------------------------------------------------------
(* FetchInv holds at the start.                                            *)
LEMMA FetchInvInit == Init => FetchInv
  BY DEF Init, FetchInv, Empty, Holding

(* What a stream takes or finishes is a message of the log.                *)
LEMMA FetchInvStreams ==
    ASSUME TypeOK, FetchInv, NEW w \in Workers,
           StreamTake(w) \/ StreamSkip(w) \/ StreamFinish(w)
    PROVE  FetchInv'
<1>1. UNCHANGED <<batch, current, fetchPc>>
  BY DEF StreamTake, StreamSkip, StreamFinish, fetchVars
<1>2. queue \in Seq(Message) /\ inflight \in [Workers -> SUBSET Message]
  BY DEF TypeOK
<1>3. CASE StreamFinish(w)
  <2>1. queue' = queue /\ \A v \in Workers : inflight'[v] \subseteq inflight[v]
    BY <1>2, <1>3 DEF StreamFinish
  <2> QED
    BY <1>1, <2>1 DEF FetchInv
<1>4. CASE StreamTake(w) \/ StreamSkip(w)
  <2>1. queue # <<>> /\ queue' = Tail(queue)
    BY <1>4 DEF StreamTake, StreamSkip
  <2>2. \A i \in 1..Len(queue') : queue'[i].offset \in Log[queue'[i].tp]
    BY <1>2, <2>1, TailFacts DEF FetchInv
  <2>3. Head(queue).offset \in Log[Head(queue).tp]
    BY <1>2, <2>1, TailFacts DEF FetchInv
  <2>4. \A v \in Workers : inflight'[v] = inflight[v] \/ inflight'[v] = {Head(queue)}
    BY <1>2, <1>4 DEF StreamTake, StreamSkip
  <2> QED
    BY <1>1, <2>2, <2>3, <2>4 DEF FetchInv
<1> QED
  BY <1>3, <1>4

(* The fetcher takes the lowest offset it wants of a partition.            *)
LEMMA WantedMin ==
    ASSUME TypeOK, NEW tp \in TP, Wanted(tp) # {},
           NEW o, o = Min(Wanted(tp))
    PROVE  o \in Wanted(tp) /\ o \in Offset /\ \A p \in Wanted(tp) : o <= p
<1>1. Wanted(tp) \in SUBSET (0..LastOffset)
  BY DEF Wanted, TypeOK, Offset
<1> QED
  BY <1>1, MinExists, LastOffsetAssumption DEF Offset

(* Every step keeps FetchInv.                                              *)
LEMMA FetchInvNext ==
    TypeOK /\ FetchInv /\ [Next]_vars => FetchInv'
<1> SUFFICES ASSUME TypeOK, FetchInv, [Next]_vars
             PROVE  FetchInv'
  OBVIOUS
<1> USE DEF fetchVars, streamVars
<1>1. CASE UNCHANGED <<batch, current, queue, inflight, fetchPc>>
  BY <1>1 DEF FetchInv
<1>2. CASE FetchStart \/ FetchReturnStopped \/ FetcherSeekDone
  BY <1>2 DEF FetchStart, FetchReturnStopped, FetcherSeekDone, FetchInv, Holding
<1>3. CASE FetchReturn
  <2>1. \A tp \in TP : batch'[tp] \subseteq Log[tp]
    BY <1>3 DEF FetchReturn, Records
  <2> QED
    BY <1>3, <2>1 DEF FetchReturn, FetchInv, Holding
<1>4. CASE FetchBreak
  BY <1>4 DEF FetchBreak, FetchInv, Empty, Holding
<1>5. ASSUME NEW tp \in TP, FetchNext(tp)
      PROVE  FetchInv'
  <2> DEFINE o == Min(Wanted(tp))
             m == [tp |-> tp, offset |-> o, gen |-> generation]
  <2>1. o \in batch[tp]
    BY <1>5, WantedMin DEF FetchNext, Wanted
  <2>2. fetchPc' \in Holding /\ UNCHANGED <<queue, inflight>> /\ current' = {m}
    BY <1>5 DEF FetchNext, Holding
  <2>3. \A t \in TP : batch'[t] \subseteq batch[t]
    BY <1>5 DEF FetchNext
  <2>4. o \in Log[tp]
    BY <2>1 DEF FetchInv
  <2> HIDE DEF o
  <2> QED
    BY <2>2, <2>3, <2>4 DEF FetchInv
<1>6. CASE GapMerge \/ FetcherCommit \/ FetcherCommitReturn
  BY <1>6 DEF GapMerge, FetcherCommit, FetcherCommitReturn, FetchInv, Holding
<1>7. CASE Deliver
  <2>1. PICK m \in current : queue' = Append(queue, m) \/ queue' = queue
    BY <1>7 DEF Deliver
  <2>2. m \in Message /\ queue \in Seq(Message)
    BY DEF TypeOK
  <2>3. \A i \in 1..Len(queue') : queue'[i].offset \in Log[queue'[i].tp]
    <3>1. CASE queue' = queue
      BY <3>1 DEF FetchInv
    <3>2. CASE queue' = Append(queue, m)
      <4> SUFFICES ASSUME NEW i \in 1..Len(queue')
                   PROVE  queue'[i].offset \in Log[queue'[i].tp]
        OBVIOUS
      <4>1. i \in 1..Len(queue) \/ i = Len(queue) + 1
        BY <2>2, <3>2, AppendFacts
      <4> QED
        BY <2>2, <3>2, <4>1, AppendFacts DEF FetchInv
    <3> QED
      BY <2>1, <3>1, <3>2
  <2> QED
    BY <1>7, <2>3 DEF Deliver, FetchInv, Holding
<1>8. CASE Revoke
  BY <1>8 DEF Revoke, FetchInv
<1>9. CASE ResumeStreams \/ ResumeFlow
  BY <1>9 DEF ResumeStreams, ResumeFlow, FetchInv, Holding
<1>10. CASE Crash
  BY <1>10 DEF Crash, FetchInv, Empty, Holding
<1>11. ASSUME NEW w \in Workers, StreamTake(w) \/ StreamSkip(w) \/ StreamFinish(w)
       PROVE  FetchInv'
  BY <1>11, FetchInvStreams
<1>12. CASE \/ CommitHandler \/ CommitAttached \/ CommitDone \/ WaitEmptyLoop
            \/ WaitEmptyDone \/ Join \/ OnAssigned \/ SignalRecovery
            \/ \E tp \in TP : OtherWorker(tp)
  BY <1>1, <1>12 DEF CommitHandler, CommitAttached, CommitDone, WaitEmptyLoop,
     WaitEmptyDone, Join, OnAssigned, SignalRecovery, OtherWorker
<1>13. CASE UNCHANGED vars
  BY <1>1, <1>13 DEF vars
<1> QED
  BY <1>2, <1>3, <1>4, <1>5, <1>6, <1>7, <1>8, <1>9, <1>10, <1>11, <1>12, <1>13
  DEF Next, Fetcher, Callbacks, Recovery

-----------------------------------------------------------------------------
(* PhaseInv holds at the start.                                            *)
LEMMA PhaseInvInit == Init => PhaseInv
  BY DEF Init, PhaseInv, FetcherAtRest, NewGeneration

(* The streams leave nothing behind for another generation.                *)
LEMMA PhaseInvStreams ==
    ASSUME TypeOK, PhaseInv, NEW w \in Workers,
           StreamTake(w) \/ StreamSkip(w) \/ StreamFinish(w)
    PROVE  PhaseInv'
<1>1. UNCHANGED <<batchGen, current, fetchPc, flowActive, recovPc, recovGen, active,
                  assignment, generation, rebalPc>>
  BY DEF StreamTake, StreamSkip, StreamFinish, fetchVars, flowVars, rebalVars,
         brokerVars
<1>2. queue \in Seq(Message)
  BY DEF TypeOK
<1>3. CASE StreamFinish(w)
  BY <1>1, <1>3 DEF StreamFinish, PhaseInv, FetcherAtRest
<1>4. CASE StreamTake(w) \/ StreamSkip(w)
  <2>1. queue # <<>> /\ queue' = Tail(queue)
    BY <1>4 DEF StreamTake, StreamSkip
  <2>2. \A i \in 1..Len(queue') : \E j \in 1..Len(queue) : queue'[i] = queue[j]
    BY <1>2, <2>1, TailFacts
  <2> QED
    BY <1>1, <2>2 DEF PhaseInv, FetcherAtRest
<1> QED
  BY <1>3, <1>4

(* A delivered message belongs to the generation it was read in.           *)
LEMMA PhaseInvDeliver ==
    ASSUME TypeOK, FetchInv, PhaseInv, Deliver
    PROVE  PhaseInv'
<1>1. UNCHANGED <<batchGen, flowActive, recovPc, recovGen, active,
                  assignment, generation, rebalPc>>
  BY DEF Deliver, flowVars, rebalVars, brokerVars
<1>2. current' = {} /\ fetchPc = "deliver" /\ fetchPc' = "iterate"
  BY DEF Deliver
<1>3. \A i \in 1..Len(queue') : \/ queue'[i] \in current
                               \/ \E j \in 1..Len(queue) : queue'[i] = queue[j]
  <2>1. PICK m \in current : queue' = Append(queue, m) \/ queue' = queue
    BY DEF Deliver
  <2>2. m \in Message /\ queue \in Seq(Message)
    BY DEF TypeOK
  <2>3. CASE queue' = Append(queue, m)
    BY <2>1, <2>2, <2>3, AppendFacts
  <2> QED
    BY <2>1, <2>3
<1> QED
  BY <1>1, <1>2, <1>3 DEF PhaseInv, FetcherAtRest

(* Every step keeps PhaseInv.                                              *)
LEMMA PhaseInvNext ==
    ASSUME Orderly
    PROVE  TypeOK /\ DrainInv /\ FetchInv /\ PhaseInv /\ [Next]_vars => PhaseInv'
<1> SUFFICES ASSUME TypeOK, DrainInv, FetchInv, PhaseInv, [Next]_vars
             PROVE  PhaseInv'
  OBVIOUS
<1> USE DEF fetchVars, flowVars, rebalVars, brokerVars, streamVars
<1>1. CASE UNCHANGED <<batchGen, current, queue, fetchPc, flowActive, recovPc,
                       recovGen, active, assignment, generation, rebalPc>>
  BY <1>1 DEF PhaseInv, FetcherAtRest
<1>2. CASE \/ FetchStart \/ FetchReturnStopped \/ FetcherSeekDone \/ FetchBreak
           \/ GapMerge \/ FetcherCommit \/ FetcherCommitReturn
  <2>1. UNCHANGED <<batchGen, current, queue, flowActive, recovPc,
                    recovGen, active, assignment, generation, rebalPc>>
    BY <1>2 DEF FetchStart, FetchReturnStopped, FetcherSeekDone, FetchBreak,
                GapMerge, FetcherCommit, FetcherCommitReturn
  <2>2. recovPc = "seeking" => FetcherAtRest'
    BY <1>2 DEF FetchStart, FetchReturnStopped, FetcherSeekDone, FetchBreak,
                GapMerge, FetcherCommit, FetcherCommitReturn, FetcherAtRest, PhaseInv
  <2>3. flowActive => fetchPc' # "seeking"
    BY <1>2 DEF FetchStart, FetchReturnStopped, FetcherSeekDone, FetchBreak,
                GapMerge, FetcherCommit, FetcherCommitReturn
  <2> QED
    BY <2>1, <2>2, <2>3 DEF PhaseInv
<1>3. CASE FetchReturn
  <2>1. current = {}
    BY <1>3 DEF FetchReturn, FetchInv, Holding
  <2>2. UNCHANGED <<current, queue, flowActive, recovPc, recovGen, active,
                    assignment, generation, rebalPc>>
    BY <1>3 DEF FetchReturn
  <2>3. flowActive /\ batchGen' = generation /\ fetchPc' # "seeking" /\ generation \in Int
    BY <1>3 DEF FetchReturn, TypeOK
  <2> QED
    BY <2>1, <2>2, <2>3 DEF PhaseInv
<1>4. ASSUME NEW tp \in TP, FetchNext(tp)
      PROVE  PhaseInv'
  <2>1. tp \in active
    BY <1>4 DEF FetchNext, Wanted
  <2>2. UNCHANGED <<batchGen, queue, flowActive, recovPc, recovGen, active,
                    assignment, generation, rebalPc>>
    BY <1>4 DEF FetchNext
  <2>3. flowActive /\ batchGen = generation /\ fetchPc' # "seeking"
    BY <1>4 DEF FetchNext
  <2>4. \A m \in current' : m.tp = tp /\ m.gen = generation
    BY <1>4 DEF FetchNext
  <2>5. generation \in Int
    BY DEF TypeOK
  <2> QED
    BY <2>1, <2>2, <2>3, <2>4, <2>5 DEF PhaseInv
<1>5. CASE Deliver
  BY <1>5, PhaseInvDeliver
<1>6. CASE Revoke
  <2>1. assignment # {}
    BY <1>6 DEF Revoke, DrainInv
  <2>2. /\ ~flowActive' /\ rebalPc' = "waitEmpty" /\ recovPc' = "idle"
        /\ active' = {} /\ queue' = <<>>
    BY <1>6, <2>1 DEF Revoke, Orderly, PhaseInv
  <2> QED
    BY <1>6, <2>2 DEF Revoke, PhaseInv, NewGeneration
<1>7. CASE Join
  <2>1. recovPc = "idle" /\ ~flowActive /\ active = {} /\ rebalPc' = "joined"
    BY <1>7 DEF Join, DrainInv, PhaseInv
  <2>2. generation \in Int /\ generation' = generation + 1
    BY <1>7 DEF Join, TypeOK
  <2>3. UNCHANGED <<batchGen, current, queue, flowActive, recovPc, recovGen, active,
                    fetchPc>>
    BY <1>7 DEF Join
  <2>4. /\ batchGen \in Int
        /\ \A m \in current : m.gen \in Int
        /\ \A i \in 1..Len(queue) : queue[i].gen \in Int
    <3>1. /\ batchGen \in 0..MaxGen /\ current \in SUBSET Message
          /\ queue \in Seq(Message)
      BY DEF TypeOK
    <3>2. \A m \in Message : m.gen \in Int
      BY DEF Message
    <3>3. \A i \in 1..Len(queue) : queue[i] \in Message
      BY <3>1
    <3> QED
      BY <3>1, <3>2, <3>3
  <2> QED
    BY <2>1, <2>2, <2>3, <2>4 DEF PhaseInv
<1>8. CASE OnAssigned
  BY <1>8 DEF OnAssigned, PhaseInv, DrainInv, NewGeneration
<1>9. CASE SignalRecovery
  BY <1>9 DEF SignalRecovery, PhaseInv, DrainInv, NewGeneration
<1>10. CASE ResumeStreams
  <2>1. recovGen = generation /\ ~flowActive /\ assignment # {} /\ rebalPc = "stable"
    BY <1>10 DEF ResumeStreams, PhaseInv, DrainInv
  <2>2. FetcherAtRest
    BY <1>10 DEF ResumeStreams, Orderly
  <2> QED
    BY <1>10, <2>1, <2>2 DEF ResumeStreams, PhaseInv, FetcherAtRest
<1>11. CASE ResumeFlow
  <2>1. /\ recovGen = generation /\ ~flowActive /\ assignment # {}
        /\ rebalPc = "stable" /\ FetcherAtRest /\ active = assignment
    BY <1>11 DEF ResumeFlow, PhaseInv, DrainInv
  <2>2. current = {}
    BY <2>1 DEF FetcherAtRest, FetchInv, Holding
  <2> QED
    BY <1>11, <2>1, <2>2 DEF ResumeFlow, PhaseInv, FetcherAtRest, NewGeneration
<1>12. CASE Crash
  BY <1>12 DEF Crash, PhaseInv, NewGeneration, TypeOK
<1>13. ASSUME NEW w \in Workers, StreamTake(w) \/ StreamSkip(w) \/ StreamFinish(w)
       PROVE  PhaseInv'
  BY <1>13, PhaseInvStreams
<1>14. CASE WaitEmptyLoop \/ WaitEmptyDone
  BY <1>14 DEF WaitEmptyLoop, WaitEmptyDone, PhaseInv, DrainInv, NewGeneration,
               FetcherAtRest
<1>15. CASE \/ CommitHandler \/ CommitAttached \/ CommitDone
            \/ \E tp \in TP : OtherWorker(tp)
  BY <1>1, <1>15 DEF CommitHandler, CommitAttached, CommitDone, OtherWorker
<1>16. CASE UNCHANGED vars
  BY <1>1, <1>16 DEF vars
<1> QED
  BY <1>2, <1>3, <1>4, <1>5, <1>6, <1>7, <1>8, <1>9, <1>10, <1>11, <1>12, <1>13,
     <1>14, <1>15, <1>16
  DEF Next, Fetcher, Callbacks, Recovery

-----------------------------------------------------------------------------
(* What the steps of the fetcher do to the records on their way.           *)

(* The parts of TypeOK that say what is a number.                          *)
LEMMA NumberTypes ==
    ASSUME TypeOK
    PROVE  /\ \A tp \in TP : /\ readOffset[tp] \in Int /\ position[tp] \in Nat
                             /\ brokerCommitted[tp] \in Int
                             /\ commitOffsets[tp] \in Int
                             /\ committedOffset[tp] \in Int
                             /\ Log[tp] \subseteq Nat /\ Log[tp] \subseteq Offset
                             /\ batch[tp] \subseteq Nat
           /\ generation \in Nat
           /\ \A m \in Message : m.tp \in TP /\ m.offset \in Nat /\ m.gen \in Nat
           /\ assignment \subseteq TP /\ current \subseteq Message
           /\ queue \in Seq(Message) /\ inflight \in [Workers -> SUBSET Message]
<1>1. NoOffset \in Int /\ NextOffset \subseteq Nat /\ MaybeNext \subseteq Int
  BY OffsetIsNat DEF NoOffset, MaybeNext
<1>2. \A tp \in TP : Log[tp] \subseteq Offset
  BY ConsumerAssumption
<1>3. \A tp \in TP : Log[tp] \subseteq Nat /\ batch[tp] \subseteq Nat
  BY <1>2, OffsetIsNat DEF TypeOK
<1>4. ASSUME NEW m \in Message
      PROVE  m.tp \in TP /\ m.offset \in Nat /\ m.gen \in Nat
  <2>1. m.tp \in TP /\ m.offset \in Offset /\ m.gen \in 0..MaxGen
    BY DEF Message
  <2>2. m.offset \in Nat
    BY <2>1, OffsetIsNat
  <2>3. m.gen \in Nat
    BY <2>1, ConsumerAssumption
  <2> QED
    BY <2>1, <2>2, <2>3
<1>5. \A tp \in TP : /\ readOffset[tp] \in Int /\ position[tp] \in Nat
                    /\ brokerCommitted[tp] \in Int
                    /\ commitOffsets[tp] \in Int
                    /\ committedOffset[tp] \in Int
  BY <1>1 DEF TypeOK
<1>6. /\ generation \in Nat /\ assignment \subseteq TP /\ current \subseteq Message
      /\ queue \in Seq(Message) /\ inflight \in [Workers -> SUBSET Message]
  BY DEF TypeOK
<1> QED
  BY <1>2, <1>3, <1>4, <1>5, <1>6

(* A fetch returns the messages between the old and the new position.      *)
LEMMA FetchReturnFacts ==
    ASSUME TypeOK, FetchInv, FetchReturn
    PROVE  /\ flowActive /\ batch = Empty /\ current = {} /\ batchGen' = generation
           /\ UNCHANGED <<flowActive, assignment, readOffset, generation, current,
                          queue, inflight>>
           /\ \A t \in TP : position[t] <= position'[t]
           /\ \A t \in TP : batch'[t] =
                 {x \in Log[t] : position[t] <= x /\ x < position'[t]}
<1>1. flowActive /\ batchGen' = generation /\ fetchPc = "fetching"
      /\ UNCHANGED <<flowActive, assignment, readOffset, generation, current,
                     queue, inflight>>
  BY DEF FetchReturn, flowVars, streamVars
<1>2. batch = Empty /\ current = {}
  BY <1>1 DEF FetchInv, Holding
<1>3. PICK upTo \in FetchPositions : position' = upTo /\ batch' = Records(upTo)
  BY DEF FetchReturn
<1>4. \A t \in TP : position'[t] \in NextPositions(t)
  BY <1>3 DEF FetchPositions
<1>5. \A t \in TP : position[t] <= position'[t]
  BY <1>4, NumberTypes DEF NextPositions
<1>6. \A t \in TP : batch'[t] =
                 {x \in Log[t] : position[t] <= x /\ x < position'[t]}
  BY <1>3 DEF Records
<1> QED
  BY <1>1, <1>2, <1>5, <1>6

(* The iteration over a batch ends when nothing is left to deliver.        *)
LEMMA FetchBreakFacts ==
    ASSUME TypeOK, FetchInv, PhaseInv, FetchBreak
    PROVE  /\ current = {} /\ batch' = Empty
           /\ UNCHANGED <<flowActive, assignment, readOffset, position, generation,
                          current, queue, inflight, batchGen>>
           /\ flowActive /\ batchGen = generation =>
                 \A t \in assignment : \A x \in batch[t] : x < readOffset[t]
<1>1. /\ fetchPc = "iterate" /\ batch' = Empty
      /\ UNCHANGED <<flowActive, assignment, readOffset, position, generation,
                     current, queue, inflight, batchGen>>
  BY DEF FetchBreak, flowVars, streamVars, brokerVars
<1>2. current = {}
  BY <1>1 DEF FetchInv, Holding
<1>3. ASSUME flowActive, batchGen = generation, NEW t \in assignment,
             NEW x \in batch[t]
      PROVE  x < readOffset[t]
  <2>1. t \in TP /\ t \in active
    BY <1>3 DEF PhaseInv, TypeOK
  <2>2. x \notin Wanted(t)
    BY <1>3, <2>1 DEF FetchBreak
  <2>3. ~(x >= readOffset[t]) /\ x \in Int /\ readOffset[t] \in Int
    BY <2>1, <2>2, NumberTypes DEF Wanted, Fresh
  <2> QED
    BY <2>3
<1> QED
  BY <1>1, <1>2, <1>3

(* The next message is the first of its partition in the batch, and what   *)
(* is passed over has been read.                                           *)
LEMMA FetchNextFacts ==
    ASSUME TypeOK, FetchInv, PhaseInv, NEW tp \in TP, FetchNext(tp),
           NEW o, o = Min(Wanted(tp))
    PROVE  /\ flowActive /\ batchGen = generation /\ current = {}
           /\ tp \in assignment
           /\ current' = {[tp |-> tp, offset |-> o, gen |-> generation]}
           /\ o \in batch[tp] /\ o \in Nat /\ readOffset[tp] <= o
           /\ \A t \in TP : batch'[t] \subseteq batch[t]
           /\ \A t \in assignment : \A x \in batch[t] :
                 x \notin batch'[t] => x < readOffset[t] \/ (t = tp /\ x = o)
           /\ \A x \in batch'[tp] : o < x
           /\ \A x \in batch[tp] : readOffset[tp] <= x => o <= x
           /\ UNCHANGED <<flowActive, assignment, readOffset, position, generation,
                          queue, inflight, batchGen, acked>>
<1>1. /\ flowActive /\ batchGen = generation /\ fetchPc = "iterate"
      /\ Wanted(tp) # {}
      /\ current' = {[tp |-> tp, offset |-> o, gen |-> generation]}
      /\ UNCHANGED <<flowActive, assignment, readOffset, position, generation,
                     queue, inflight, batchGen, acked>>
  BY DEF FetchNext, flowVars, streamVars, brokerVars
<1>2. current = {} /\ active = assignment
  BY <1>1 DEF FetchInv, Holding, PhaseInv
<1>3. o \in Wanted(tp) /\ \A p \in Wanted(tp) : o <= p
  BY <1>1, WantedMin
<1>4. PICK upTo \in [TP \ {tp} -> NextOffset] :
         batch' = [t \in TP |->
                    IF t = tp THEN batch[t] \ (PassedOver(t) \cup {o})
                    ELSE batch[t] \ {p \in PassedOver(t) : p < upTo[t]}]
  BY DEF FetchNext
<1>5. ASSUME NEW t \in assignment, NEW x \in batch[t]
      PROVE  /\ x \in Wanted(t) <=> readOffset[t] <= x
             /\ x \in PassedOver(t) => x < readOffset[t]
  <2>1. t \in TP
    BY DEF TypeOK
  <2>2. x \in Int /\ readOffset[t] \in Int /\ -1 <= readOffset[t] /\ 0 <= x
    <3>1. readOffset[t] \in MaybeNext
      BY <2>1 DEF TypeOK
    <3>2. -1 <= readOffset[t]
      BY <3>1, OffsetIsNat DEF MaybeNext, NoOffset
    <3> QED
      BY <2>1, <3>2, NumberTypes
  <2>3. x \in Wanted(t) <=> readOffset[t] <= x
    BY <1>2, <2>2 DEF Wanted, Fresh, NoOffset
  <2>4. x \in PassedOver(t) => x \notin Wanted(t)
    BY <2>2 DEF PassedOver
  <2> QED
    BY <2>2, <2>3, <2>4
<1>6. tp \in assignment /\ o \in batch[tp]
  BY <1>2, <1>3 DEF Wanted
<1>7. o \in Nat /\ readOffset[tp] <= o
  BY <1>3, <1>5, <1>6, NumberTypes
<1>8. \A t \in TP : batch'[t] \subseteq batch[t]
  BY <1>4
<1>9. ASSUME NEW t \in assignment, NEW x \in batch[t], x \notin batch'[t]
      PROVE  x < readOffset[t] \/ (t = tp /\ x = o)
  BY <1>4, <1>5, <1>9, NumberTypes
<1>10. ASSUME NEW x \in batch'[tp]
       PROVE  o < x
  <2>1. x \in batch[tp] /\ x # o /\ x \notin PassedOver(tp)
    BY <1>4, <1>10
  <2>2. PICK p \in Wanted(tp) : ~(x < p)
    BY <2>1 DEF PassedOver
  <2>3. o <= p /\ p \in Nat /\ x \in Nat
    BY <1>3, <2>1, <2>2, NumberTypes DEF Wanted
  <2> QED
    BY <1>7, <2>1, <2>2, <2>3
<1> QED
  BY <1>1, <1>2, <1>3, <1>5, <1>6, <1>7, <1>8, <1>9, <1>10

(* Deliver puts the held message into the queue and moves the read offset  *)
(* to it.                                                                  *)
LEMMA DeliverFacts ==
    ASSUME TypeOK, FetchInv, Deliver
    PROVE  \E m \in current :
             /\ current = {m} /\ m \in Message
             /\ flowActive => queue' = Append(queue, m)
             /\ readOffset' = [readOffset EXCEPT ![m.tp] = m.offset]
             /\ current' = {}
             /\ UNCHANGED <<flowActive, assignment, position, generation,
                            inflight, batchGen, batch, acked, gap>>
<1>1. PICK m \in current :
         /\ flowActive => queue' = Append(queue, m)
         /\ readOffset' = [readOffset EXCEPT ![m.tp] = m.offset]
  BY DEF Deliver
<1>2. current = {m} /\ m \in Message
  BY DEF FetchInv, TypeOK
<1>3. /\ current' = {}
      /\ UNCHANGED <<flowActive, assignment, position, generation,
                     inflight, batchGen, batch, acked, gap>>
  BY DEF Deliver, flowVars, streamVars, brokerVars, trackVars
<1> QED
  BY <1>1, <1>2, <1>3

-----------------------------------------------------------------------------
(* ReadInv holds at the start.                                             *)
LEMMA ReadInvInit == Init => ReadInv
  BY DEF Init, ReadInv

(* Taking the next message of the batch keeps ReadInv.                     *)
LEMMA ReadInvFetchNext ==
    ASSUME TypeOK, FetchInv, PhaseInv, ReadInv, NEW tp \in TP, FetchNext(tp)
    PROVE  ReadInv'
<1>1. PICK o : o = Min(Wanted(tp))
  OBVIOUS
<1> USE <1>1, FetchNextFacts, NumberTypes
<1> SUFFICES ASSUME NEW t \in assignment
             PROVE  /\ readOffset[t] <= position[t]
                    /\ \A x \in batch'[t] : x < position[t]
                    /\ \A m \in current' : m.tp = t =>
                          /\ readOffset[t] <= m.offset /\ m.offset < position[t]
                          /\ \A x \in batch'[t] : m.offset < x
                    /\ \A x \in Log[t] : (readOffset[t] < x /\ x < position[t]) =>
                          x \in batch'[t] \/ Held(t, x)'
  BY DEF ReadInv, Batched
<1>2. t \in TP /\ readOffset[t] \in Int /\ position[t] \in Int
  OBVIOUS
<1>3. readOffset[t] <= position[t] /\ \A x \in batch[t] : x < position[t]
  BY DEF ReadInv, Batched
<1>4. \A x \in Log[t] : (readOffset[t] < x /\ x < position[t]) => x \in batch[t]
  BY DEF ReadInv, Batched, Held
<1>5. \A m \in current' : m.tp = t =>
         /\ readOffset[t] <= m.offset /\ m.offset < position[t]
         /\ \A x \in batch'[t] : m.offset < x
  BY <1>3
<1>6. ASSUME NEW x \in Log[t], readOffset[t] < x, x < position[t], x \notin batch'[t]
      PROVE  Held(t, x)'
  <2>1. x \in batch[t] /\ x \in Nat
    BY <1>2, <1>4, <1>6
  <2>2. t = tp /\ x = o
    BY <1>2, <1>6, <2>1
  <2>3. PICK m : m = [tp |-> tp, offset |-> o, gen |-> generation]
    OBVIOUS
  <2>4. m \in current' /\ m.tp = t /\ m.offset = x
    BY <2>2, <2>3
  <2> QED
    BY <2>4 DEF Held
<1> QED
  BY <1>2, <1>3, <1>5, <1>6

(* Delivering a message keeps ReadInv.                                     *)
LEMMA ReadInvDeliver ==
    ASSUME TypeOK, FetchInv, ReadInv, Deliver
    PROVE  ReadInv'
<1> USE NumberTypes
<1>1. PICK m \in current :
             /\ current = {m} /\ m \in Message
             /\ flowActive => queue' = Append(queue, m)
             /\ readOffset' = [readOffset EXCEPT ![m.tp] = m.offset]
             /\ current' = {}
             /\ UNCHANGED <<flowActive, assignment, position, generation,
                            inflight, batchGen, batch, acked, gap>>
  BY DeliverFacts
<1> SUFFICES ASSUME flowActive, NEW t \in assignment
             PROVE  /\ readOffset'[t] <= position[t]
                    /\ \A x \in Batched(t) : x < position[t]
                    /\ \A x \in Log[t] : (readOffset'[t] < x /\ x < position[t]) =>
                          x \in Batched(t)
  BY <1>1 DEF ReadInv, Batched
<1>2. /\ readOffset[t] <= position[t]
      /\ \A x \in Batched(t) : x < position[t]
      /\ m.tp = t => readOffset[t] <= m.offset /\ m.offset < position[t]
      /\ \A x \in Log[t] : (readOffset[t] < x /\ x < position[t]) =>
            x \in Batched(t) \/ Held(t, x)
  BY DEF ReadInv
<1>3. t \in TP /\ m.tp \in TP /\ readOffset[t] \in Int /\ position[t] \in Int
      /\ m.offset \in Int /\ readOffset \in [TP -> MaybeNext]
  <2>1. readOffset \in [TP -> MaybeNext]
    BY DEF TypeOK
  <2> QED
    BY <1>1, <2>1
<1>4. CASE m.tp = t
  <2>1. readOffset'[t] = m.offset
    BY <1>1, <1>3, <1>4
  <2>2. \A x \in Log[t] : Held(t, x) => x = m.offset
    BY <1>1, <1>4 DEF Held
  <2>3. ASSUME NEW x \in Log[t], m.offset < x, x < position[t]
        PROVE  x \in Batched(t)
    <3>1. x \in Int /\ readOffset[t] < x /\ x # m.offset
      BY <1>2, <1>3, <1>4, <2>3
    <3> QED
      BY <1>2, <2>2, <2>3, <3>1
  <2> QED
    BY <1>2, <1>3, <1>4, <2>1, <2>3
<1>5. CASE m.tp # t
  <2>1. readOffset'[t] = readOffset[t]
    BY <1>1, <1>3, <1>5
  <2>2. \A x \in Log[t] : ~Held(t, x)
    BY <1>1, <1>5 DEF Held
  <2> QED
    BY <1>2, <2>1, <2>2
<1> QED
  BY <1>4, <1>5

(* Flow is resumed with nothing of the new generation fetched yet.         *)
LEMMA ReadInvResume ==
    ASSUME TypeOK, DrainInv, FetchInv, PhaseInv, NEW H, SettledInv(H), ResumeFlow
    PROVE  /\ ReadInv'
           /\ \A t \in assignment : readOffset'[t] <= position[t]
           /\ current = {} /\ batchGen # generation
<1> USE NumberTypes
<1>1. /\ ~flowActive /\ rebalPc = "stable" /\ FetcherAtRest
      /\ recovPc = "seeking"
  BY DEF ResumeFlow, PhaseInv, DrainInv
<1>2. current = {} /\ batchGen # generation
  BY <1>1 DEF FetcherAtRest, FetchInv, PhaseInv, Holding, NewGeneration
<1>3. UNCHANGED <<assignment, position, generation, batchGen, current>>
  BY DEF ResumeFlow, brokerVars
<1>4. ASSUME NEW t \in assignment
      PROVE  \/ readOffset'[t] = position[t]
             \/ readOffset'[t] = -1 /\ position[t] = 0
  <2>1. t \in TP
    OBVIOUS
  <2>2. \/ seeking["recovery"][t] = position[t]
        \/ seeking["recovery"][t] = -1 /\ position[t] = 0
    BY <1>1 DEF SettledInv, SettledSeek, NoOffset
  <2>3. seeking["recovery"][t] # NotSought
    BY <2>1, <2>2 DEF NotSought
  <2>4. readOffset'[t] = seeking["recovery"][t]
    BY <2>1, <2>3 DEF ResumeFlow, SeekApply
  <2> QED
    BY <2>2, <2>4
<1>5. \A t \in assignment : readOffset'[t] <= position[t]
  BY <1>4
<1>6. ASSUME NEW t \in assignment, NEW x \in Log[t], readOffset'[t] < x, x < position[t]
      PROVE  FALSE
  <2>1. t \in TP /\ x \in Nat /\ position[t] \in Nat
    OBVIOUS
  <2> QED
    BY <1>4, <1>6, <2>1
<1> QED
  BY <1>2, <1>3, <1>5, <1>6 DEF ReadInv, Batched

(* Every step keeps ReadInv.                                               *)
LEMMA ReadInvNext ==
    ASSUME Orderly, NEW H
    PROVE  /\ TypeOK /\ DrainInv /\ FetchInv /\ PhaseInv /\ ReadInv /\ SettledInv(H)
           /\ [Next]_vars
           => ReadInv'
<1> SUFFICES ASSUME TypeOK, DrainInv, FetchInv, PhaseInv, ReadInv, SettledInv(H),
                    [Next]_vars
             PROVE  ReadInv'
  OBVIOUS
<1> USE DEF fetchVars, flowVars, rebalVars, brokerVars, streamVars
<1>1. CASE UNCHANGED <<flowActive, assignment, readOffset, position, batchGen,
                       generation, batch, current>>
  BY <1>1 DEF ReadInv, Batched, Held
<1>2. CASE ~flowActive'
  BY <1>2 DEF ReadInv
<1>3. CASE FetchReturn
  <2> USE <1>3, FetchReturnFacts, NumberTypes
  <2> SUFFICES ASSUME NEW t \in assignment
               PROVE  /\ readOffset[t] <= position'[t]
                      /\ \A x \in batch'[t] : x < position'[t]
                      /\ \A x \in Log[t] : (readOffset[t] < x /\ x < position'[t]) =>
                            x \in batch'[t]
    BY DEF ReadInv, Batched
  <2>1. t \in TP /\ readOffset[t] \in Int /\ position[t] \in Int
        /\ batch'[t] = {x \in Log[t] : position[t] <= x /\ x < position'[t]}
        /\ position[t] <= position'[t]
    OBVIOUS
  <2>2. readOffset[t] <= position[t]
    BY DEF ReadInv
  <2>3. \A x \in Log[t] : ~(readOffset[t] < x /\ x < position[t])
    BY <2>1 DEF ReadInv, Batched, Held, Empty
  <2>4. position'[t] \in Nat
    <3>1. PICK upTo \in FetchPositions : position' = upTo
      BY DEF FetchReturn
    <3>2. upTo \in [TP -> NextOffset]
      BY DEF FetchPositions
    <3>3. position'[t] \in NextOffset
      BY <2>1, <3>1, <3>2
    <3> QED
      BY <2>1, <3>3, OffsetIsNat
  <2> QED
    BY <2>1, <2>2, <2>3, <2>4
<1>4. CASE FetchBreak
  <2> USE <1>4, FetchBreakFacts, NumberTypes
  <2> SUFFICES ASSUME flowActive, NEW t \in assignment
               PROVE  /\ readOffset[t] <= position[t]
                      /\ \A x \in Log[t] : ~(readOffset[t] < x /\ x < position[t])
    BY DEF ReadInv, Batched, Empty
  <2>1. readOffset[t] <= position[t]
    BY DEF ReadInv
  <2>2. ASSUME NEW x \in Log[t], readOffset[t] < x, x < position[t] PROVE FALSE
    <3>1. x \in Batched(t)
      BY <2>2 DEF ReadInv, Held
    <3>2. x < readOffset[t] /\ x \in Int /\ readOffset[t] \in Int
      BY <3>1 DEF Batched
    <3> QED
      BY <2>2, <3>2
  <2> QED
    BY <2>1, <2>2
<1>5. ASSUME NEW tp \in TP, FetchNext(tp)
      PROVE  ReadInv'
  BY <1>5, ReadInvFetchNext
<1>6. CASE Deliver
  BY <1>6, ReadInvDeliver
<1>7. CASE Revoke
  <2>1. assignment # {}
    BY <1>7 DEF Revoke, DrainInv
  <2> QED
    BY <1>2, <1>7, <2>1 DEF Revoke
<1>8. CASE Join \/ OnAssigned \/ SignalRecovery
  <2>1. ~flowActive
    BY <1>8 DEF Join, OnAssigned, SignalRecovery, DrainInv
  <2> QED
    BY <1>2, <1>8, <2>1 DEF Join, OnAssigned, SignalRecovery
<1>9. CASE ResumeStreams
  <2>1. recovGen = generation /\ ~flowActive /\ assignment # {}
    BY <1>9 DEF ResumeStreams, PhaseInv, DrainInv
  <2> QED
    BY <1>2, <1>9, <2>1 DEF ResumeStreams
<1>10. CASE ResumeFlow
  BY <1>10, ReadInvResume
<1>11. CASE Crash
  BY <1>2, <1>11 DEF Crash
<1>12. CASE FetchReturnStopped
  BY <1>2, <1>12 DEF FetchReturnStopped
<1>13. CASE FetcherSeekDone
  <2>1. ~flowActive
    BY <1>13 DEF FetcherSeekDone, PhaseInv
  <2> QED
    BY <1>2, <1>13, <2>1 DEF FetcherSeekDone
<1>14. CASE \E w \in Workers : StreamTake(w) \/ StreamSkip(w) \/ StreamFinish(w)
  BY <1>1, <1>14 DEF StreamTake, StreamSkip, StreamFinish
<1>15. CASE \/ CommitHandler \/ CommitAttached \/ CommitDone \/ FetchStart
            \/ GapMerge \/ FetcherCommit \/ FetcherCommitReturn
            \/ WaitEmptyLoop \/ WaitEmptyDone
            \/ \E tp \in TP : OtherWorker(tp)
  BY <1>1, <1>15 DEF CommitHandler, CommitAttached, CommitDone, OtherWorker,
     FetchStart, GapMerge, FetcherCommit, FetcherCommitReturn, WaitEmptyLoop,
     WaitEmptyDone
<1>16. CASE UNCHANGED vars
  BY <1>1, <1>16 DEF vars
<1> QED
  BY <1>3, <1>4, <1>5, <1>6, <1>7, <1>8, <1>9, <1>10, <1>11, <1>12, <1>13,
     <1>14, <1>15, <1>16
  DEF Next, Fetcher, Callbacks, Recovery

-----------------------------------------------------------------------------
(* GapInv holds at the start.                                              *)
LEMMA GapInvInit == Init => GapInv
<1> SUFFICES ASSUME Init, NEW tp \in TP
             PROVE  gap[tp] = {} /\ OffsetsIn(acked[tp]) = {}
  BY DEF GapInv, Clear, Disjoint
<1> QED
  BY DEF Init, Empty, EmptyBag, OffsetsIn

(* What commit() leaves of the acks and the gaps, and what it sets out to  *)
(* commit, lies at or below an acked offset.                               *)
LEMMA CommitCallFacts ==
    ASSUME TypeOK, GapInv, NEW caller, CommitCall(caller), NEW tp \in TP
    PROVE  /\ \A x \in OffsetsIn(acked'[tp]) :
                 /\ \E y \in OffsetsIn(acked[tp]) : x <= y
                 /\ x \in OffsetsIn(acked[tp]) \/ \E g \in gap[tp] : Covers(g, x)
           /\ \/ commitOffsets'[tp] = commitOffsets[tp]
              \/ commitOffsets'[tp] = NoOffset
              \/ \E y \in OffsetsIn(acked[tp]) : commitOffsets'[tp] <= y + 1
           /\ \A h \in gap'[tp] : \E g \in gap[tp] : g[1] <= h[1] /\ h[2] = g[2]
           /\ Clear(gap'[tp], OffsetsIn(acked'[tp]))
           /\ Disjoint(gap'[tp])
<1>1. /\ acked[tp] \in [Offset -> Nat] /\ ackedIndex[tp] \in SUBSET Offset
      /\ gap[tp] \in SUBSET Interval /\ committedOffset[tp] \in MaybeNext
  BY DEF TypeOK
<1>2. Clear(gap[tp], OffsetsIn(acked[tp])) /\ Disjoint(gap[tp])
  BY DEF GapInv, Clear
<1>3. CASE commitOwner = Nobody
  <2>1. PICK new \in {[t \in TP |-> New(t)]} :
           /\ \/ commitOffsets' = commitOffsets
              \/ commitOffsets' = Committable(new)
           /\ acked' = [t \in TP |-> new[t].acked]
           /\ gap' = [t \in TP |-> new[t].gap]
    BY <1>3 DEF CommitCall
  <2>2. PICK n : n = New(tp)
    OBVIOUS
  <2>3. n = NewOffset(acked[tp], ackedIndex[tp], gap[tp], committedOffset[tp])
    BY <2>2 DEF New
  <2>4. acked'[tp] = n.acked /\ gap'[tp] = n.gap
    BY <2>1, <2>2
  <2>5. \/ commitOffsets'[tp] = commitOffsets[tp]
        \/ commitOffsets'[tp] = NoOffset
        \/ n.offset # NoOffset /\ commitOffsets'[tp] = n.offset
    BY <2>1, <2>2 DEF Committable
  <2>6. Trimmed(acked[tp], gap[tp], n)
    BY <1>1, <1>2, <2>3, NewOffsetClear
  <2> QED
    BY <2>4, <2>5, <2>6 DEF Trimmed
<1>4. CASE commitOwner # Nobody
  <2>1. UNCHANGED <<acked, gap, commitOffsets>>
    BY <1>4 DEF CommitCall, trackVars
  <2>2. \A x \in OffsetsIn(acked[tp]) : x \in Nat
    BY OffsetIsNat DEF OffsetsIn
  <2>3. \A h \in gap[tp] : h[1] \in Nat
    BY <1>1, IntervalPair
  <2> QED
    BY <1>2, <2>1, <2>2, <2>3
<1> QED
  BY <1>3, <1>4

(* Computing what to commit keeps GapInv.                                  *)
LEMMA GapInvCommit ==
    ASSUME TypeOK, TypeOK', GapInv, NEW caller, CommitCall(caller),
           UNCHANGED <<flowActive, assignment, readOffset, current>>
    PROVE  GapInv'
<1> SUFFICES ASSUME NEW tp \in TP
             PROVE  /\ Clear(gap'[tp], Log[tp] \cup OffsetsIn(acked'[tp]))
                    /\ Disjoint(gap'[tp])
                    /\ \A g \in gap'[tp] : Reached(tp, g[2] - 1)
                    /\ \A a \in OffsetsIn(acked'[tp]) : a \in Log[tp] \/ Reached(tp, a)
  BY DEF GapInv, Reached
<1>1. /\ \A x \in OffsetsIn(acked'[tp]) :
            x \in OffsetsIn(acked[tp]) \/ \E g \in gap[tp] : Covers(g, x)
      /\ \A h \in gap'[tp] : \E g \in gap[tp] : g[1] <= h[1] /\ h[2] = g[2]
      /\ Clear(gap'[tp], OffsetsIn(acked'[tp])) /\ Disjoint(gap'[tp])
  BY CommitCallFacts
<1>2. /\ \A g \in gap[tp] : g[1] \in Nat /\ g[2] \in Nat
      /\ \A g \in gap'[tp] : g[1] \in Nat /\ g[2] \in Nat
  <2>1. gap[tp] \in SUBSET Interval /\ gap'[tp] \in SUBSET Interval
    BY DEF TypeOK
  <2> QED
    BY <2>1, IntervalPair
<1>3. /\ Clear(gap[tp], Log[tp] \cup OffsetsIn(acked[tp]))
      /\ \A g \in gap[tp] : Reached(tp, g[2] - 1)
      /\ \A a \in OffsetsIn(acked[tp]) : a \in Log[tp] \/ Reached(tp, a)
  BY DEF GapInv
<1>4. Clear(gap'[tp], Log[tp])
  <2> SUFFICES ASSUME NEW h \in gap'[tp], NEW x \in Log[tp]
               PROVE  x <= h[1] \/ h[2] - 1 <= x
    BY <1>1 DEF Clear
  <2>1. PICK g \in gap[tp] : g[1] <= h[1] /\ h[2] = g[2]
    BY <1>1
  <2>2. x <= g[1] \/ g[2] - 1 <= x
    BY <1>3 DEF Clear
  <2>3. x \in Nat
    BY NumberTypes
  <2> QED
    BY <1>2, <2>1, <2>2, <2>3
<1>5. Clear(gap'[tp], Log[tp] \cup OffsetsIn(acked'[tp]))
  BY <1>1, <1>4 DEF Clear
<1>6. \A g \in gap'[tp] : Reached(tp, g[2] - 1)
  BY <1>1, <1>3
<1>7. ASSUME NEW a \in OffsetsIn(acked'[tp])
      PROVE  a \in Log[tp] \/ Reached(tp, a)
  <2>1. CASE a \in OffsetsIn(acked[tp])
    BY <1>3, <2>1
  <2>2. ASSUME NEW g \in gap[tp], Covers(g, a)
        PROVE  Reached(tp, a)
    <3>1. a \in Nat /\ a < g[2] /\ g[2] \in Nat /\ readOffset[tp] \in Int
      BY <1>2, <2>2, OffsetIsNat, NumberTypes DEF OffsetsIn, Covers
    <3>2. \A m \in current : m.offset \in Nat
      BY NumberTypes
    <3>3. Reached(tp, g[2] - 1)
      BY <1>3
    <3> QED
      BY <3>1, <3>2, <3>3 DEF Reached
  <2> QED
    BY <1>1, <2>1, <2>2
<1> QED
  BY <1>1, <1>5, <1>6, <1>7

(* Dropping gaps, acking messages and reading on keep GapInv.              *)
LEMMA GapInvKept ==
    ASSUME TypeOK, GapInv,
           \A tp \in TP :
              \/ gap'[tp] = {} /\ OffsetsIn(acked'[tp]) = {}
              \/ /\ gap'[tp] \subseteq gap[tp]
                 /\ OffsetsIn(acked'[tp]) \subseteq OffsetsIn(acked[tp]) \cup Log[tp]
                 /\ \A n \in Int : Reached(tp, n) => Reached(tp, n)'
    PROVE  GapInv'
<1> SUFFICES ASSUME NEW tp \in TP
             PROVE  /\ Clear(gap'[tp], Log[tp] \cup OffsetsIn(acked'[tp]))
                    /\ Disjoint(gap'[tp])
                    /\ \A g \in gap'[tp] : Reached(tp, g[2] - 1)'
                    /\ \A a \in OffsetsIn(acked'[tp]) : a \in Log[tp] \/ Reached(tp, a)'
  BY DEF GapInv, Reached
<1>1. CASE gap'[tp] = {} /\ OffsetsIn(acked'[tp]) = {}
  BY <1>1 DEF Clear, Disjoint
<1>2. CASE /\ gap'[tp] \subseteq gap[tp]
           /\ OffsetsIn(acked'[tp]) \subseteq OffsetsIn(acked[tp]) \cup Log[tp]
           /\ \A n \in Int : Reached(tp, n) => Reached(tp, n)'
  <2>1. /\ Clear(gap[tp], Log[tp] \cup OffsetsIn(acked[tp])) /\ Disjoint(gap[tp])
        /\ \A g \in gap[tp] : Reached(tp, g[2] - 1)
        /\ \A a \in OffsetsIn(acked[tp]) : a \in Log[tp] \/ Reached(tp, a)
    BY DEF GapInv
  <2>2. Clear(gap'[tp], Log[tp] \cup OffsetsIn(acked'[tp]))
    BY <1>2, <2>1 DEF Clear
  <2>3. Disjoint(gap'[tp])
    BY <1>2, <2>1 DEF Disjoint
  <2>4. \A g \in gap'[tp] : Reached(tp, g[2] - 1)'
    <3>1. gap[tp] \in SUBSET Interval
      BY DEF TypeOK
    <3>2. \A g \in gap[tp] : g[2] - 1 \in Int
      BY <3>1, IntervalPair
    <3> QED
      BY <1>2, <2>1, <3>2
  <2>5. \A a \in OffsetsIn(acked[tp]) : a \in Int
    BY OffsetIsNat DEF OffsetsIn
  <2> QED
    BY <1>2, <2>1, <2>2, <2>3, <2>4, <2>5
<1> QED
  BY <1>1, <1>2

(* An ack adds the offset of its message and no other.                     *)
LEMMA AckOffsets ==
    ASSUME TypeOK, NEW m \in Message, Ack(m) \/ UNCHANGED <<acked, ackedIndex>>,
           NEW tp \in TP
    PROVE  \A x \in OffsetsIn(acked'[tp]) :
              x \in OffsetsIn(acked[tp]) \/ (tp = m.tp /\ x = m.offset)
<1>1. acked \in [TP -> [Offset -> Nat]] /\ m.tp \in TP /\ m.offset \in Offset
  BY DEF TypeOK, Message
<1>2. CASE UNCHANGED acked
  BY <1>2
<1>3. CASE acked' = [acked EXCEPT ![m.tp][m.offset] = @ + 1]
  BY <1>1, <1>3 DEF OffsetsIn
<1> QED
  BY <1>2, <1>3 DEF Ack

(* A gap is added where nothing was read and nothing acked.                *)
LEMMA GapInvFetchNext ==
    ASSUME TypeOK, FetchInv, PhaseInv, ReadInv, GapInv, NEW tp \in TP, FetchNext(tp)
    PROVE  GapInv'
<1>1. PICK o : o = Min(Wanted(tp))
  OBVIOUS
<1>2. /\ flowActive /\ batchGen = generation /\ current = {}
      /\ tp \in assignment
      /\ current' = {[tp |-> tp, offset |-> o, gen |-> generation]}
      /\ o \in batch[tp] /\ o \in Nat /\ readOffset[tp] <= o
      /\ \A x \in batch[tp] : readOffset[tp] <= x => o <= x
      /\ UNCHANGED <<flowActive, assignment, readOffset, acked>>
  BY <1>1, FetchNextFacts
<1>3. gap' = [gap EXCEPT ![tp] = @ \cup NewGap(tp, o)]
  BY <1>1 DEF FetchNext
<1>4. /\ gap \in [TP -> SUBSET Interval] /\ readOffset[tp] \in Int
      /\ position[tp] \in Nat /\ committedOffset[tp] \in Int /\ Log[tp] \subseteq Nat
  BY NumberTypes DEF TypeOK
<1>5. \A t \in TP, n \in Int : Reached(t, n) => Reached(t, n)'
  BY <1>2 DEF Reached
<1>6. \A n \in Int : Reached(tp, n) => n <= readOffset[tp]
  BY <1>2 DEF Reached
<1>7. Reached(tp, o)'
  <2>1. PICK m : m = [tp |-> tp, offset |-> o, gen |-> generation]
    OBVIOUS
  <2>2. m \in current' /\ m.tp = tp /\ o <= m.offset
    BY <1>2, <2>1
  <2> QED
    BY <1>2, <2>2 DEF Reached
<1>8. ASSUME NEW g \in NewGap(tp, o)
      PROVE  /\ readOffset[tp] < g[1] /\ g[1] < g[2] /\ g[2] = o + 1
             /\ g[1] \in Int
  BY <1>2, <1>4 DEF NewGap, HasGap, GapInterval
<1>9. ASSUME NEW g \in NewGap(tp, o), NEW x \in Log[tp]
      PROVE  x <= g[1] \/ g[2] - 1 <= x
  <2>1. SUFFICES ASSUME g[1] < x, x < o PROVE FALSE
    BY <1>2, <1>4, <1>8
  <2>2. readOffset[tp] < x /\ x \in Nat
    BY <1>4, <1>8, <2>1
  <2>3. o < position[tp]
    BY <1>2 DEF ReadInv, Batched
  <2>4. x \in batch[tp]
    BY <1>2, <1>4, <2>1, <2>2, <2>3 DEF ReadInv, Batched, Held
  <2> QED
    BY <1>2, <1>4, <2>1, <2>2, <2>4
<1>10. ASSUME NEW g \in NewGap(tp, o), NEW a \in OffsetsIn(acked[tp])
       PROVE  a <= g[1] \/ g[2] - 1 <= a
  <2>1. CASE a \in Log[tp]
    BY <1>9, <2>1
  <2>2. CASE a \notin Log[tp]
    <3>1. Reached(tp, a)
      BY <2>2 DEF GapInv
    <3>2. a \in Int
      BY OffsetIsNat DEF OffsetsIn
    <3> QED
      BY <1>4, <1>6, <1>8, <3>1, <3>2
  <2> QED
    BY <2>1, <2>2
<1>11. ASSUME NEW g \in NewGap(tp, o), NEW h \in gap[tp]
       PROVE  h[2] <= g[1]
  <2>1. Reached(tp, h[2] - 1) /\ h[2] \in Nat
    BY <1>4, IntervalPair DEF GapInv
  <2>2. h[2] - 1 <= readOffset[tp]
    BY <1>6, <2>1
  <2> QED
    BY <1>4, <1>8, <2>1, <2>2
<1>12. ASSUME NEW g \in NewGap(tp, o), NEW h \in NewGap(tp, o)
       PROVE  g = h
  BY <1>12 DEF NewGap, GapInterval
<1>13. ASSUME NEW t \in TP
       PROVE  /\ Clear(gap'[t], Log[t] \cup OffsetsIn(acked[t]))
              /\ Disjoint(gap'[t])
              /\ \A g \in gap'[t] : Reached(t, g[2] - 1)'
              /\ \A a \in OffsetsIn(acked[t]) : a \in Log[t] \/ Reached(t, a)'
  <2>1. /\ Clear(gap[t], Log[t] \cup OffsetsIn(acked[t])) /\ Disjoint(gap[t])
        /\ \A g \in gap[t] : Reached(t, g[2] - 1)' /\ g[2] \in Nat
        /\ \A a \in OffsetsIn(acked[t]) : a \in Log[t] \/ Reached(t, a)'
    <3>1. \A g \in gap[t] : g[2] \in Nat
      BY <1>4, IntervalPair
    <3>2. \A a \in OffsetsIn(acked[t]) : a \in Int
      <4>1. \A a \in OffsetsIn(acked[t]) : a \in Offset
        BY DEF OffsetsIn
      <4> QED
        BY <4>1, LastOffsetAssumption DEF Offset
    <3>3. /\ Clear(gap[t], Log[t] \cup OffsetsIn(acked[t])) /\ Disjoint(gap[t])
          /\ \A g \in gap[t] : Reached(t, g[2] - 1)
          /\ \A a \in OffsetsIn(acked[t]) : a \in Log[t] \/ Reached(t, a)
      BY DEF GapInv
    <3> QED
      BY <1>5, <3>1, <3>2, <3>3
  <2>2. CASE t # tp
    <3>1. gap'[t] = gap[t]
      BY <1>3, <1>4, <2>2
    <3> QED
      BY <2>1, <3>1
  <2>3. CASE t = tp
    <3>1. gap'[t] = gap[t] \cup NewGap(tp, o)
      BY <1>3, <1>4, <2>3
    <3>2. Clear(NewGap(tp, o), Log[t] \cup OffsetsIn(acked[t]))
      BY <1>8, <1>9, <1>10, <2>3 DEF Clear
    <3>3. Clear(gap'[t], Log[t] \cup OffsetsIn(acked[t]))
      BY <2>1, <3>1, <3>2 DEF Clear
    <3>4. Disjoint(gap'[t])
      BY <1>11, <1>12, <2>1, <2>3, <3>1 DEF Disjoint
    <3>5. \A g \in NewGap(tp, o) : g[2] - 1 = o
      BY <1>2, <1>8
    <3>6. \A g \in gap'[t] : Reached(t, g[2] - 1)'
      BY <1>7, <2>1, <2>3, <3>1, <3>5
    <3> QED
      BY <2>1, <3>3, <3>4, <3>6
  <2> QED
    BY <2>2, <2>3
<1> QED
  BY <1>2, <1>13 DEF GapInv, Reached

(* Delivering a message keeps GapInv.                                      *)
LEMMA GapInvDeliver ==
    ASSUME TypeOK, FetchInv, ReadInv, GapInv, Deliver
    PROVE  GapInv'
<1>1. PICK m \in current :
             /\ current = {m} /\ m \in Message
             /\ flowActive => queue' = Append(queue, m)
             /\ readOffset' = [readOffset EXCEPT ![m.tp] = m.offset]
             /\ current' = {}
             /\ UNCHANGED <<flowActive, assignment, position, generation,
                            inflight, batchGen, batch, acked, gap>>
  BY DeliverFacts
<1>2. readOffset \in [TP -> MaybeNext] /\ m.tp \in TP /\ m.offset \in Nat
  BY <1>1, NumberTypes DEF TypeOK
<1>3. ASSUME NEW tp \in TP, NEW n \in Int, Reached(tp, n)
      PROVE  Reached(tp, n)'
  <2>1. flowActive /\ tp \in assignment
    BY <1>3 DEF Reached
  <2>2. CASE tp = m.tp
    <3>1. readOffset'[tp] = m.offset
      BY <1>1, <1>2, <2>2
    <3>2. readOffset[tp] <= m.offset /\ readOffset[tp] \in Int
      BY <2>1, <2>2, NumberTypes DEF ReadInv
    <3>3. n <= m.offset
      BY <1>1, <1>2, <1>3, <3>2 DEF Reached
    <3> QED
      BY <1>1, <2>1, <3>1, <3>3 DEF Reached
  <2>3. CASE tp # m.tp
    <3>1. readOffset'[tp] = readOffset[tp]
      BY <1>1, <1>2, <2>3
    <3> QED
      BY <1>1, <1>3, <2>1, <2>3, <3>1 DEF Reached
  <2> QED
    BY <2>2, <2>3
<1> QED
  BY <1>1, <1>3, GapInvKept

(* The acks of the streams keep GapInv.                                    *)
LEMMA GapInvStreams ==
    ASSUME Orderly, TypeOK, FetchInv, GapInv, NEW w \in Workers,
           StreamTake(w) \/ StreamSkip(w) \/ StreamFinish(w)
    PROVE  GapInv'
<1>1. UNCHANGED <<gap, flowActive, assignment, readOffset, current>>
  BY DEF StreamTake, StreamSkip, StreamFinish, fetchVars, flowVars, brokerVars,
         trackVars
<1>2. \A tp \in TP, n \in Int : Reached(tp, n) => Reached(tp, n)'
  BY <1>1 DEF Reached
<1>3. CASE StreamTake(w) \/ StreamSkip(w)
  <2>1. acked' = acked
    BY <1>3 DEF StreamTake, StreamSkip, trackVars, Orderly
  <2> QED
    BY <1>1, <1>2, <2>1, GapInvKept
<1>4. CASE StreamFinish(w)
  <2>1. PICK m \in inflight[w] : Ack(m)
    BY <1>4 DEF StreamFinish
  <2>2. m \in Message /\ m.offset \in Log[m.tp]
    BY <2>1 DEF TypeOK, FetchInv
  <2>3. \A tp \in TP : OffsetsIn(acked'[tp]) \subseteq OffsetsIn(acked[tp]) \cup Log[tp]
    BY <2>1, <2>2, AckOffsets
  <2> QED
    BY <1>1, <1>2, <2>3, GapInvKept
<1> QED
  BY <1>3, <1>4

(* Every step keeps GapInv.                                                *)
LEMMA GapInvNext ==
    ASSUME Orderly
    PROVE  /\ TypeOK /\ TypeOK' /\ DrainInv /\ FetchInv /\ PhaseInv /\ ReadInv
           /\ GapInv /\ [Next]_vars
           => GapInv'
<1> SUFFICES ASSUME TypeOK, TypeOK', DrainInv, FetchInv, PhaseInv, ReadInv, GapInv,
                    [Next]_vars
             PROVE  GapInv'
  OBVIOUS
<1> USE DEF fetchVars, flowVars, rebalVars, brokerVars, streamVars, trackVars
<1>1. CASE UNCHANGED <<gap, acked, flowActive, assignment, readOffset, current>>
  <2>1. \A tp \in TP, n \in Int : Reached(tp, n) => Reached(tp, n)'
    BY <1>1 DEF Reached
  <2> QED
    BY <1>1, <2>1, GapInvKept
<1>2. CASE ~flowActive /\ UNCHANGED <<gap, acked>>
  <2>1. \A tp \in TP, n \in Int : ~Reached(tp, n)
    BY <1>2 DEF Reached
  <2> QED
    BY <1>2, <2>1, GapInvKept
<1>3. ASSUME NEW caller, CommitCall(caller),
             UNCHANGED <<flowActive, assignment, readOffset, current>>
      PROVE  GapInv'
  BY <1>3, GapInvCommit
<1>4. CASE CommitHandler
  <2>1. CommitCall("handler") /\ UNCHANGED <<flowActive, assignment, readOffset, current>>
    BY <1>4 DEF CommitHandler
  <2> QED
    BY <1>3, <2>1
<1>5. CASE FetcherCommit
  <2>1. CommitCall("fetcher") /\ UNCHANGED <<flowActive, assignment, readOffset, current>>
    BY <1>5 DEF FetcherCommit
  <2> QED
    BY <1>3, <2>1
<1>6. CASE WaitEmptyLoop \/ WaitEmptyDone
  <2>1. /\ CommitCall("rebalance") \/ UNCHANGED <<gap, acked>>
        /\ UNCHANGED <<flowActive, assignment, readOffset, current>>
    BY <1>6 DEF WaitEmptyLoop, WaitEmptyDone
  <2> QED
    BY <1>1, <1>3, <2>1
<1>7. ASSUME NEW tp \in TP, FetchNext(tp)
      PROVE  GapInv'
  BY <1>7, GapInvFetchNext
<1>8. CASE GapMerge
  <2>1. PICK m \in current : gap' = [gap EXCEPT ![m.tp] = MergeOverlaps(@)]
    BY <1>8 DEF GapMerge
  <2>2. m.tp \in TP /\ gap \in [TP -> SUBSET Interval]
    BY NumberTypes DEF TypeOK
  <2>3. \A tp \in TP : /\ gap[tp] \in SUBSET Interval /\ Disjoint(gap[tp])
                       /\ \A g \in gap[tp] : g[1] < g[2]
    BY <2>2 DEF GapInv, Clear
  <2>4. \A tp \in TP : gap'[tp] \subseteq gap[tp]
    BY <2>1, <2>2, <2>3, MergeDisjoint
  <2>5. UNCHANGED <<acked, flowActive, assignment, readOffset, current>>
    BY <1>8 DEF GapMerge
  <2>6. \A tp \in TP, n \in Int : Reached(tp, n) => Reached(tp, n)'
    BY <2>5 DEF Reached
  <2> QED
    BY <2>4, <2>5, <2>6, GapInvKept
<1>9. CASE Deliver
  BY <1>9, GapInvDeliver
<1>10. CASE Revoke
  <2>1. /\ gap' = Drop(gap, assignment, {})
        /\ acked' = Drop(acked, assignment, EmptyBag)
    BY <1>10 DEF Revoke
  <2>2. ASSUME NEW tp \in TP
        PROVE  \/ gap'[tp] = {} /\ OffsetsIn(acked'[tp]) = {}
               \/ /\ gap'[tp] \subseteq gap[tp]
                  /\ OffsetsIn(acked'[tp]) \subseteq OffsetsIn(acked[tp]) \cup Log[tp]
                  /\ \A n \in Int : Reached(tp, n) => Reached(tp, n)'
    <3>1. CASE tp \in assignment
      <4>1. gap'[tp] = {} /\ acked'[tp] = EmptyBag
        BY <2>1, <3>1 DEF Drop
      <4> QED
        BY <4>1 DEF EmptyBag, OffsetsIn
    <3>2. CASE tp \notin assignment
      <4>1. gap'[tp] = gap[tp] /\ acked'[tp] = acked[tp]
        BY <2>1, <3>2 DEF Drop
      <4> QED
        BY <3>2, <4>1 DEF Reached
    <3> QED
      BY <3>1, <3>2
  <2> QED
    BY <2>2, GapInvKept
<1>11. CASE Join \/ OnAssigned \/ SignalRecovery
  <2>1. ~flowActive /\ UNCHANGED <<gap, acked>>
    BY <1>11 DEF Join, OnAssigned, SignalRecovery, DrainInv
  <2> QED
    BY <1>2, <2>1
<1>12. CASE ResumeStreams \/ ResumeFlow
  <2>1. ~flowActive /\ UNCHANGED <<gap, acked>>
    BY <1>12 DEF ResumeStreams, ResumeFlow, PhaseInv
  <2> QED
    BY <1>2, <2>1
<1>13. CASE Crash
  <2>1. \A tp \in TP : gap'[tp] = {} /\ OffsetsIn(acked'[tp]) = {}
    BY <1>13 DEF Crash, Empty, EmptyBag, OffsetsIn
  <2> QED
    BY <2>1, GapInvKept
<1>14. CASE FetcherSeekDone
  <2>1. ~flowActive /\ UNCHANGED <<gap, acked>>
    BY <1>14 DEF FetcherSeekDone, PhaseInv
  <2> QED
    BY <1>2, <2>1
<1>15. ASSUME NEW w \in Workers, StreamTake(w) \/ StreamSkip(w) \/ StreamFinish(w)
       PROVE  GapInv'
  BY <1>15, GapInvStreams
<1>16. CASE \/ CommitAttached \/ CommitDone \/ FetchStart \/ FetchReturn
            \/ FetchReturnStopped \/ FetchBreak \/ FetcherCommitReturn
            \/ \E tp \in TP : OtherWorker(tp)
  BY <1>1, <1>16 DEF CommitAttached, CommitDone, FetchStart, FetchReturn,
     FetchReturnStopped, FetchBreak, FetcherCommitReturn, OtherWorker
<1>17. CASE UNCHANGED vars
  BY <1>1, <1>17 DEF vars
<1> QED
  BY <1>4, <1>5, <1>6, <1>7, <1>8, <1>9, <1>10, <1>11, <1>12, <1>13, <1>14,
     <1>15, <1>16, <1>17
  DEF Next, Fetcher, Callbacks, Recovery

-----------------------------------------------------------------------------
(* SettledInv.  A step settles what an agent finishes and what another     *)
(* worker commits.                                                         *)
Settles(H) ==
    /\ \A w \in Workers : StreamFinish(w) =>
          \A m \in inflight[w] : m.offset \in H[m.tp]
    /\ \A tp \in TP : OtherWorker(tp) => brokerCommitted'[tp] - 1 \in H[tp]

(* There is nothing to settle below the first offset.                      *)
LEMMA DoneNothing ==
    ASSUME TypeOK, NEW H, NEW tp \in TP
    PROVE  Done(H, tp, NoOffset) /\ Done(H, tp, 0)
  BY NumberTypes DEF Done, NoOffset

(* What is settled up to n is settled up to less.                          *)
LEMMA DoneBelow ==
    ASSUME TypeOK, NEW H, NEW tp \in TP, NEW n \in Int, NEW k \in Int, k <= n,
           Done(H, tp, n)
    PROVE  Done(H, tp, k)
  BY NumberTypes DEF Done

(* At the start there is nothing to settle.                                *)
LEMMA SettledInit == ASSUME NEW H PROVE Init /\ TypeOK => SettledInv(H)
<1> SUFFICES ASSUME Init, TypeOK PROVE SettledInv(H)
  OBVIOUS
<1>1. \A tp \in TP : /\ brokerCommitted[tp] = NoOffset
                     /\ commitOffsets[tp] = NoOffset
                     /\ OffsetsIn(acked[tp]) = {}
  BY DEF Init, NoOffsets, OffsetsIn, EmptyBag
<1>2. recovPc = "idle" /\ \A w \in Workers : inflight[w] = {}
  BY DEF Init
<1> QED
  BY <1>1, <1>2, DoneNothing
  DEF SettledInv, SettledOffsets, SettledAgents, SettledSeek

(* commit() computes an offset with only settled messages below it.        *)
LEMMA SettledCommit ==
    ASSUME TypeOK, TypeOK', GapInv, NEW H, SettledOffsets(H), NEW caller,
           CommitCall(caller), UNCHANGED brokerCommitted
    PROVE  SettledOffsets(H)'
<1> SUFFICES ASSUME NEW tp \in TP
             PROVE  /\ Done(H, tp, brokerCommitted[tp])
                    /\ Done(H, tp, commitOffsets'[tp])
                    /\ \A a \in OffsetsIn(acked'[tp]) : Done(H, tp, a + 1)
  BY DEF SettledOffsets, Done
<1>1. /\ \A x \in OffsetsIn(acked'[tp]) : \E y \in OffsetsIn(acked[tp]) : x <= y
      /\ \/ commitOffsets'[tp] = commitOffsets[tp]
         \/ commitOffsets'[tp] = NoOffset
         \/ \E y \in OffsetsIn(acked[tp]) : commitOffsets'[tp] <= y + 1
  BY CommitCallFacts
<1>2. /\ Done(H, tp, brokerCommitted[tp]) /\ Done(H, tp, commitOffsets[tp])
      /\ \A y \in OffsetsIn(acked[tp]) : Done(H, tp, y + 1)
  BY DEF SettledOffsets
<1>3. /\ \A y \in OffsetsIn(acked[tp]) : y \in Nat
      /\ \A y \in OffsetsIn(acked'[tp]) : y \in Nat
  BY OffsetIsNat DEF OffsetsIn
<1>4. commitOffsets'[tp] \in Int
  <2>1. commitOffsets'[tp] \in MaybeNext
    BY DEF TypeOK
  <2>2. MaybeNext \subseteq Int
    BY OffsetIsNat DEF MaybeNext, NoOffset
  <2> QED
    BY <2>1, <2>2
<1>5. Done(H, tp, commitOffsets'[tp])
  <2>1. ASSUME NEW y \in OffsetsIn(acked[tp]), commitOffsets'[tp] <= y + 1
        PROVE  Done(H, tp, commitOffsets'[tp])
    BY <1>2, <1>3, <1>4, <2>1, DoneBelow
  <2> QED
    BY <1>1, <1>2, <2>1, DoneNothing
<1>6. ASSUME NEW a \in OffsetsIn(acked'[tp])
      PROVE  Done(H, tp, a + 1)
  <2>1. PICK y \in OffsetsIn(acked[tp]) : a <= y
    BY <1>1
  <2>2. a + 1 \in Int /\ y + 1 \in Int /\ a + 1 <= y + 1
    BY <1>3, <2>1
  <2> QED
    BY <1>2, <2>2, DoneBelow
<1> QED
  BY <1>2, <1>5, <1>6

(* Every step that settles what it finishes keeps SettledOffsets.          *)
LEMMA SettledOffsetsNext ==
    ASSUME Orderly, NEW H, TypeOK, TypeOK', FetchInv, GapInv, SettledOffsets(H),
           SettledAgents(H), [Next]_vars, Settles(H)
    PROVE  SettledOffsets(H)'
<1> USE DEF fetchVars, flowVars, rebalVars, brokerVars, streamVars, trackVars,
            commitVars
<1>1. CASE UNCHANGED <<acked, commitOffsets, brokerCommitted>>
  BY <1>1 DEF SettledOffsets, Done
<1>2. CASE CommitHandler
  <2>1. CommitCall("handler") /\ UNCHANGED brokerCommitted
    BY <1>2 DEF CommitHandler
  <2> QED
    BY <2>1, SettledCommit
<1>3. CASE FetcherCommit
  <2>1. CommitCall("fetcher") /\ UNCHANGED brokerCommitted
    BY <1>3 DEF FetcherCommit
  <2> QED
    BY <2>1, SettledCommit
<1>4. CASE WaitEmptyLoop \/ WaitEmptyDone
  <2>1. /\ CommitCall("rebalance") \/ UNCHANGED <<acked, commitOffsets>>
        /\ UNCHANGED brokerCommitted
    BY <1>4 DEF WaitEmptyLoop, WaitEmptyDone
  <2> QED
    BY <1>1, <2>1, SettledCommit
<1>5. CASE CommitAttached
  <2>1. UNCHANGED <<acked, brokerCommitted>>
    BY <1>5 DEF CommitAttached
  <2>2. \A tp \in TP : commitOffsets'[tp] = commitOffsets[tp] \/ commitOffsets'[tp] = NoOffset
    BY <1>5 DEF CommitAttached, CommitEnd, NoOffsets
  <2>3. \A tp \in TP : Done(H, tp, commitOffsets'[tp])
    BY <2>2, DoneNothing DEF SettledOffsets
  <2> QED
    BY <2>1, <2>3 DEF SettledOffsets, Done
<1>6. CASE CommitDone
  <2>1. UNCHANGED acked
    BY <1>6 DEF CommitDone
  <2>2. \A tp \in TP : commitOffsets'[tp] = NoOffset
    BY <1>6 DEF CommitDone, CommitEnd, NoOffsets
  <2>3. \A tp \in TP : \/ brokerCommitted'[tp] = commitOffsets[tp]
                       \/ brokerCommitted'[tp] = brokerCommitted[tp]
    BY <1>6 DEF CommitDone
  <2>4. \A tp \in TP : Done(H, tp, commitOffsets'[tp]) /\ Done(H, tp, brokerCommitted'[tp])
    BY <2>2, <2>3, DoneNothing DEF SettledOffsets
  <2> QED
    BY <2>1, <2>4 DEF SettledOffsets, Done
<1>7. ASSUME NEW w \in Workers, StreamFinish(w)
      PROVE  SettledOffsets(H)'
  <2>1. PICK m \in inflight[w] : Ack(m)
    BY <1>7 DEF StreamFinish
  <2>2. m \in Message /\ m.tp \in TP /\ m.offset \in Nat /\ m.offset \in H[m.tp]
    BY <1>7, NumberTypes DEF Settles, TypeOK
  <2>3. Done(H, m.tp, m.offset + 1)
    <3>1. Done(H, m.tp, m.offset)
      BY DEF SettledAgents
    <3>2. \A x \in Log[m.tp] : x \in Nat /\ (x < m.offset + 1 => x < m.offset \/ x = m.offset)
      BY <2>2, NumberTypes
    <3> QED
      BY <2>2, <3>1, <3>2 DEF Done
  <2>4. \A tp \in TP : \A a \in OffsetsIn(acked'[tp]) : Done(H, tp, a + 1)
    BY <2>1, <2>2, <2>3, AckOffsets DEF SettledOffsets
  <2>5. UNCHANGED <<commitOffsets, brokerCommitted>>
    BY <1>7 DEF StreamFinish
  <2> QED
    BY <2>4, <2>5 DEF SettledOffsets, Done
<1>8. CASE \E w \in Workers : StreamTake(w) \/ StreamSkip(w)
  BY <1>1, <1>8 DEF StreamTake, StreamSkip, Orderly
<1>9. CASE Revoke
  <2>1. UNCHANGED <<commitOffsets, brokerCommitted>>
    BY <1>9 DEF Revoke
  <2>2. \A tp \in TP : acked'[tp] = acked[tp] \/ acked'[tp] = EmptyBag
    BY <1>9 DEF Revoke, Drop
  <2>3. OffsetsIn(EmptyBag) = {}
    BY DEF OffsetsIn, EmptyBag
  <2>4. \A tp \in TP : \A a \in OffsetsIn(acked'[tp]) : Done(H, tp, a + 1)
    BY <2>2, <2>3 DEF SettledOffsets
  <2> QED
    BY <2>1, <2>4 DEF SettledOffsets, Done
<1>10. ASSUME NEW tp \in TP, OtherWorker(tp)
       PROVE  SettledOffsets(H)'
  <2>1. PICK o \in Log[tp] :
           /\ \A p \in Log[tp] : brokerCommitted[tp] <= p => o <= p
           /\ brokerCommitted' = [brokerCommitted EXCEPT ![tp] = o + 1]
    BY <1>10 DEF OtherWorker
  <2>2. brokerCommitted \in [TP -> MaybeNext] /\ o \in Nat /\ brokerCommitted[tp] \in Int
    BY NumberTypes DEF TypeOK
  <2>3. brokerCommitted'[tp] = o + 1 /\ o \in H[tp]
    <3>1. brokerCommitted'[tp] = o + 1
      BY <2>1, <2>2
    <3>2. brokerCommitted'[tp] - 1 = o
      BY <2>2, <3>1
    <3>3. brokerCommitted'[tp] - 1 \in H[tp]
      BY <1>10 DEF Settles
    <3> QED
      BY <3>1, <3>2, <3>3
  <2>4. ASSUME NEW p \in Log[tp], p < o + 1
        PROVE  p \in H[tp]
    <3>1. p \in Nat
      BY NumberTypes
    <3>2. p = o \/ p < brokerCommitted[tp]
      BY <2>1, <2>2, <2>4, <3>1
    <3> QED
      BY <2>3, <3>2 DEF SettledOffsets, Done
  <2>5. \A t \in TP : Done(H, t, brokerCommitted'[t])
    <3>1. \A t \in TP : t # tp => brokerCommitted'[t] = brokerCommitted[t]
      BY <2>1, <2>2
    <3> QED
      BY <2>3, <2>4, <3>1 DEF SettledOffsets, Done
  <2>6. UNCHANGED <<acked, commitOffsets>>
    BY <1>10 DEF OtherWorker
  <2> QED
    BY <2>5, <2>6 DEF SettledOffsets, Done
<1>11. CASE Crash
  <2>1. \A tp \in TP : commitOffsets'[tp] = NoOffset /\ OffsetsIn(acked'[tp]) = {}
    BY <1>11 DEF Crash, NoOffsets, OffsetsIn, EmptyBag
  <2>2. UNCHANGED brokerCommitted
    BY <1>11 DEF Crash
  <2> QED
    BY <2>1, <2>2, DoneNothing DEF SettledOffsets, Done
<1>12. CASE \/ Join \/ OnAssigned \/ SignalRecovery \/ ResumeStreams \/ ResumeFlow
            \/ FetchStart \/ FetchReturn \/ FetchReturnStopped \/ FetcherSeekDone
            \/ FetchBreak \/ GapMerge \/ FetcherCommitReturn \/ Deliver
            \/ \E tp \in TP : FetchNext(tp)
  BY <1>1, <1>12 DEF Join, OnAssigned, SignalRecovery, ResumeStreams, ResumeFlow,
     FetchStart, FetchReturn, FetchReturnStopped, FetcherSeekDone, FetchBreak,
     GapMerge, FetcherCommitReturn, Deliver, FetchNext
<1>13. CASE UNCHANGED vars
  BY <1>1, <1>13 DEF vars
<1> QED
  BY <1>2, <1>3, <1>4, <1>5, <1>6, <1>7, <1>8, <1>9, <1>10, <1>11, <1>12, <1>13
  DEF Next, Fetcher, Callbacks, Recovery

(* A stream takes a message when those before it are settled: there is one *)
(* agent task.                                                             *)
LEMMA SettledAgentsNext ==
    ASSUME Orderly, NEW H, TypeOK, SettledAgents(H), OrderQueue(H),
           [Next]_vars
    PROVE  SettledAgents(H)'
<1> USE DEF streamVars
<1>1. CASE UNCHANGED inflight
  BY <1>1 DEF SettledAgents, Done
<1>2. ASSUME NEW w \in Workers, StreamTake(w)
      PROVE  SettledAgents(H)'
  <2>1. /\ queue # <<>> /\ inflight[w] = {} /\ flowActive
        /\ Head(queue).gen = generation
        /\ inflight' = [inflight EXCEPT ![w] = {Head(queue)}]
    BY <1>2 DEF StreamTake, Stale
  <2>2. PICK m \in Message : m = Head(queue) /\ queue[1] = m /\ 1 \in 1..Len(queue)
    BY <2>1, NumberTypes, TailFacts
  <2>3. ASSUME NEW x \in Log[m.tp], x < m.offset
        PROVE  x \in H[m.tp]
    <3>1. x \in H[m.tp] \/ InAgent(m.tp, x) \/ QueuedBefore(m.tp, x, 1)
      BY <2>1, <2>2, <2>3 DEF OrderQueue
    <3>2. ~InAgent(m.tp, x)
      BY <2>1 DEF InAgent, Orderly
    <3>3. ~QueuedBefore(m.tp, x, 1)
      BY DEF QueuedBefore
    <3> QED
      BY <3>1, <3>2, <3>3
  <2>5. Done(H, m.tp, m.offset)
    BY <2>3 DEF Done
  <2>6. \A v \in Workers : inflight'[v] = inflight[v] \/ inflight'[v] = {m}
    BY <2>1, <2>2, NumberTypes
  <2> QED
    BY <2>5, <2>6 DEF SettledAgents, Done
<1>3. ASSUME NEW w \in Workers, StreamFinish(w)
      PROVE  SettledAgents(H)'
  <2>1. \A v \in Workers : inflight'[v] = inflight[v] \/ inflight'[v] = {}
    BY <1>3, NumberTypes DEF StreamFinish
  <2> QED
    BY <2>1 DEF SettledAgents, Done
<1>4. CASE Crash
  BY <1>4 DEF Crash, SettledAgents
<1>5. CASE \/ CommitHandler \/ CommitAttached \/ CommitDone
           \/ WaitEmptyLoop \/ WaitEmptyDone \/ Revoke
           \/ Join \/ OnAssigned \/ SignalRecovery \/ ResumeStreams \/ ResumeFlow
           \/ \E tp \in TP : OtherWorker(tp)
           \/ \E w \in Workers : StreamSkip(w)
  BY <1>1, <1>5 DEF CommitHandler, CommitAttached, CommitDone, WaitEmptyLoop,
     WaitEmptyDone, Revoke, Join, OnAssigned, SignalRecovery, ResumeStreams,
     ResumeFlow, OtherWorker, StreamSkip
<1>6. CASE Fetcher \/ FetcherCommit
  BY <1>1, <1>6 DEF Fetcher, FetcherCommit,
     FetchStart, FetchReturn, FetchReturnStopped, FetcherSeekDone, FetchBreak,
     GapMerge, FetcherCommitReturn, Deliver, FetchNext
<1>7. CASE UNCHANGED vars
  BY <1>1, <1>7 DEF vars
<1> QED
  BY <1>2, <1>3, <1>4, <1>5, <1>6, <1>7 DEF Next, Callbacks, Recovery

(* The streams are sought at what is committed.                            *)
LEMMA SettledSeekNext ==
    ASSUME Orderly, NEW H, TypeOK, DrainInv, PhaseInv, SettledOffsets(H),
           SettledSeek(H), [Next]_vars
    PROVE  SettledSeek(H)'
<1> USE DEF fetchVars, flowVars, rebalVars, brokerVars, streamVars
<1>1. CASE /\ recovPc' = "seeking" => recovPc = "seeking"
           /\ recovPc = "seeking" => UNCHANGED <<assignment, position, seeking["recovery"]>>
  BY <1>1 DEF SettledSeek, Done
<1>2. CASE FetchReturn \/ FetchReturnStopped \/ FetcherSeekDone
  <2>1. recovPc # "seeking" /\ recovPc' = recovPc
    BY <1>2 DEF FetchReturn, FetchReturnStopped, FetcherSeekDone, PhaseInv,
                FetcherAtRest
  <2> QED
    BY <1>1, <2>1
<1>3. CASE Join
  <2>1. recovPc # "seeking" /\ recovPc' = recovPc
    BY <1>3 DEF Join, DrainInv
  <2> QED
    BY <1>1, <2>1
<1>4. CASE ResumeStreams
  <2>1. recovPc' \in {"seeking", "idle"}
    BY <1>4 DEF ResumeStreams
  <2>2. SUFFICES ASSUME recovPc' = "seeking" PROVE SettledSeek(H)'
    BY <2>1 DEF SettledSeek
  <2>3. SeekToCommitted("recovery") /\ assignment' = assignment
    BY <1>4, <2>2 DEF ResumeStreams
  <2>4. ASSUME NEW tp \in assignment
        PROVE  /\ Done(H, tp, position'[tp])
               /\ \/ seeking'["recovery"][tp] = position'[tp]
                  \/ seeking'["recovery"][tp] = NoOffset /\ position'[tp] = 0
    <3>1. tp \in TP /\ DOMAIN seeking = Seekers /\ "recovery" \in Seekers
      BY DEF TypeOK, Seekers
    <3>2. /\ seeking'["recovery"][tp] = brokerCommitted[tp]
          /\ position'[tp] = StartPosition(tp)
      BY <2>3, <3>1 DEF SeekToCommitted
    <3>3. Done(H, tp, brokerCommitted[tp]) /\ Done(H, tp, 0)
      BY <3>1, DoneNothing DEF SettledOffsets
    <3> QED
      BY <3>2, <3>3 DEF StartPosition
  <2> QED
    BY <2>3, <2>4 DEF SettledSeek, Done
<1>5. CASE ResumeFlow \/ SignalRecovery \/ Crash
  <2>1. recovPc' # "seeking"
    BY <1>5 DEF ResumeFlow, SignalRecovery, Crash
  <2> QED
    BY <2>1 DEF SettledSeek
<1>6. CASE \/ CommitHandler \/ CommitAttached \/ CommitDone
           \/ WaitEmptyLoop \/ WaitEmptyDone \/ Revoke \/ OnAssigned
           \/ FetcherCommit
           \/ FetchStart \/ FetchBreak \/ GapMerge \/ FetcherCommitReturn \/ Deliver
  BY <1>1, <1>6 DEF CommitHandler, CommitAttached, CommitDone, WaitEmptyLoop,
     WaitEmptyDone, Revoke, OnAssigned, FetcherCommit, FetchStart,
     FetchBreak, GapMerge, FetcherCommitReturn, Deliver
<1>7. CASE \E tp \in TP : OtherWorker(tp) \/ FetchNext(tp)
  BY <1>1, <1>7 DEF OtherWorker, FetchNext
<1>8. CASE \E w \in Workers : StreamTake(w) \/ StreamSkip(w) \/ StreamFinish(w)
  BY <1>1, <1>8 DEF StreamTake, StreamSkip, StreamFinish
<1>9. CASE UNCHANGED vars
  BY <1>1, <1>9 DEF vars
<1> QED
  BY <1>2, <1>3, <1>4, <1>5, <1>6, <1>7, <1>8, <1>9
  DEF Next, Fetcher, Callbacks, Recovery

-----------------------------------------------------------------------------
(* OrderInv holds at the start.                                            *)
LEMMA OrderInit == ASSUME NEW H PROVE Init => OrderInv(H)
  BY DEF Init, OrderInv, OrderQueue, OrderHeld, OrderRead

(* Steps that leave queue and agents alone keep what is ahead.             *)
LEMMA AheadKept ==
    ASSUME NEW H, UNCHANGED <<queue, inflight, generation>>, NEW tp, NEW x
    PROVE  Ahead(H, tp, x) => Ahead(H, tp, x)'
  BY DEF Ahead, InAgent, Queued, QueuedBefore

(* Steps that leave queue and agents alone keep OrderQueue.                *)
LEMMA OrderQueueKept ==
    ASSUME NEW H, UNCHANGED <<queue, inflight, generation, flowActive>>, OrderQueue(H)
    PROVE  OrderQueue(H)'
  BY DEF OrderQueue, InAgent, QueuedBefore

(* A message that is delivered gets in line behind the others.             *)
LEMMA AheadDeliver ==
    ASSUME NEW H, TypeOK, NEW m \in Message, queue' = Append(queue, m),
           UNCHANGED <<inflight, generation>>, NEW tp, NEW x, Ahead(H, tp, x)
    PROVE  /\ Ahead(H, tp, x)'
           /\ \/ x \in H[tp] \/ InAgent(tp, x)'
              \/ \E j \in 1..Len(queue) :
                    queue'[j] = [tp |-> tp, offset |-> x, gen |-> generation]
<1>1. queue \in Seq(Message)
  BY DEF TypeOK
<1>2. /\ Len(queue) \in Nat /\ Len(queue') = Len(queue) + 1
      /\ \A i \in 1..Len(queue) : queue'[i] = queue[i]
  BY <1>1, AppendFacts
<1>3. CASE x \in H[tp] \/ InAgent(tp, x)
  BY <1>3 DEF Ahead, InAgent
<1>4. CASE Queued(tp, x)
  <2>1. PICK j \in 1..Len(queue) : queue[j] = [tp |-> tp, offset |-> x, gen |-> generation]
    BY <1>2, <1>4 DEF Queued, QueuedBefore
  <2>2. j \in 1..(Len(queue') + 1 - 1) /\ queue'[j] = queue[j]
    BY <1>2, <2>1
  <2>3. Queued(tp, x)'
    BY <2>1, <2>2 DEF Queued, QueuedBefore
  <2> QED
    BY <2>1, <2>2, <2>3 DEF Ahead
<1> QED
  BY <1>3, <1>4 DEF Ahead

(* A delivered message is in the queue.                                    *)
LEMMA QueuedDeliver ==
    ASSUME TypeOK, NEW m \in Message, queue' = Append(queue, m),
           UNCHANGED generation, m.gen = generation
    PROVE  Queued(m.tp, m.offset)'
<1>1. Len(queue') \in 1..(Len(queue') + 1 - 1) /\ queue'[Len(queue')] = m
  BY NumberTypes, AppendFacts
<1>2. m = [tp |-> m.tp, offset |-> m.offset, gen |-> generation]
  BY DEF Message
<1> QED
  BY <1>1, <1>2 DEF Queued, QueuedBefore

(* Delivering a message keeps the order.                                   *)
LEMMA OrderDeliver ==
    ASSUME NEW H, TypeOK, FetchInv, PhaseInv, ReadInv, OrderInv(H), Deliver
    PROVE  OrderInv(H)'
<1>1. PICK m \in current :
             /\ current = {m} /\ m \in Message
             /\ flowActive => queue' = Append(queue, m)
             /\ readOffset' = [readOffset EXCEPT ![m.tp] = m.offset]
             /\ current' = {}
             /\ UNCHANGED <<flowActive, assignment, position, generation,
                            inflight, batchGen, batch, acked, gap>>
  BY DeliverFacts
<1>2. SUFFICES ASSUME flowActive PROVE OrderInv(H)'
  BY <1>1 DEF OrderInv, OrderQueue, OrderHeld, OrderRead
<1>3. queue' = Append(queue, m) /\ m.gen = generation /\ queue \in Seq(Message)
  BY <1>1, <1>2, NumberTypes DEF PhaseInv
<1>4. /\ Len(queue) \in Nat /\ Len(queue') = Len(queue) + 1
      /\ \A i \in 1..Len(queue) : queue'[i] = queue[i]
      /\ queue'[Len(queue) + 1] = m
  BY <1>1, <1>3, AppendFacts
<1>5. OrderQueue(H)'
  <2> SUFFICES ASSUME NEW i \in 1..Len(queue'), queue'[i].gen = generation,
                      NEW x \in Log[queue'[i].tp], x < queue'[i].offset
               PROVE  \/ x \in H[queue'[i].tp]
                      \/ \E w \in Workers : \E n \in inflight[w] :
                            n.tp = queue'[i].tp /\ n.offset = x
                      \/ \E j \in 1..(i - 1) : queue'[j] =
                            [tp |-> queue'[i].tp, offset |-> x, gen |-> generation]
    BY <1>1 DEF OrderQueue, InAgent, QueuedBefore
  <2>1. CASE i \in 1..Len(queue)
    <3>1. queue'[i] = queue[i] /\ \A j \in 1..(i - 1) : queue'[j] = queue[j]
      BY <1>4, <2>1
    <3> QED
      BY <1>2, <2>1, <3>1 DEF OrderInv, OrderQueue, InAgent, QueuedBefore
  <2>2. CASE i = Len(queue) + 1
    <3>1. queue'[i] = m
      BY <1>4, <2>2
    <3>2. Ahead(H, m.tp, x)
      BY <1>2, <3>1 DEF OrderInv, OrderHeld
    <3>3. \/ x \in H[m.tp] \/ InAgent(m.tp, x)'
          \/ \E j \in 1..Len(queue) :
                queue'[j] = [tp |-> m.tp, offset |-> x, gen |-> generation]
      BY <1>1, <1>3, <3>2, AheadDeliver
    <3>4. Len(queue) = i - 1
      BY <1>4, <2>2
    <3> QED
      BY <1>1, <3>1, <3>3, <3>4 DEF InAgent
  <2> QED
    BY <1>4, <2>1, <2>2
<1>6. OrderHeld(H)'
  BY <1>1 DEF OrderHeld
<1>7. OrderRead(H)'
  <2> SUFFICES ASSUME NEW tp \in assignment, NEW x \in Log[tp], x < position[tp]
               PROVE  \/ Ahead(H, tp, x)' \/ Held(tp, x)'
                      \/ x \in Batched(tp)' /\ readOffset'[tp] <= x
    BY <1>1 DEF OrderRead
  <2>1. CASE Ahead(H, tp, x)
    BY <1>1, <1>3, <2>1, AheadDeliver
  <2>2. CASE Held(tp, x)
    <3>1. m.tp = tp /\ m.offset = x
      BY <1>1, <2>2 DEF Held
    <3> QED
      BY <1>1, <1>3, <3>1, QueuedDeliver DEF Ahead
  <2>3. CASE x \in Batched(tp) /\ readOffset[tp] <= x
    <3>1. Batched(tp)' = Batched(tp)
      BY <1>1 DEF Batched
    <3>2. tp \in TP /\ m.tp \in TP /\ readOffset \in [TP -> MaybeNext]
          /\ x \in Nat /\ m.offset \in Nat
      BY <1>1, NumberTypes DEF TypeOK
    <3>3. m.tp = tp => m.offset < x
      BY <1>2, <2>3 DEF ReadInv
    <3>4. readOffset'[tp] = IF m.tp = tp THEN m.offset ELSE readOffset[tp]
      BY <1>1, <3>2
    <3>5. readOffset'[tp] <= x
      BY <2>3, <3>2, <3>3, <3>4
    <3> QED
      BY <2>3, <3>1, <3>5
  <2> QED
    BY <1>2, <2>1, <2>2, <2>3 DEF OrderInv, OrderRead
<1> QED
  BY <1>5, <1>6, <1>7 DEF OrderInv

(* An agent that takes or finishes a message keeps the order.              *)
LEMMA OrderTake ==
    ASSUME NEW H, TypeOK, OrderInv(H), NEW w \in Workers, StreamTake(w) \/ StreamSkip(w)
    PROVE  OrderInv(H)'
<1>1. /\ queue # <<>> /\ inflight[w] = {} /\ queue' = Tail(queue)
      /\ UNCHANGED <<flowActive, assignment, position, generation, batchGen, batch,
                     readOffset, current>>
  BY DEF StreamTake, StreamSkip, flowVars, brokerVars, fetchVars
<1>2. SUFFICES ASSUME flowActive PROVE OrderInv(H)'
  BY <1>1 DEF OrderInv, OrderQueue, OrderHeld, OrderRead
<1>3. queue \in Seq(Message)
  BY NumberTypes
<1>4. /\ Len(queue) \in Nat /\ 0 < Len(queue) /\ Head(queue) = queue[1]
      /\ Len(queue') = Len(queue) - 1
      /\ \A i \in 1..Len(queue') : i + 1 \in 1..Len(queue) /\ queue'[i] = queue[i + 1]
  BY <1>1, <1>3, TailFacts
<1>5. \A v \in Workers : inflight[v] \subseteq inflight'[v]
  BY <1>1, NumberTypes DEF StreamTake, StreamSkip
<1>6. ASSUME NEW tp, NEW x, InAgent(tp, x)
      PROVE  InAgent(tp, x)'
  BY <1>5, <1>6 DEF InAgent
<1>7. ASSUME NEW tp, NEW x,
             queue[1] = [tp |-> tp, offset |-> x, gen |-> generation]
      PROVE  InAgent(tp, x)'
  <2>1. queue[1].gen = generation /\ queue[1].tp = tp /\ queue[1].offset = x
    BY <1>7
  <2>2. StreamTake(w)
    BY <1>2, <1>4, <2>1 DEF StreamSkip, Stale
  <2>3. inflight'[w] = {queue[1]}
    BY <1>4, <2>2, NumberTypes DEF StreamTake
  <2> QED
    BY <2>1, <2>3 DEF InAgent
<1>8. ASSUME NEW tp, NEW x, NEW i \in 1..(Len(queue) + 1), QueuedBefore(tp, x, i)
      PROVE  \/ InAgent(tp, x)'
             \/ \E j \in 1..(i - 2) :
                   queue'[j] = [tp |-> tp, offset |-> x, gen |-> generation]
  <2>1. PICK j \in 1..(i - 1) : queue[j] = [tp |-> tp, offset |-> x, gen |-> generation]
    BY <1>8 DEF QueuedBefore
  <2>2. CASE j = 1
    BY <1>7, <2>1, <2>2
  <2>3. CASE j # 1
    <3>1. j - 1 \in 1..(i - 2) /\ j - 1 \in 1..Len(queue') /\ (j - 1) + 1 = j
      BY <1>4, <2>1, <2>3
    <3>2. queue'[j - 1] = queue[j]
      BY <1>4, <3>1
    <3> QED
      BY <2>1, <3>1, <3>2
  <2> QED
    BY <2>2, <2>3
<1>9. ASSUME NEW tp, NEW x, Ahead(H, tp, x)
      PROVE  Ahead(H, tp, x)'
  <2>1. CASE x \in H[tp] \/ InAgent(tp, x)
    BY <1>6, <2>1 DEF Ahead
  <2>2. CASE Queued(tp, x)
    <3>1. \/ InAgent(tp, x)'
          \/ \E j \in 1..(Len(queue) + 1 - 2) :
                queue'[j] = [tp |-> tp, offset |-> x, gen |-> generation]
      BY <1>4, <1>8, <2>2 DEF Queued
    <3>2. Len(queue) + 1 - 2 = Len(queue') + 1 - 1
      BY <1>4
    <3> QED
      BY <1>1, <3>1, <3>2 DEF Ahead, Queued, QueuedBefore
  <2> QED
    BY <1>9, <2>1, <2>2 DEF Ahead
<1>10. OrderQueue(H)'
  <2> SUFFICES ASSUME NEW i \in 1..Len(queue'), queue'[i].gen = generation,
                      NEW x \in Log[queue'[i].tp], x < queue'[i].offset
               PROVE  \/ x \in H[queue'[i].tp]
                      \/ \E v \in Workers : \E n \in inflight'[v] :
                            n.tp = queue'[i].tp /\ n.offset = x
                      \/ \E j \in 1..(i - 1) : queue'[j] =
                            [tp |-> queue'[i].tp, offset |-> x, gen |-> generation]
    BY <1>1 DEF OrderQueue, InAgent, QueuedBefore
  <2>1. i + 1 \in 1..Len(queue) /\ queue'[i] = queue[i + 1]
    BY <1>4
  <2>2. PICK q : q = queue[i + 1]
    OBVIOUS
  <2>3. \/ x \in H[q.tp] \/ InAgent(q.tp, x) \/ QueuedBefore(q.tp, x, i + 1)
    BY <1>2, <2>1, <2>2 DEF OrderInv, OrderQueue
  <2>4. i + 1 \in 1..(Len(queue) + 1) /\ (i + 1) - 2 = i - 1
    BY <1>4, <2>1
  <2>5. QueuedBefore(q.tp, x, i + 1) =>
           \/ InAgent(q.tp, x)'
           \/ \E j \in 1..(i - 1) :
                 queue'[j] = [tp |-> q.tp, offset |-> x, gen |-> generation]
    BY <1>8, <2>4
  <2>6. \/ x \in H[q.tp] \/ InAgent(q.tp, x)'
        \/ \E j \in 1..(i - 1) :
              queue'[j] = [tp |-> q.tp, offset |-> x, gen |-> generation]
    BY <1>6, <2>3, <2>5
  <2> QED
    BY <2>1, <2>2, <2>6 DEF InAgent
<1>11. OrderHeld(H)' /\ OrderRead(H)'
  <2>1. \A tp : Batched(tp)' = Batched(tp)
    BY <1>1 DEF Batched
  <2>2. \A tp, x : Held(tp, x) => Held(tp, x)'
    BY <1>1 DEF Held
  <2>3. OrderHeld(H)'
    BY <1>1, <1>2, <1>9 DEF OrderInv, OrderHeld
  <2>4. OrderRead(H)'
    BY <1>1, <1>2, <1>9, <2>1, <2>2 DEF OrderInv, OrderRead
  <2> QED
    BY <2>3, <2>4
<1> QED
  BY <1>10, <1>11 DEF OrderInv

(* Finishing an event settles it and keeps the order.                      *)
LEMMA OrderFinish ==
    ASSUME NEW H, TypeOK, OrderInv(H), NEW w \in Workers, StreamFinish(w), Settles(H)
    PROVE  OrderInv(H)'
<1>1. UNCHANGED <<flowActive, assignment, position, generation, batchGen, batch,
                  readOffset, current, queue>>
  BY DEF StreamFinish, flowVars, brokerVars, fetchVars
<1>2. ASSUME NEW tp, NEW x, InAgent(tp, x)
      PROVE  x \in H[tp] \/ InAgent(tp, x)'
  <2>1. PICK v \in Workers : \E m \in inflight[v] : m.tp = tp /\ m.offset = x
    BY <1>2 DEF InAgent
  <2>2. CASE v = w
    BY <2>1, <2>2 DEF Settles
  <2>3. CASE v # w
    <3>1. inflight'[v] = inflight[v]
      BY <2>3, NumberTypes DEF StreamFinish
    <3> QED
      BY <2>1, <3>1 DEF InAgent
  <2> QED
    BY <2>2, <2>3
<1>3. ASSUME NEW tp, NEW x
      PROVE  /\ Queued(tp, x) => Queued(tp, x)'
             /\ \A i : QueuedBefore(tp, x, i) => QueuedBefore(tp, x, i)'
             /\ Batched(tp)' = Batched(tp)
             /\ Held(tp, x) => Held(tp, x)'
  BY <1>1 DEF Queued, QueuedBefore, Batched, Held
<1>4. ASSUME NEW tp, NEW x, Ahead(H, tp, x)
      PROVE  Ahead(H, tp, x)'
  BY <1>2, <1>3, <1>4 DEF Ahead
<1>5. OrderQueue(H)'
  BY <1>1, <1>2, <1>3 DEF OrderInv, OrderQueue
<1>6. OrderHeld(H)'
  BY <1>1, <1>4 DEF OrderInv, OrderHeld
<1>7. OrderRead(H)'
  BY <1>1, <1>3, <1>4 DEF OrderInv, OrderRead
<1> QED
  BY <1>5, <1>6, <1>7 DEF OrderInv

(* A new batch comes after what was read.                                  *)
LEMMA OrderFetchReturn ==
    ASSUME NEW H, TypeOK, FetchInv, OrderInv(H), ReadInv, FetchReturn
    PROVE  OrderInv(H)'
<1>1. /\ flowActive /\ batch = Empty /\ current = {} /\ batchGen' = generation
      /\ UNCHANGED <<flowActive, assignment, readOffset, generation, current,
                     queue, inflight>>
      /\ \A t \in TP : batch'[t] =
            {x \in Log[t] : position[t] <= x /\ x < position'[t]}
  BY FetchReturnFacts
<1>2. OrderQueue(H)' /\ OrderHeld(H)'
  BY <1>1, OrderQueueKept DEF OrderInv, OrderHeld
<1>3. ASSUME NEW tp \in assignment, NEW x \in Log[tp], x < position'[tp]
      PROVE  Ahead(H, tp, x)' \/ (x \in batch'[tp] /\ readOffset[tp] <= x)
  <2>1. tp \in TP /\ x \in Nat /\ position[tp] \in Nat /\ readOffset[tp] \in Int
    BY NumberTypes
  <2>2. CASE x < position[tp]
    <3>1. ~Held(tp, x) /\ Batched(tp) = {}
      BY <1>1, <2>1 DEF Held, Batched, Empty
    <3>2. Ahead(H, tp, x)
      BY <1>1, <2>2, <3>1 DEF OrderInv, OrderRead
    <3> QED
      BY <1>1, <3>2, AheadKept
  <2>3. CASE position[tp] <= x
    <3>1. readOffset[tp] <= position[tp]
      BY <1>1 DEF ReadInv
    <3> QED
      BY <1>1, <1>3, <2>1, <2>3, <3>1
  <2> QED
    BY <2>1, <2>2, <2>3
<1>4. OrderRead(H)'
  BY <1>1, <1>3 DEF OrderRead, Batched
<1> QED
  BY <1>2, <1>4 DEF OrderInv

(* The end of a batch keeps the order.                                     *)
LEMMA OrderFetchBreak ==
    ASSUME NEW H, TypeOK, FetchInv, PhaseInv, OrderInv(H), FetchBreak
    PROVE  OrderInv(H)'
<1>1. /\ current = {} /\ batch' = Empty
      /\ UNCHANGED <<flowActive, assignment, readOffset, position, generation,
                     current, queue, inflight, batchGen>>
      /\ flowActive /\ batchGen = generation =>
            \A t \in assignment : \A x \in batch[t] : x < readOffset[t]
  BY FetchBreakFacts
<1>2. OrderQueue(H)' /\ OrderHeld(H)'
  BY <1>1, OrderQueueKept DEF OrderInv, OrderHeld
<1>3. ASSUME flowActive, NEW tp \in assignment, NEW x \in Log[tp], x < position[tp]
      PROVE  Ahead(H, tp, x)'
  <2>1. tp \in TP /\ x \in Nat /\ readOffset[tp] \in Int /\ ~Held(tp, x)
    BY <1>1, NumberTypes DEF Held
  <2>2. ~(x \in Batched(tp) /\ readOffset[tp] <= x)
    BY <1>1, <1>3, <2>1 DEF Batched
  <2>3. Ahead(H, tp, x)
    BY <1>3, <2>1, <2>2 DEF OrderInv, OrderRead
  <2> QED
    BY <1>1, <2>3, AheadKept
<1>4. OrderRead(H)'
  BY <1>1, <1>3 DEF OrderRead
<1> QED
  BY <1>2, <1>4 DEF OrderInv

(* Taking the next message of the batch keeps the order.                   *)
LEMMA OrderFetchNext ==
    ASSUME NEW H, TypeOK, FetchInv, PhaseInv, ReadInv, OrderInv(H), NEW tp \in TP,
           FetchNext(tp)
    PROVE  OrderInv(H)'
<1>1. PICK o : o = Min(Wanted(tp))
  OBVIOUS
<1>2. PICK m : m = [tp |-> tp, offset |-> o, gen |-> generation]
  OBVIOUS
<1>3. /\ flowActive /\ batchGen = generation /\ current = {}
      /\ tp \in assignment
      /\ current' = {m} /\ m.tp = tp /\ m.offset = o
      /\ o \in batch[tp] /\ o \in Nat
      /\ \A t \in assignment : \A x \in batch[t] :
            x \notin batch'[t] => x < readOffset[t] \/ (t = tp /\ x = o)
      /\ \A x \in batch[tp] : readOffset[tp] <= x => o <= x
      /\ UNCHANGED <<flowActive, assignment, readOffset, position, generation,
                     queue, inflight, batchGen>>
  BY <1>1, <1>2, FetchNextFacts
<1>4. ASSUME NEW t \in assignment, NEW x \in Log[t], x < position[t]
      PROVE  Ahead(H, t, x)' \/ (x \in batch[t] /\ readOffset[t] <= x)
  <2>1. ~Held(t, x) /\ Batched(t) = batch[t]
    BY <1>3 DEF Held, Batched
  <2>2. Ahead(H, t, x) \/ (x \in batch[t] /\ readOffset[t] <= x)
    BY <1>3, <1>4, <2>1 DEF OrderInv, OrderRead
  <2> QED
    BY <1>3, <2>2, AheadKept
<1>5. OrderQueue(H)'
  BY <1>3, OrderQueueKept DEF OrderInv
<1>6. OrderHeld(H)'
  <2> SUFFICES ASSUME NEW x \in Log[tp], x < o
               PROVE  Ahead(H, tp, x)'
    BY <1>3 DEF OrderHeld
  <2>1. o < position[tp] /\ position[tp] \in Nat /\ x \in Nat
    BY <1>3, NumberTypes DEF ReadInv, Batched
  <2>2. ~(x \in batch[tp] /\ readOffset[tp] <= x)
    BY <1>3, <2>1
  <2>3. x < position[tp]
    BY <1>3, <2>1
  <2> QED
    BY <1>3, <1>4, <2>2, <2>3
<1>7. OrderRead(H)'
  <2> SUFFICES ASSUME NEW t \in assignment, NEW x \in Log[t], x < position[t],
                      ~Ahead(H, t, x)'
               PROVE  Held(t, x)' \/ (x \in batch'[t] /\ readOffset[t] <= x)
    BY <1>3 DEF OrderRead, Batched
  <2>1. x \in batch[t] /\ readOffset[t] <= x
    BY <1>4
  <2>2. x \in Nat /\ readOffset[t] \in Int
    BY NumberTypes
  <2>3. CASE x \in batch'[t]
    BY <2>1, <2>3
  <2>4. CASE x \notin batch'[t]
    <3>1. t = tp /\ x = o
      BY <1>3, <2>1, <2>2, <2>4
    <3> QED
      BY <1>3, <3>1 DEF Held
  <2> QED
    BY <2>3, <2>4
<1> QED
  BY <1>5, <1>6, <1>7 DEF OrderInv

(* When flow is resumed everything below the position is settled.          *)
LEMMA OrderResume ==
    ASSUME NEW H, TypeOK, DrainInv, FetchInv, PhaseInv, SettledInv(H), ResumeFlow
    PROVE  OrderInv(H)'
<1>1. current = {} /\ ~flowActive /\ rebalPc = "stable" /\ recovPc = "seeking"
  BY ReadInvResume DEF ResumeFlow, PhaseInv, DrainInv
<1>2. UNCHANGED <<assignment, position, generation, queue, current>>
  BY DEF ResumeFlow, brokerVars, streamVars
<1>3. \A i \in 1..Len(queue) : queue[i].gen # generation
  BY <1>1 DEF PhaseInv, NewGeneration
<1>4. OrderQueue(H)' /\ OrderHeld(H)'
  BY <1>1, <1>2, <1>3 DEF OrderQueue, OrderHeld
<1>5. \A tp \in assignment : \A x \in Log[tp] : x < position[tp] => x \in H[tp]
  BY <1>1 DEF SettledInv, SettledSeek, Done
<1>6. OrderRead(H)'
  BY <1>2, <1>5 DEF OrderRead, Ahead
<1> QED
  BY <1>4, <1>6 DEF OrderInv

(* Every step that settles what it finishes keeps the order.               *)
LEMMA OrderNext ==
    ASSUME Orderly, NEW H, TypeOK, DrainInv, FetchInv, PhaseInv, ReadInv,
           SettledInv(H), OrderInv(H), [Next]_vars, Settles(H)
    PROVE  OrderInv(H)'
<1> USE DEF fetchVars, flowVars, rebalVars, brokerVars, streamVars
<1>1. CASE UNCHANGED <<flowActive, assignment, queue, generation, current, position,
                       inflight, batch, batchGen, readOffset>>
  <2>1. \A tp, x : Ahead(H, tp, x) => Ahead(H, tp, x)'
    BY <1>1, AheadKept
  <2>2. \A tp, x : /\ Batched(tp)' = Batched(tp)
                   /\ Held(tp, x) => Held(tp, x)'
    BY <1>1 DEF Batched, Held
  <2>3. OrderQueue(H)'
    BY <1>1, OrderQueueKept DEF OrderInv
  <2>4. OrderHeld(H)'
    BY <1>1, <2>1 DEF OrderInv, OrderHeld
  <2>5. OrderRead(H)'
    BY <1>1, <2>1, <2>2 DEF OrderInv, OrderRead
  <2> QED
    BY <2>3, <2>4, <2>5 DEF OrderInv
<1>2. CASE ~flowActive'
  BY <1>2 DEF OrderInv, OrderQueue, OrderHeld, OrderRead
<1>3. CASE FetchReturn
  BY <1>3, OrderFetchReturn
<1>4. CASE FetchBreak
  BY <1>4, OrderFetchBreak
<1>5. ASSUME NEW tp \in TP, FetchNext(tp)
      PROVE  OrderInv(H)'
  BY <1>5, OrderFetchNext
<1>6. CASE Deliver
  BY <1>6, OrderDeliver
<1>7. CASE Revoke
  <2>1. assignment # {}
    BY <1>7 DEF Revoke, DrainInv
  <2> QED
    BY <1>2, <1>7, <2>1 DEF Revoke
<1>8. CASE Join \/ OnAssigned \/ SignalRecovery
  <2>1. ~flowActive
    BY <1>8 DEF Join, OnAssigned, SignalRecovery, DrainInv
  <2> QED
    BY <1>2, <1>8, <2>1 DEF Join, OnAssigned, SignalRecovery
<1>9. CASE ResumeStreams
  <2>1. recovGen = generation /\ ~flowActive /\ assignment # {}
    BY <1>9 DEF ResumeStreams, PhaseInv, DrainInv
  <2> QED
    BY <1>2, <1>9, <2>1 DEF ResumeStreams
<1>10. CASE ResumeFlow
  BY <1>10, OrderResume
<1>11. CASE Crash
  BY <1>2, <1>11 DEF Crash
<1>12. CASE FetchReturnStopped
  BY <1>2, <1>12 DEF FetchReturnStopped
<1>13. CASE FetcherSeekDone
  <2>1. ~flowActive
    BY <1>13 DEF FetcherSeekDone, PhaseInv
  <2> QED
    BY <1>2, <1>13, <2>1 DEF FetcherSeekDone
<1>14. ASSUME NEW w \in Workers, StreamTake(w) \/ StreamSkip(w) \/ StreamFinish(w)
       PROVE  OrderInv(H)'
  BY <1>14, OrderTake, OrderFinish
<1>15. CASE \/ CommitHandler \/ CommitAttached \/ CommitDone \/ FetchStart
            \/ GapMerge \/ FetcherCommit \/ FetcherCommitReturn
            \/ WaitEmptyLoop \/ WaitEmptyDone
            \/ \E tp \in TP : OtherWorker(tp)
  BY <1>1, <1>15 DEF CommitHandler, CommitAttached, CommitDone, OtherWorker,
     FetchStart, GapMerge, FetcherCommit, FetcherCommitReturn, WaitEmptyLoop,
     WaitEmptyDone
<1>16. CASE UNCHANGED vars
  BY <1>1, <1>16 DEF vars
<1> QED
  BY <1>3, <1>4, <1>5, <1>6, <1>7, <1>8, <1>9, <1>10, <1>11, <1>12, <1>13,
     <1>14, <1>15, <1>16
  DEF Next, Fetcher, Callbacks, Recovery

-----------------------------------------------------------------------------
(* The invariant holds at the start.                                       *)
LEMMA PipeInit == ASSUME NEW H PROVE Init /\ TypeOK => PipeInv(H)
  BY DrainInit, FetchInvInit, PhaseInvInit, ReadInvInit, GapInvInit, SettledInit,
     OrderInit DEF PipeInv

(* Settling more messages does no harm.                                    *)
LEMMA PipeGrows ==
    ASSUME NEW G, NEW H, \A tp \in TP : G[tp] \subseteq H[tp], TypeOK, PhaseInv
    PROVE  /\ SettledInv(G) => SettledInv(H)
           /\ OrderInv(G) => OrderInv(H)
<1>1. \A tp \in TP : \A n : Done(G, tp, n) => Done(H, tp, n)
  BY DEF Done
<1>2. \A tp \in TP : \A x : Ahead(G, tp, x) => Ahead(H, tp, x)
  BY DEF Ahead
<1>3. /\ assignment \subseteq TP
      /\ \A w \in Workers : \A m \in inflight[w] : m.tp \in TP
      /\ \A m \in current : m.tp \in TP
      /\ \A i \in 1..Len(queue) : queue[i].tp \in TP
  <2>1. \A i \in 1..Len(queue) : queue[i] \in Message
    BY NumberTypes
  <2> QED
    BY <2>1, NumberTypes
<1>4. SettledInv(G) => SettledInv(H)
  BY <1>1, <1>3 DEF SettledInv, SettledOffsets, SettledAgents, SettledSeek
<1>5. OrderQueue(G) => OrderQueue(H)
  BY <1>3 DEF OrderQueue
<1>6. OrderHeld(G) => OrderHeld(H)
  BY <1>2, <1>3 DEF OrderHeld
<1>7. OrderRead(G) => OrderRead(H)
  BY <1>2, <1>3 DEF OrderRead
<1> QED
  BY <1>4, <1>5, <1>6, <1>7 DEF OrderInv

(* Every step that settles what it finishes keeps the invariant.           *)
LEMMA PipeNext ==
    ASSUME Orderly, NEW H, TypeOK, TypeOK', PipeInv(H), [Next]_vars, Settles(H)
    PROVE  PipeInv(H)'
<1> USE DEF PipeInv
<1>1. DrainInv'
  BY DrainNext DEF Orderly
<1>2. FetchInv'
  BY FetchInvNext
<1>3. PhaseInv'
  BY PhaseInvNext
<1>4. ReadInv'
  BY ReadInvNext
<1>5. GapInv'
  BY GapInvNext
<1>6. SettledOffsets(H)'
  BY SettledOffsetsNext DEF SettledInv
<1>7. SettledAgents(H)'
  BY SettledAgentsNext DEF SettledInv, OrderInv
<1>8. SettledSeek(H)'
  BY SettledSeekNext DEF SettledInv
<1>9. OrderInv(H)'
  BY OrderNext
<1> QED
  BY <1>1, <1>2, <1>3, <1>4, <1>5, <1>6, <1>7, <1>8, <1>9 DEF SettledInv

(* What an agent has processed is settled.                                 *)
LEMMA ProcessedNext ==
    ASSUME Orderly, TypeOK, TypeOK', PipeInv(processed), [Next]_vars
    PROVE  PipeInv(processed)'
<1>1. PICK H : H = processed'
  OBVIOUS
<1>2. \A tp \in TP : processed[tp] \subseteq H[tp]
  <2>1. \/ UNCHANGED processed
        \/ \E w \in Workers : \E m \in inflight[w] :
              processed' = [processed EXCEPT ![m.tp] = @ \cup {m.offset}]
        \/ \E t \in TP : \E o \in Log[t] :
              processed' = [processed EXCEPT ![t] = @ \cup {o}]
    <3> USE DEF histVars
    <3>1. CASE \E w \in Workers : StreamTake(w) \/ StreamSkip(w) \/ StreamFinish(w)
      BY <3>1 DEF StreamTake, StreamSkip, StreamFinish
    <3>2. CASE \E tp \in TP : OtherWorker(tp)
      BY <3>2 DEF OtherWorker
    <3>3. CASE Fetcher \/ FetcherCommit
      BY <3>3 DEF Fetcher, FetcherCommit, FetchStart, FetchReturn,
         FetchReturnStopped, FetcherSeekDone, FetchBreak, GapMerge,
         FetcherCommitReturn, Deliver, FetchNext
    <3>4. CASE \/ CommitHandler \/ CommitAttached \/ CommitDone
               \/ Revoke \/ Callbacks \/ Recovery \/ Crash \/ UNCHANGED vars
      BY <3>4 DEF CommitHandler, CommitAttached, CommitDone, Revoke, Callbacks,
         WaitEmptyLoop, WaitEmptyDone, Join, OnAssigned, SignalRecovery, Recovery,
         ResumeStreams, ResumeFlow, Crash, vars
    <3> QED
      BY <3>1, <3>2, <3>3, <3>4 DEF Next
  <2>2. processed \in [TP -> SUBSET Offset]
    BY DEF TypeOK
  <2> QED
    BY <1>1, <2>1, <2>2
<1>3. PipeInv(H)
  BY <1>2, PipeGrows DEF PipeInv
<1>4. ASSUME NEW w \in Workers, StreamFinish(w), NEW m \in inflight[w]
      PROVE  m.offset \in H[m.tp]
  <2>1. PICK n \in inflight[w] :
           processed' = [processed EXCEPT ![n.tp] = @ \cup {n.offset}]
    BY <1>4 DEF StreamFinish
  <2>2. n = m /\ m.tp \in TP /\ processed \in [TP -> SUBSET Offset]
    BY <1>3, NumberTypes DEF PipeInv, FetchInv, TypeOK
  <2> QED
    BY <1>1, <2>1, <2>2
<1>5. ASSUME NEW tp \in TP, OtherWorker(tp)
      PROVE  brokerCommitted'[tp] - 1 \in H[tp]
  <2>1. PICK o \in Log[tp] :
           /\ processed' = [processed EXCEPT ![tp] = @ \cup {o}]
           /\ brokerCommitted' = [brokerCommitted EXCEPT ![tp] = o + 1]
    BY <1>5 DEF OtherWorker
  <2>2. /\ brokerCommitted \in [TP -> MaybeNext] /\ o \in Nat
        /\ processed \in [TP -> SUBSET Offset]
    BY NumberTypes DEF TypeOK
  <2>3. brokerCommitted'[tp] - 1 = o /\ o \in processed'[tp]
    BY <2>1, <2>2
  <2> QED
    BY <1>1, <2>3
<1>6. Settles(H)
  BY <1>4, <1>5 DEF Settles
<1>7. PipeInv(H)'
  BY <1>3, <1>6, PipeNext
<1>8. OrderInv(H)' => OrderInv(processed)'
  BY <1>1 DEF OrderInv, OrderQueue, OrderHeld, OrderRead, Ahead
<1>9. SettledInv(H)' => SettledInv(processed)'
  BY <1>1 DEF SettledInv, SettledOffsets, SettledAgents, SettledSeek, Done
<1> QED
  BY <1>7, <1>8, <1>9 DEF PipeInv

(* With one agent task, the Cython stream iterator, stream_wait_empty set  *)
(* and rebalances that find the worker at rest: however records, holes,    *)
(* acks, commits, rebalances, crashes and other workers interleave, every  *)
(* message below the committed offset has been processed.                  *)
THEOREM AtLeastOnceCorrect ==
    ASSUME Orderly
    PROVE  Spec => []AtLeastOnce
<1>1. Init /\ TypeOK => PipeInv(processed)
  BY PipeInit
<1>2. TypeOK /\ TypeOK' /\ PipeInv(processed) /\ [Next]_vars => PipeInv(processed)'
  BY ProcessedNext
<1>3. PipeInv(processed) => AtLeastOnce
  BY DEF PipeInv, SettledInv, SettledOffsets, Done, AtLeastOnce
<1> QED
  BY <1>1, <1>2, <1>3, TypeCorrect, PTL DEF Spec

-----------------------------------------------------------------------------
(* Attachments.  With the same argument, where a message is settled when   *)
(* what the agent sent for it is attached, published or reported: what is  *)
(* committed was settled when commit() computed its offsets, and commit()  *)
(* waits for the producer's reports in between.                            *)

(* Offsets for which the answer of the agent is attached, published, or    *)
(* reported written or given up.                                           *)
Kept == [tp \in TP |-> attached[tp] \cup outbox[tp] \cup reported[tp]]

(* Where commit() is, with the attached messages and with the offsets.     *)
PublishInv ==
    /\ commitPc = "idle" <=> commitOwner = Nobody
    /\ commitPc # "attached" => outbox = Empty /\ toPublish = {}
    /\ commitPc = "attached" =>
          \A tp \in TP \ toPublish : \A x \in Log[tp] :
              x < commitOffsets[tp] => x \in outbox[tp] \cup reported[tp]
    /\ commitPc = "broker" => \A tp \in TP : Done(reported, tp, commitOffsets[tp])

(* What is committed has its answers reported.                             *)
ReportedInv == \A tp \in TP : Done(reported, tp, brokerCommitted[tp])

(* An agent that has sent for its event has not finished it.               *)
AnswerInv ==
    \A w \in answered : /\ inflight[w] # {}
                        /\ \A m \in inflight[w] : m.offset \in Kept[m.tp]

(* The inductive invariant, less the pipeline.                             *)
AttachInv == PublishInv /\ ReportedInv /\ AnswerInv

(* A step of the composition is a step of the consumer.                    *)
LEMMA AttachStep == [AttachNext]_allVars => [Next]_vars
<1> SUFFICES ASSUME [AttachNext]_allVars PROVE [Next]_vars
  OBVIOUS
<1>1. CASE UNCHANGED allVars
  BY <1>1 DEF allVars
<1>2. CASE \E w \in Workers : Put(w) \/ AgentFinish(w)
  BY <1>2 DEF Put, AgentFinish, Next
<1>3. CASE Commit \/ CommitOffsets \/ CrashAll \/ ConsumerStep
  BY <1>3 DEF Commit, CommitOffsets, CrashAll, ConsumerStep, Next, Callbacks
<1>4. CASE \E tp \in TP : \/ PublishNext(tp) \/ Confirmed(tp) \/ SendError(tp)
                          \/ OtherWorkerSends(tp)
  BY <1>4 DEF PublishNext, Confirmed, SendError, OtherWorkerSends, Next
<1> QED
  BY <1>1, <1>2, <1>3, <1>4 DEF AttachNext

(* The composition implements the consumer.                                *)
LEMMA AttachRefines == AttachSpec => Spec
<1>1. AttachInit => Init
  BY DEF AttachInit
<1> QED
  BY <1>1, AttachStep, PTL DEF AttachSpec, Spec

(* What publish_for_tp_offset does.                                        *)
LEMMA PublishFacts ==
    ASSUME AttachTypeOK, NEW tp \in TP, NEW n, PublishForTpOffset(tp, n)
    PROVE  /\ attached' \in [TP -> SUBSET Offset] /\ outbox' \in [TP -> SUBSET Offset]
           /\ attached'[tp] = {o \in attached[tp] : ~(o <= n)}
           /\ outbox'[tp] = {o \in attached[tp] : o <= n}
           /\ \A t \in TP : t # tp => attached'[t] = attached[t] /\ outbox'[t] = outbox[t]
  BY DEF AttachTypeOK, PublishForTpOffset, AttachmentsFor

(* commit() is called: either there is nothing to commit, or another       *)
(* commit is under way, or publishing begins.                              *)
LEMMA CommitFacts ==
    ASSUME TypeOK, PublishInv, Commit
    PROVE  /\ UNCHANGED <<brokerCommitted, inflight>>
           /\ \/ UNCHANGED <<commitPc, commitOwner, commitOffsets, attachVars>>
              \/ /\ commitPc = "idle" /\ commitPc' = "attached" /\ commitOwner' # Nobody
                 /\ \E tp \in TP :
                       /\ PublishForTpOffset(tp, commitOffsets'[tp])
                       /\ toPublish' = {t \in TP : commitOffsets'[t] # NoOffset} \ {tp}
                 /\ UNCHANGED <<answered, reported, written>>
<1>1. PICK c \in Callers : CommitCall(c) \/ UNCHANGED commitVars
  BY DEF Commit, CommitHandler, FetcherCommit, WaitEmptyLoop, WaitEmptyDone, Callers
<1>2. UNCHANGED <<brokerCommitted, inflight>>
  BY DEF Commit, CommitHandler, FetcherCommit, WaitEmptyLoop, WaitEmptyDone,
         brokerVars, streamVars
<1>3. HandleAttached
  BY DEF Commit
<1>4. CASE UNCHANGED <<commitPc, commitOwner, commitOffsets>>
  BY <1>2, <1>3, <1>4 DEF HandleAttached
<1>5. CASE commitOwner = Nobody /\ commitPc' = "attached" /\ commitOwner' = c
  <2>1. commitPc = "idle" /\ c # Nobody
    BY <1>5 DEF PublishInv, Callers, Nobody
  <2> QED
    BY <1>2, <1>3, <1>5, <2>1 DEF HandleAttached
<1> QED
  BY <1>1, <1>4, <1>5 DEF CommitCall, commitVars

(* Every step keeps the type invariant.                                    *)
LEMMA AttachTypeNext ==
    TypeOK /\ AttachTypeOK /\ PublishInv /\ [AttachNext]_allVars => AttachTypeOK'
<1> SUFFICES ASSUME TypeOK, AttachTypeOK, PublishInv, [AttachNext]_allVars
             PROVE  AttachTypeOK'
  OBVIOUS
<1>1. CASE UNCHANGED attachVars
  BY <1>1 DEF attachVars, AttachTypeOK
<1>2. ASSUME NEW w \in Workers, Put(w) \/ AgentFinish(w)
      PROVE  AttachTypeOK'
  <2>1. \A m \in inflight[w] : m.tp \in TP /\ m.offset \in Offset
    BY DEF TypeOK, Message
  <2> QED
    BY <1>2, <2>1 DEF Put, AgentFinish, AttachTypeOK
<1>3. CASE Commit
  <2>1. CASE UNCHANGED attachVars
    BY <1>1, <2>1
  <2>2. ASSUME NEW tp \in TP, PublishForTpOffset(tp, commitOffsets'[tp]),
               toPublish' = {t \in TP : commitOffsets'[t] # NoOffset} \ {tp},
               UNCHANGED <<answered, reported, written>>
        PROVE  AttachTypeOK'
    <3>1. attached' \in [TP -> SUBSET Offset] /\ outbox' \in [TP -> SUBSET Offset]
      BY <2>2, PublishFacts
    <3> QED
      BY <2>2, <3>1 DEF AttachTypeOK
  <2> QED
    BY <1>3, <2>1, <2>2, CommitFacts
<1>4. ASSUME NEW tp \in TP, PublishNext(tp)
      PROVE  AttachTypeOK'
  <2>1. attached' \in [TP -> SUBSET Offset] /\ outbox' \in [TP -> SUBSET Offset]
    BY <1>4, PublishFacts DEF PublishNext
  <2> QED
    BY <1>4, <2>1 DEF PublishNext, AttachTypeOK
<1>5. ASSUME NEW tp \in TP, Confirmed(tp) \/ SendError(tp)
      PROVE  AttachTypeOK'
  BY <1>5 DEF Confirmed, SendError, AttachTypeOK
<1>6. ASSUME NEW tp \in TP, OtherWorkerSends(tp)
      PROVE  AttachTypeOK'
  <2>1. PICK o \in Log[tp] : brokerCommitted' = [brokerCommitted EXCEPT ![tp] = o + 1]
    BY <1>6 DEF OtherWorkerSends, OtherWorker
  <2>2. brokerCommitted \in [TP -> MaybeNext] /\ o \in Nat /\ o \in Offset
    BY NumberTypes DEF TypeOK
  <2>3. brokerCommitted'[tp] - 1 = o
    BY <2>1, <2>2
  <2> QED
    BY <1>6, <2>2, <2>3 DEF OtherWorkerSends, AttachTypeOK
<1>7. CASE CrashAll
  BY <1>7 DEF CrashAll, AttachTypeOK, Empty
<1> QED
  BY <1>1, <1>2, <1>3, <1>4, <1>5, <1>6, <1>7
  DEF AttachNext, allVars, CommitOffsets, ConsumerStep

(* Nothing that was sent gets lost on the way, unless the worker dies.     *)
LEMMA KeptGrows ==
    ASSUME TypeOK, AttachTypeOK, PublishInv, [AttachNext]_allVars, ~CrashAll
    PROVE  \A tp \in TP : Kept[tp] \subseteq Kept'[tp]
<1> SUFFICES ASSUME NEW t \in TP
             PROVE  attached[t] \cup outbox[t] \cup reported[t]
                       \subseteq attached'[t] \cup outbox'[t] \cup reported'[t]
  BY DEF Kept
<1> USE DEF AttachTypeOK
<1>1. CASE UNCHANGED attachVars
  BY <1>1 DEF attachVars
<1>2. ASSUME NEW w \in Workers, Put(w) \/ AgentFinish(w)
      PROVE  attached[t] \cup outbox[t] \cup reported[t]
                 \subseteq attached'[t] \cup outbox'[t] \cup reported'[t]
  BY <1>2 DEF Put, AgentFinish
<1>3. ASSUME NEW tp \in TP, NEW n, PublishForTpOffset(tp, n), outbox[tp] = {},
             reported' = reported
      PROVE  attached[t] \cup outbox[t] \cup reported[t]
                 \subseteq attached'[t] \cup outbox'[t] \cup reported'[t]
  BY <1>3, PublishFacts
<1>4. CASE Commit
  <2>1. commitPc = "idle" => \A tp \in TP : outbox[tp] = {}
    BY DEF PublishInv, Empty
  <2> QED
    BY <1>1, <1>3, <1>4, <2>1, CommitFacts
<1>5. CASE \E tp \in TP : PublishNext(tp)
  BY <1>3, <1>5 DEF PublishNext, Empty
<1>6. CASE \E tp \in TP : Confirmed(tp) \/ SendError(tp)
  BY <1>6 DEF Confirmed, SendError
<1>7. CASE \E tp \in TP : OtherWorkerSends(tp)
  BY <1>7 DEF OtherWorkerSends
<1> QED
  BY <1>1, <1>2, <1>4, <1>5, <1>6, <1>7
  DEF AttachNext, allVars, CommitOffsets, ConsumerStep

(* The commit of another worker is seen at the broker.                     *)
LEMMA OtherWorkerCommits ==
    ASSUME TypeOK, NEW tp \in TP, OtherWorker(tp)
    PROVE  brokerCommitted'[tp] # brokerCommitted[tp]
<1>1. PICK o \in Log[tp] : /\ brokerCommitted[tp] <= o
                           /\ brokerCommitted' = [brokerCommitted EXCEPT ![tp] = o + 1]
  BY DEF OtherWorker
<1>2. brokerCommitted \in [TP -> MaybeNext] /\ o \in Nat /\ brokerCommitted[tp] \in Int
  BY NumberTypes DEF TypeOK
<1> QED
  BY <1>1, <1>2

(* Only a step that finishes a message empties an agent.                   *)
LEMMA FinishEmpties ==
    ASSUME TypeOK, NEW w \in Workers, StreamFinish(w)
    PROVE  inflight[w] # {} /\ inflight'[w] = {}
  BY NumberTypes DEF StreamFinish

(* Steps that take no message from an agent, and commit for no other worker. *)
LEMMA NothingSettled ==
    ASSUME TypeOK, UNCHANGED inflight,
           UNCHANGED brokerCommitted \/ ~UNCHANGED commitPc, NEW H
    PROVE  Settles(H)
<1>1. ASSUME NEW w \in Workers, StreamFinish(w) PROVE FALSE
  BY <1>1, FinishEmpties
<1>2. ASSUME NEW tp \in TP, OtherWorker(tp) PROVE FALSE
  <2>1. commitPc' = commitPc
    BY <1>2 DEF OtherWorker, commitVars
  <2> QED
    BY <1>2, <2>1, OtherWorkerCommits
<1> QED
  BY <1>1, <1>2 DEF Settles

(* An agent finishes an event after it has answered it.                    *)
LEMMA KeptSettles ==
    ASSUME Orderly, TypeOK, AttachTypeOK, PublishInv, AnswerInv,
           [AttachNext]_allVars, ~CrashAll,
           NEW H, H = Kept'
    PROVE  Settles(H)
<1>1. CASE \/ UNCHANGED <<inflight, brokerCommitted>>
           \/ UNCHANGED inflight /\ ~UNCHANGED commitPc
  BY <1>1, NothingSettled
<1>2. CASE UNCHANGED vars
  BY <1>1, <1>2 DEF vars, brokerVars, streamVars
<1>3. ASSUME NEW w \in Workers, AgentFinish(w)
      PROVE  Settles(H)
  <2>1. StreamFinish(w) /\ w \in answered
    BY <1>3 DEF AgentFinish
  <2>2. \A tp \in TP : Kept[tp] \subseteq H[tp]
    BY KeptGrows
  <2>3. \A m \in inflight[w] : m.tp \in TP /\ m.offset \in H[m.tp]
    BY <2>1, <2>2, NumberTypes DEF AnswerInv
  <2>4. \A v \in Workers : v = w
    BY DEF Orderly
  <2>5. brokerCommitted' = brokerCommitted
    BY <2>1 DEF StreamFinish, brokerVars
  <2> QED
    BY <2>3, <2>4, <2>5, OtherWorkerCommits DEF Settles
<1>4. ASSUME NEW tp \in TP, OtherWorkerSends(tp)
      PROVE  Settles(H)
  <2>1. OtherWorker(tp) /\ reported' = [reported EXCEPT ![tp] = @ \cup {brokerCommitted'[tp] - 1}]
    BY <1>4 DEF OtherWorkerSends
  <2>2. brokerCommitted'[tp] - 1 \in H[tp]
    BY <2>1 DEF AttachTypeOK, Kept
  <2>3. inflight' = inflight
    BY <2>1 DEF OtherWorker, streamVars
  <2>4. ASSUME NEW t \in TP, t # tp PROVE brokerCommitted'[t] = brokerCommitted[t]
    BY <2>1, <2>4 DEF OtherWorker, TypeOK
  <2> QED
    BY <2>2, <2>3, <2>4, FinishEmpties, OtherWorkerCommits DEF Settles
<1>5. CASE Commit
  BY <1>1, <1>5, CommitFacts
<1>6. CASE CommitOffsets
  BY <1>1, <1>6 DEF CommitOffsets, CommitAttached, brokerVars, streamVars
<1>7. CASE ConsumerStep
  <2> USE DEF brokerVars, streamVars
  <2>1. CASE CommitDone
    BY <1>1, <2>1 DEF CommitDone, CommitEnd, streamVars
  <2>2. CASE Fetcher
    BY <1>1, <2>2 DEF Fetcher, FetchStart, FetchReturn,
         FetchReturnStopped, FetcherSeekDone, FetchBreak, GapMerge,
         FetcherCommitReturn, Deliver, FetchNext
  <2>3. CASE Revoke \/ Join \/ OnAssigned \/ SignalRecovery \/ Recovery
    BY <1>1, <2>3 DEF Revoke, Join, OnAssigned, SignalRecovery, Recovery,
         ResumeStreams, ResumeFlow
  <2>4. ASSUME NEW w \in Workers, StreamTake(w) \/ StreamSkip(w)
        PROVE  Settles(H)
    <3>1. inflight[w] = {} /\ \A v \in Workers : v = w
      BY <2>4 DEF StreamTake, StreamSkip, Orderly
    <3>2. UNCHANGED brokerCommitted
      BY <2>4 DEF StreamTake, StreamSkip
    <3>3. \A v \in Workers : \A m \in inflight[v] : FALSE
      BY <3>1
    <3> QED
      BY <3>2, <3>3, OtherWorkerCommits DEF Settles
  <2> QED
    BY <1>7, <2>1, <2>2, <2>3, <2>4 DEF ConsumerStep
<1>8. CASE \/ \E w \in Workers : Put(w)
           \/ \E tp \in TP : PublishNext(tp) \/ Confirmed(tp) \/ SendError(tp)
           \/ UNCHANGED allVars
  BY <1>2, <1>8 DEF Put, PublishNext, Confirmed, SendError, allVars
<1> QED
  BY <1>3, <1>4, <1>5, <1>6, <1>7, <1>8 DEF AttachNext

(* After a crash only what the broker has committed need be settled.       *)
LEMMA PipeCrash ==
    ASSUME Orderly, NEW G, NEW H, TypeOK, TypeOK', PipeInv(G), Crash,
           \A tp \in TP : Done(H, tp, brokerCommitted[tp])
    PROVE  PipeInv(H)'
<1>1. [Next]_vars
  BY DEF Next
<1>2. DrainInv' /\ FetchInv' /\ PhaseInv'
  BY <1>1, DrainNext, FetchInvNext, PhaseInvNext DEF Orderly, PipeInv
<1>3. ReadInv' /\ GapInv'
  BY <1>1, ReadInvNext, GapInvNext DEF PipeInv
<1>4. SettledInv(H)'
  <2>1. \A tp \in TP : commitOffsets'[tp] = NoOffset /\ OffsetsIn(acked'[tp]) = {}
    BY DEF Crash, NoOffsets, OffsetsIn, EmptyBag
  <2>2. /\ UNCHANGED brokerCommitted /\ recovPc' = "idle"
        /\ \A w \in Workers : inflight'[w] = {}
    BY DEF Crash
  <2>3. SettledOffsets(H)'
    BY <2>1, <2>2, DoneNothing DEF SettledOffsets, Done
  <2> QED
    BY <2>2, <2>3 DEF SettledInv, SettledAgents, SettledSeek
<1>5. OrderInv(H)'
  BY DEF Crash, OrderInv, OrderQueue, OrderHeld, OrderRead
<1> QED
  BY <1>2, <1>3, <1>4, <1>5 DEF PipeInv

(* Every step keeps the pipeline, attached messages and crashes included.  *)
LEMMA KeptNext ==
    ASSUME Orderly, TypeOK, TypeOK', AttachTypeOK, AttachInv, PipeInv(Kept),
           [AttachNext]_allVars
    PROVE  PipeInv(Kept)'
<1>1. PICK H : H = Kept'
  OBVIOUS
<1>2. [Next]_vars
  BY AttachStep
<1>3. PipeInv(H)'
  <2>1. CASE CrashAll
    <3>1. Crash /\ reported' = reported
      BY <2>1 DEF CrashAll
    <3>2. \A tp \in TP : Done(H, tp, brokerCommitted[tp])
      BY <1>1, <3>1 DEF AttachInv, ReportedInv, Done, Kept
    <3> QED
      BY <3>1, <3>2, PipeCrash
  <2>2. CASE ~CrashAll
    <3>1. \A tp \in TP : Kept[tp] \subseteq H[tp]
      BY <1>1, <2>2, KeptGrows DEF AttachInv
    <3>2. PipeInv(H)
      BY <3>1, PipeGrows DEF PipeInv
    <3>3. Settles(H)
      BY <1>1, <2>2, KeptSettles DEF AttachInv
    <3> QED
      BY <1>2, <3>2, <3>3, PipeNext
  <2> QED
    BY <2>1, <2>2
<1>4. OrderInv(H)' => OrderInv(Kept)'
  BY <1>1 DEF OrderInv, OrderQueue, OrderHeld, OrderRead, Ahead
<1>5. SettledInv(H)' => SettledInv(Kept)'
  BY <1>1 DEF SettledInv, SettledOffsets, SettledAgents, SettledSeek, Done
<1> QED
  BY <1>3, <1>4, <1>5 DEF PipeInv

(* The broker commits when the answers are reported.                       *)
LEMMA ReportedNext ==
    ASSUME TypeOK, AttachTypeOK, PublishInv, ReportedInv, [AttachNext]_allVars
    PROVE  ReportedInv'
<1>1. CASE UNCHANGED <<brokerCommitted, reported>>
  BY <1>1 DEF ReportedInv, Done
<1>2. CASE \/ UNCHANGED allVars \/ CrashAll \/ CommitOffsets
           \/ \E w \in Workers : Put(w) \/ AgentFinish(w)
           \/ \E tp \in TP : PublishNext(tp)
  BY <1>1, <1>2 DEF allVars, vars, brokerVars, attachVars, CrashAll, Crash,
     CommitOffsets, CommitAttached, Put, AgentFinish, StreamFinish, PublishNext
<1>3. CASE Commit
  BY <1>1, <1>3, CommitFacts DEF attachVars
<1>4. ASSUME NEW tp \in TP, Confirmed(tp) \/ SendError(tp)
      PROVE  ReportedInv'
  <2>1. brokerCommitted' = brokerCommitted /\ \A t \in TP : reported[t] \subseteq reported'[t]
    BY <1>4 DEF Confirmed, SendError, vars, brokerVars, AttachTypeOK
  <2> QED
    BY <2>1 DEF ReportedInv, Done
<1>5. ASSUME NEW tp \in TP, OtherWorkerSends(tp)
      PROVE  ReportedInv'
  <2>1. PICK o \in Log[tp] :
           /\ \A p \in Log[tp] : brokerCommitted[tp] <= p => o <= p
           /\ brokerCommitted' = [brokerCommitted EXCEPT ![tp] = o + 1]
    BY <1>5 DEF OtherWorkerSends, OtherWorker
  <2>2. brokerCommitted \in [TP -> MaybeNext] /\ o \in Nat /\ brokerCommitted[tp] \in Int
    BY NumberTypes DEF TypeOK
  <2>3. brokerCommitted'[tp] - 1 = o /\ brokerCommitted'[tp] = o + 1
    BY <2>1, <2>2
  <2>4. /\ \A t \in TP : reported[t] \subseteq reported'[t]
        /\ o \in reported'[tp]
    BY <1>5, <2>3 DEF OtherWorkerSends, AttachTypeOK
  <2>5. ASSUME NEW x \in Log[tp], x < o + 1
        PROVE  x \in reported'[tp]
    <3>1. x \in Nat
      BY NumberTypes
    <3>2. x = o \/ x < brokerCommitted[tp]
      BY <2>1, <2>2, <2>5, <3>1
    <3> QED
      BY <2>4, <3>2 DEF ReportedInv, Done
  <2>6. \A t \in TP : t # tp => brokerCommitted'[t] = brokerCommitted[t]
    BY <2>1, <2>2
  <2> QED
    BY <2>3, <2>4, <2>5, <2>6 DEF ReportedInv, Done
<1>6. CASE ConsumerStep
  <2> USE DEF brokerVars, attachVars
  <2>1. reported' = reported
    BY <1>6 DEF ConsumerStep
  <2>2. CASE CommitDone
    <3>1. \A tp \in TP : \/ brokerCommitted'[tp] = commitOffsets[tp]
                         \/ brokerCommitted'[tp] = brokerCommitted[tp]
      BY <2>2 DEF CommitDone
    <3>2. \A tp \in TP : Done(reported, tp, commitOffsets[tp])
      BY <2>2 DEF CommitDone, PublishInv
    <3> QED
      BY <2>1, <3>1, <3>2 DEF ReportedInv, Done
  <2>3. CASE Fetcher
    BY <1>1, <2>1, <2>3 DEF Fetcher, FetchStart, FetchReturn,
       FetchReturnStopped, FetcherSeekDone, FetchBreak, GapMerge,
       FetcherCommitReturn, Deliver, FetchNext
  <2>4. CASE \/ Revoke \/ Join \/ OnAssigned \/ SignalRecovery \/ Recovery
             \/ \E w \in Workers : StreamTake(w) \/ StreamSkip(w)
    BY <1>1, <2>1, <2>4 DEF Revoke, Join, OnAssigned, SignalRecovery, Recovery,
       ResumeStreams, ResumeFlow, StreamTake, StreamSkip
  <2> QED
    BY <1>6, <2>2, <2>3, <2>4 DEF ConsumerStep
<1> QED
  BY <1>2, <1>3, <1>4, <1>5, <1>6 DEF AttachNext

(* Every step keeps AnswerInv.                                             *)
LEMMA AnswerNext ==
    ASSUME TypeOK, AttachTypeOK, PublishInv, FetchInv, AnswerInv, [AttachNext]_allVars
    PROVE  AnswerInv'
<1>1. CASE CrashAll
  BY <1>1 DEF CrashAll, AnswerInv
<1>2. CASE ~CrashAll
  <2>1. \A tp \in TP : Kept[tp] \subseteq Kept'[tp]
    BY <1>2, KeptGrows
  <2>2. \A w \in Workers : \A m \in inflight[w] : m.tp \in TP
    BY NumberTypes
  <2>3. ASSUME answered' \subseteq answered,
               \A w \in answered' : inflight'[w] = inflight[w]
        PROVE  AnswerInv'
    <3> SUFFICES ASSUME NEW w \in answered'
                 PROVE  inflight'[w] # {} /\ \A m \in inflight'[w] : m.offset \in Kept'[m.tp]
      BY DEF AnswerInv
    <3>1. w \in answered /\ w \in Workers /\ inflight'[w] = inflight[w]
      BY <2>3 DEF AttachTypeOK
    <3> QED
      BY <2>1, <2>2, <3>1 DEF AnswerInv
  <2>4. CASE UNCHANGED <<answered, inflight>>
    BY <2>3, <2>4
  <2>5. ASSUME NEW w \in Workers, Put(w)
        PROVE  AnswerInv'
    <3>1. /\ answered' = answered \cup {w} /\ inflight' = inflight /\ inflight[w] # {}
      BY <2>5 DEF Put, vars, streamVars
    <3>2. PICK m \in inflight[w] :
             attached' = [attached EXCEPT ![m.tp] = @ \cup {m.offset}]
      BY <2>5 DEF Put
    <3>3. m.offset \in Kept'[m.tp] /\ \A n \in inflight[w] : n = m
      BY <2>2, <3>2 DEF Kept, AttachTypeOK, FetchInv
    <3> SUFFICES ASSUME NEW v \in answered'
                 PROVE  inflight'[v] # {} /\ \A n \in inflight'[v] : n.offset \in Kept'[n.tp]
      BY DEF AnswerInv
    <3>4. CASE v = w
      BY <3>1, <3>3, <3>4
    <3>5. CASE v \in answered
      <4>1. v \in Workers
        BY <3>5 DEF AttachTypeOK
      <4> QED
        BY <2>1, <2>2, <3>1, <3>5, <4>1 DEF AnswerInv
    <3> QED
      BY <3>1, <3>4, <3>5
  <2>6. ASSUME NEW w \in Workers, AgentFinish(w)
        PROVE  AnswerInv'
    <3>1. answered' = answered \ {w} /\ \A v \in Workers : v # w => inflight'[v] = inflight[v]
      BY <2>6, NumberTypes DEF AgentFinish, StreamFinish
    <3> QED
      BY <2>3, <3>1 DEF AttachTypeOK
  <2>7. CASE Commit
    BY <2>4, <2>7, CommitFacts DEF attachVars
  <2>8. CASE ConsumerStep
    <3>1. answered' = answered
      BY <2>8 DEF ConsumerStep, attachVars
    <3>2. ASSUME NEW w \in Workers, StreamTake(w)
          PROVE  AnswerInv'
      <4>1. /\ inflight[w] = {}
            /\ \A v \in Workers : v # w => inflight'[v] = inflight[v]
        BY <3>2, NumberTypes DEF StreamTake
      <4>2. w \notin answered
        BY <4>1 DEF AnswerInv
      <4> QED
        BY <2>3, <3>1, <4>1, <4>2 DEF AttachTypeOK
    <3>3. CASE Fetcher
      BY <2>4, <3>1, <3>3 DEF Fetcher, FetchStart, FetchReturn,
         FetchReturnStopped, FetcherSeekDone, FetchBreak, GapMerge,
         FetcherCommitReturn, Deliver, FetchNext, streamVars
    <3>4. CASE \/ CommitDone \/ Revoke \/ Join \/ OnAssigned \/ SignalRecovery
               \/ Recovery \/ \E w \in Workers : StreamSkip(w)
      BY <2>4, <3>1, <3>4 DEF CommitDone, Revoke, Join, OnAssigned, SignalRecovery,
         Recovery, ResumeStreams, ResumeFlow, StreamSkip, streamVars
    <3> QED
      BY <2>8, <3>2, <3>3, <3>4 DEF ConsumerStep
  <2>9. CASE \/ UNCHANGED allVars \/ CommitOffsets
             \/ \E tp \in TP : \/ PublishNext(tp) \/ Confirmed(tp) \/ SendError(tp)
                              \/ OtherWorkerSends(tp)
    BY <2>4, <2>9 DEF allVars, vars, streamVars, attachVars, CommitOffsets,
       CommitAttached, PublishNext, Confirmed, SendError, OtherWorkerSends, OtherWorker
  <2> QED
    BY <1>2, <2>5, <2>6, <2>7, <2>8, <2>9 DEF AttachNext
<1> QED
  BY <1>1, <1>2

(* Publishing for a partition leaves nothing below its offset attached.    *)
LEMMA PublishedBelow ==
    ASSUME AttachTypeOK, NEW tp \in TP, NEW n \in Int, PublishForTpOffset(tp, n),
           NEW x \in Nat, x < n, x \in Kept'[tp]
    PROVE  x \in outbox'[tp] \cup reported'[tp]
<1>1. attached'[tp] = {o \in attached[tp] : ~(o <= n)}
  BY PublishFacts
<1> QED
  BY <1>1 DEF Kept

(* Every step keeps PublishInv.                                            *)
LEMMA PublishNextInv ==
    ASSUME TypeOK, TypeOK', AttachTypeOK, PublishInv, SettledInv(Kept)',
           [AttachNext]_allVars
    PROVE  PublishInv'
<1>0. \A tp \in TP : Log[tp] \subseteq Nat /\ commitOffsets'[tp] \in Int
  <2>1. \A tp \in TP : commitOffsets'[tp] \in MaybeNext
    BY DEF TypeOK
  <2>2. MaybeNext \subseteq Int
    BY OffsetIsNat DEF MaybeNext, NoOffset
  <2> QED
    BY <2>1, <2>2, NumberTypes
<1>1. \A tp \in TP : \A x \in Log[tp] : x < commitOffsets'[tp] => x \in Kept'[tp]
  BY DEF SettledInv, SettledOffsets, Done
<1>2. CASE UNCHANGED <<commitPc, commitOwner, commitOffsets, outbox, toPublish, reported>>
  BY <1>2 DEF PublishInv, Done
<1>3. CASE Commit
  <2>1. CASE UNCHANGED <<commitPc, commitOwner, commitOffsets, attachVars>>
    BY <1>2, <2>1 DEF attachVars
  <2>2. ASSUME commitPc' = "attached", commitOwner' # Nobody, NEW tp \in TP,
               PublishForTpOffset(tp, commitOffsets'[tp]),
               toPublish' = {t \in TP : commitOffsets'[t] # NoOffset} \ {tp}
        PROVE  PublishInv'
    <3>1. ASSUME NEW t \in TP \ toPublish', NEW x \in Log[t], x < commitOffsets'[t]
          PROVE  x \in outbox'[t] \cup reported'[t]
      <4>1. CASE t = tp
        BY <1>0, <1>1, <2>2, <3>1, <4>1, PublishedBelow
      <4>2. CASE t # tp
        <5>1. commitOffsets'[t] = -1 /\ x \in Nat
          BY <1>0, <2>2, <3>1, <4>2 DEF NoOffset
        <5> QED
          BY <3>1, <5>1
      <4> QED
        BY <4>1, <4>2
    <3> QED
      BY <2>2, <3>1 DEF PublishInv
  <2> QED
    BY <1>3, <2>1, <2>2, CommitFacts
<1>4. ASSUME NEW tp \in TP, PublishNext(tp)
      PROVE  PublishInv'
  <2>1. /\ commitPc = "attached" /\ outbox = Empty
        /\ PublishForTpOffset(tp, commitOffsets'[tp])
        /\ toPublish' = toPublish \ {tp}
        /\ UNCHANGED <<commitPc, commitOwner, commitOffsets, reported>>
    BY <1>4 DEF PublishNext, vars, commitVars
  <2>2. ASSUME NEW t \in TP \ toPublish', NEW x \in Log[t], x < commitOffsets'[t]
        PROVE  x \in outbox'[t] \cup reported'[t]
    <3>1. CASE t = tp
      BY <1>0, <1>1, <2>1, <2>2, <3>1, PublishedBelow
    <3>2. CASE t # tp
      <4>1. t \in TP \ toPublish /\ x \in outbox[t] \cup reported[t]
        BY <2>1, <2>2, <3>2 DEF PublishInv
      <4> QED
        BY <2>1, <4>1 DEF Empty
    <3> QED
      BY <3>1, <3>2
  <2> QED
    BY <2>1, <2>2 DEF PublishInv
<1>5. ASSUME NEW tp \in TP, Confirmed(tp) \/ SendError(tp)
      PROVE  PublishInv'
  <2>1. UNCHANGED <<commitPc, commitOwner, commitOffsets, toPublish>>
    BY <1>5 DEF Confirmed, SendError, vars, commitVars
  <2>2. \A t \in TP : outbox[t] \cup reported[t] \subseteq outbox'[t] \cup reported'[t]
    BY <1>5 DEF Confirmed, SendError, AttachTypeOK
  <2>3. outbox # Empty
    BY <1>5 DEF Confirmed, SendError, Empty
  <2>4. commitPc = "attached"
    BY <2>3 DEF PublishInv
  <2> QED
    BY <2>1, <2>2, <2>4 DEF PublishInv
<1>6. ASSUME NEW tp \in TP, OtherWorkerSends(tp)
      PROVE  PublishInv'
  <2>1. UNCHANGED <<commitPc, commitOwner, commitOffsets, toPublish, outbox>>
    BY <1>6 DEF OtherWorkerSends, OtherWorker, commitVars
  <2>2. \A t \in TP : reported[t] \subseteq reported'[t]
    BY <1>6 DEF OtherWorkerSends, AttachTypeOK
  <2> QED
    BY <2>1, <2>2 DEF PublishInv, Done
<1>7. CASE CommitOffsets
  <2>1. /\ toPublish = {} /\ outbox = Empty /\ commitPc = "attached"
        /\ UNCHANGED <<toPublish, outbox, reported>>
    BY <1>7 DEF CommitOffsets, CommitAttached, attachVars
  <2>2. \A tp \in TP : Done(reported, tp, commitOffsets[tp])
    BY <2>1 DEF PublishInv, Done, Empty
  <2>3. \A tp \in TP : commitOffsets'[tp] = commitOffsets[tp] \/ commitOffsets'[tp] = NoOffset
    BY <1>7 DEF CommitOffsets, CommitAttached, CommitEnd, NoOffsets
  <2>4. \A tp \in TP : Done(reported, tp, commitOffsets'[tp])
    BY <2>2, <2>3, DoneNothing
  <2>5. \/ commitPc' = "idle" /\ commitOwner' = Nobody
        \/ commitPc' = "broker" /\ commitOwner' = commitOwner
    BY <1>7 DEF CommitOffsets, CommitAttached, CommitEnd
  <2> QED
    BY <2>1, <2>4, <2>5 DEF PublishInv, Done
<1>8. CASE CrashAll
  BY <1>8 DEF CrashAll, Crash, PublishInv
<1>9. CASE ConsumerStep
  <2>1. UNCHANGED <<outbox, toPublish, reported>>
    BY <1>9 DEF ConsumerStep, attachVars
  <2>2. CASE CommitDone
    <3>1. /\ commitPc = "broker" /\ commitPc' = "idle" /\ commitOwner' = Nobody
      BY <2>2 DEF CommitDone, CommitEnd
    <3> QED
      BY <2>1, <3>1 DEF PublishInv
  <2> USE DEF commitVars
  <2>3. CASE Fetcher
    BY <1>2, <2>1, <2>3 DEF Fetcher, FetchStart, FetchReturn,
       FetchReturnStopped, FetcherSeekDone, FetchBreak, GapMerge,
       FetcherCommitReturn, Deliver, FetchNext
  <2>4. CASE \/ Revoke \/ Join \/ OnAssigned \/ SignalRecovery \/ Recovery
             \/ \E w \in Workers : StreamTake(w) \/ StreamSkip(w)
    BY <1>2, <2>1, <2>4 DEF Revoke, Join, OnAssigned, SignalRecovery, Recovery,
       ResumeStreams, ResumeFlow, StreamTake, StreamSkip
  <2> QED
    BY <1>9, <2>2, <2>3, <2>4 DEF ConsumerStep
<1>10. CASE \/ UNCHANGED allVars \/ \E w \in Workers : Put(w) \/ AgentFinish(w)
  BY <1>2, <1>10 DEF allVars, vars, commitVars, attachVars, Put, AgentFinish,
     StreamFinish
<1> QED
  BY <1>3, <1>4, <1>5, <1>6, <1>7, <1>8, <1>9, <1>10 DEF AttachNext

(* In the same circumstances: whatever commits are refused, however        *)
(* partitions move and whenever the worker dies, when a message is         *)
(* committed the producer has been told of what the agent sent for it,     *)
(* that it was written or that it was given up.                            *)
THEOREM ReportedBeforeCommittedCorrect ==
    ASSUME Orderly
    PROVE  AttachSpec => []ReportedBeforeCommitted
<1> DEFINE IInv == AttachTypeOK /\ AttachInv /\ PipeInv(Kept)
<1>1. AttachInit /\ TypeOK => IInv
  <2> SUFFICES ASSUME AttachInit, TypeOK PROVE IInv
    OBVIOUS
  <2>1. Init
    BY DEF AttachInit
  <2>2. PipeInv(Kept)
    BY <2>1, PipeInit
  <2>3. AttachTypeOK
    BY DEF AttachInit, AttachTypeOK, Empty
  <2>4. \A tp \in TP : brokerCommitted[tp] = NoOffset
    BY <2>1 DEF Init, NoOffsets
  <2>5. ReportedInv
    BY <2>4, DoneNothing DEF ReportedInv
  <2>6. PublishInv /\ AnswerInv
    BY DEF AttachInit, Init, PublishInv, AnswerInv, Empty
  <2> QED
    BY <2>2, <2>3, <2>5, <2>6 DEF AttachInv
<1>2. TypeOK /\ TypeOK' /\ IInv /\ [AttachNext]_allVars => IInv'
  <2> SUFFICES ASSUME TypeOK, TypeOK', AttachTypeOK, AttachInv, PipeInv(Kept),
                      [AttachNext]_allVars
               PROVE  IInv'
    OBVIOUS
  <2>1. PipeInv(Kept)'
    BY KeptNext
  <2>2. AttachTypeOK'
    BY AttachTypeNext DEF AttachInv
  <2>3. ReportedInv' /\ AnswerInv'
    BY ReportedNext, AnswerNext DEF AttachInv, PipeInv
  <2>4. PublishInv'
    BY <2>1, PublishNextInv DEF AttachInv, PipeInv
  <2> QED
    BY <2>1, <2>2, <2>3, <2>4 DEF AttachInv
<1>3. IInv => ReportedBeforeCommitted
  BY DEF AttachInv, ReportedInv, ReportedBeforeCommitted, Done
<1>4. AttachSpec => []TypeOK
  BY AttachRefines, TypeCorrect, PTL
<1> HIDE DEF IInv
<1> QED
  BY <1>1, <1>2, <1>3, <1>4, PTL DEF AttachSpec

=============================================================================

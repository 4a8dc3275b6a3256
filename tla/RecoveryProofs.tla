--------------------------- MODULE RecoveryProofs ---------------------------
(***************************************************************************)
(* Theorems about Recovery for every set of partitions, length of          *)
(* changelog, size of buffer and queue, and number of rebalances and       *)
(* crashes.                                                                *)
(***************************************************************************)
EXTENDS Recovery, FiniteSetTheorems, SequenceTheorems, TLAPS
-----------------------------------------------------------------------------
(* Batches, and what they do to the store.                                 *)

(* A non-empty set of offsets has a greatest element.                      *)
LEMMA MaxExists ==
    ASSUME NEW S \in SUBSET Offsets, S # {}
    PROVE  Max(S) \in S /\ \A y \in S : Max(S) >= y
<1> DEFINE T == {MaxEnd - y : y \in S}
<1>1. \A y \in S : y \in Int /\ MaxEnd - y \in Nat
  BY RecoveryAssumption DEF Offsets
<1>2. T \in SUBSET Nat /\ T # {}
  BY <1>1
<1>3. PICK z \in T : \A t \in T : ~ (<<t, z>> \in OpToRel(<, Nat))
  BY <1>2, WFMin, NatLessThanWellFounded
<1>4. \A x, y \in Nat : x < y => <<x, y>> \in OpToRel(<, Nat)
  BY Zenon DEF OpToRel
<1>5. \A t \in T : ~ (t < z)
  BY <1>2, <1>3, <1>4, Zenon
<1>6. PICK x \in S : z = MaxEnd - x
  OBVIOUS
<1>7. \A y \in S : x >= y
  <2>1. \A y \in S : ~ (MaxEnd - y < MaxEnd - x)
    BY <1>5, <1>6
  <2>2. MaxEnd \in Nat
    BY RecoveryAssumption
  <2> QED
    BY <1>1, <2>1, <2>2
<1> QED
  BY <1>7, Zenon DEF Max

(* The offsets of a partition in a batch, by their places.                 *)
LEMMA OffsetsInBatch ==
    ASSUME NEW batch \in Seq(Record), NEW tp \in TP
    PROVE  /\ OffsetsIn(batch, tp) \subseteq Offsets
           /\ \A x : x \in OffsetsIn(batch, tp) <=>
                \E i \in 1..Len(batch) : batch[i].tp = tp /\ batch[i].offset = x
<1>1. Range(batch) = {batch[i] : i \in 1..Len(batch)}
  BY DEF Range
<1>2. \A i \in 1..Len(batch) : batch[i].offset \in Offsets
  <2>1. \A i \in 1..Len(batch) : batch[i] \in Record
    OBVIOUS
  <2> QED
    BY <2>1 DEF Record
<1> QED
  BY <1>1, <1>2 DEF OffsetsIn

(* The empty batch has no offsets.                                         *)
LEMMA OffsetsInEmpty == \A tp : OffsetsIn(<<>>, tp) = {}
  BY DEF OffsetsIn, Range

(* A record more in a batch.                                               *)
LEMMA OffsetsInAppend ==
    ASSUME NEW batch \in Seq(Record), NEW r \in Record, NEW tp \in TP
    PROVE  OffsetsIn(Append(batch, r), tp) =
             OffsetsIn(batch, tp) \cup (IF r.tp = tp THEN {r.offset} ELSE {})
<1> DEFINE more == Append(batch, r)
<1>1. /\ more \in Seq(Record) /\ Len(more) = Len(batch) + 1 /\ Len(batch) \in Nat
      /\ \A i \in 1..Len(batch) : more[i] = batch[i]
      /\ more[Len(batch) + 1] = r
  BY AppendProperties, LenProperties
<1>2. 1..Len(more) = 1..Len(batch) \cup {Len(batch) + 1}
  BY <1>1
<1>3. \A x : x \in OffsetsIn(more, tp) <=>
               \E i \in 1..Len(more) : more[i].tp = tp /\ more[i].offset = x
  <2> HIDE DEF more
  <2> QED
    BY <1>1, OffsetsInBatch
<1>4. \A x : x \in OffsetsIn(batch, tp) <=>
               \E i \in 1..Len(batch) : batch[i].tp = tp /\ batch[i].offset = x
  BY OffsetsInBatch
<1> HIDE DEF more
<1>5. \A x : x \in OffsetsIn(more, tp) <=>
               x \in OffsetsIn(batch, tp) \/ (r.tp = tp /\ x = r.offset)
  BY <1>1, <1>2, <1>3, <1>4
<1> QED
  BY <1>5 DEF more

(* What flushing a buffer does.                                            *)
LEMMA FlushFacts ==
    ASSUME NEW batch \in Seq(Record), store \in [TP -> SUBSET Offsets],
           persisted \in [TP -> {None} \cup Offsets], Flush(batch)
    PROVE  /\ store' \in [TP -> SUBSET Offsets]
           /\ persisted' \in [TP -> {None} \cup Offsets]
           /\ buffer' = <<>>
           /\ \A tp \in TP :
                /\ store'[tp] = store[tp] \cup OffsetsIn(batch, tp)
                /\ persisted'[tp] = persisted[tp] \/ persisted'[tp] \in OffsetsIn(batch, tp)
<1>1. \A tp \in TP : OffsetsIn(batch, tp) \subseteq Offsets
  BY OffsetsInBatch
<1>2. \A tp \in TP : OffsetsIn(batch, tp) # {} =>
                       Max(OffsetsIn(batch, tp)) \in OffsetsIn(batch, tp)
  BY <1>1, MaxExists
<1> QED
  BY <1>1, <1>2 DEF Flush, Applied, Persisted

(* A queue or buffer without its first element.                            *)
LEMMA TailFacts ==
    ASSUME NEW s \in Seq(Record), s # <<>>
    PROVE  /\ Tail(s) \in Seq(Record) /\ Len(s) \in Nat \ {0}
           /\ Len(Tail(s)) = Len(s) - 1
           /\ Head(s) = s[1] /\ Head(s) \in Record
           /\ \A i \in 1..Len(Tail(s)) : i + 1 \in 1..Len(s) /\ Tail(s)[i] = s[i + 1]
  OBVIOUS

(* A record has a partition and an offset.                                 *)
LEMMA RecordParts ==
    ASSUME NEW r \in Record
    PROVE  r.tp \in TP /\ r.offset \in Offsets /\ r.offset \in Nat
  BY RecoveryAssumption DEF Record, Offsets
-----------------------------------------------------------------------------
(* The circumstances: recovery does not resume the flow while the group    *)
(* rejoins; no task runs between the assigned callback and on_rebalance,   *)
(* or every assignment has a partition; and what is active here at one     *)
(* time is not a standby at another.                                       *)
Undisturbed ==
    /\ ~LateResume
    /\ Prompt \/ \A a \in Assignments : \E tp \in TP : a[tp] # "none"
    /\ \A a, b \in Assignments : \A tp \in TP :
          a[tp] = "active" => b[tp] # "standby"

(* Partitions that are never a standby here.                               *)
Own == {tp \in TP : \A a \in Assignments : a[tp] # "standby"}

(* The roles are new and on_rebalance has not been told.                   *)
Between == rebal \in {"assigned", "paused"}

(* Where _restart_recovery is: before it reads.                            *)
Starting == {"delay", "highwaters", "offsets", "seek"}

(* While it waits for signal_recovery_end.                                 *)
Reading == {"recovering", "recovered"}

(* After the actives, and before it resumes the streams.                   *)
Finishing == {"standbySeek", "standbyHw", "completing"}

(* It recovers what is assigned now.                                       *)
Round == ~Between /\ ~signalStart

(* What _seek_offsets uses has an offset.                                  *)
KnownInv ==
    /\ \A tp \in activeTps : activeOffsets[tp] # Absent
    /\ \A tp \in standbyTps : standbyOffsets[tp] # Absent
    /\ ~signalStart =>
         /\ mainPc \in {"seek"} \cup Reading =>
              \A tp \in activeTps : activeOffsets[tp] # None
         /\ mainPc \in {"seek", "standbySeek"} \cup Reading =>
              \A tp \in standbyTps : standbyOffsets[tp] # None

(* Nothing goes beyond the end of the changelog.                           *)
BoundInv ==
    /\ \A tp \in TP : /\ \A x \in store[tp] : x < logEnd[tp]
                      /\ persisted[tp] < logEnd[tp]
                      /\ activeOffsets[tp] < logEnd[tp]
                      /\ standbyOffsets[tp] < logEnd[tp]
                      /\ position[tp] <= logEnd[tp]
    /\ \A i \in 1..Len(queue) : queue[i].offset < logEnd[queue[i].tp]
    /\ \A i \in 1..Len(buffer) : buffer[i].offset < logEnd[buffer[i].tp]

(* The roles come from the assignor, and Recovery knows them.              *)
RoleInv ==
    /\ role \in Assignments \/ Assigned = {}
    /\ rebal # "revoked" => role \in Assignments
    /\ activeTps \subseteq Own /\ standbyTps \cap Own = {}
    /\ ~Between => activeTps = With("active") /\ standbyTps = With("standby")

(* What a rebalance leaves of the last generation.                         *)
PhaseInv ==
    /\ mainGen <= gen /\ recovGen <= gen
    /\ Between => mainGen < gen /\ recovGen < gen
    /\ Between => \A tp \in With("active") : position[tp] = 0
    /\ rebal = "paused" => clActive = {} /\ srcActive = {}
    /\ ~Between => clActive \subseteq Assigned /\ srcActive \subseteq With("active")
    /\ rebal # "stable" => queue = <<>>
    /\ (rebal # "stable" /\ flow) => Prompt /\ (rebal = "revoked" => Assigned = {})
    /\ \A i \in 1..Len(queue) : queue[i].tp \in activeTps \cup standbyTps
    /\ (~Between /\ (signalStart \/ mainPc \in Starting \cup Reading \cup Finishing))
          => srcActive = {}

(* Offsets that are in the store or on their way to it.                    *)
Taken(tp) == store[tp] \cup OffsetsIn(buffer, tp)

(* Offsets of a partition among the first events of the queue.             *)
Queued(q, tp, n) == {q[j].offset : j \in {k \in 1..n : q[k].tp = tp}}

(* A partition that is never a standby is read without a hole.             *)
CoverInv ==
    \A tp \in Own :
        /\ 0..persisted[tp] \subseteq store[tp]
        /\ \A x \in OffsetsIn(buffer, tp) : 0..x \subseteq Taken(tp)
        /\ 0..activeOffsets[tp] \subseteq Taken(tp)
        /\ (rebal = "stable" /\ tp \in clActive) =>
              0..position[tp] - 1 \subseteq
                 Taken(tp) \cup Queued(queue, tp, Len(queue))
        /\ \A i \in 1..Len(queue) : queue[i].tp = tp =>
              0..queue[i].offset \subseteq Taken(tp) \cup Queued(queue, tp, i)

(* A record of such a partition that is to be applied on its own never     *)
(* stays in the buffer.                                                    *)
SizesInv ==
    /\ \A tp \in Own : bufferSizes[tp] \in {0, BufferSize}
    /\ BufferSize = 1 => \A tp \in Own : OffsetsIn(buffer, tp) = {}

(* With a larger buffer nothing is read from a rebalance to the seek of    *)
(* the actives, and Delayed has emptied the buffer.                        *)
IdleInv ==
    BufferSize # 1 =>
        /\ (~Between /\ (signalStart \/ mainPc \in Starting)) =>
              clActive = {} /\ queue = <<>>
        /\ (Round /\ mainPc \in Starting \ {"delay"}) => buffer = <<>>

(* A round that a rebalance overtook while it was reading: on_rebalance    *)
(* came with everything paused and sought to the start.                    *)
OvertakenInv ==
    (rebal = "stable" /\ signalStart /\ mainPc \in Reading) =>
        /\ clActive = {}
        /\ \A tp \in activeTps : position[tp] = 0

(* Where the buffer can be left with something in it.                      *)
BufferInv == SizesInv /\ IdleInv /\ OvertakenInv

(* The round reaches the end of the changelog before the streams go on.    *)
RoundInv ==
    /\ (Round /\ mainPc \in {"offsets", "seek"} \cup Reading) =>
          \A tp \in activeTps : activeHw[tp] = logEnd[tp] - 1
    /\ (Round /\ mainPc \in {"recovered", "seekStreams"} \cup Finishing) =>
          \A tp \in activeTps : 0..logEnd[tp] - 1 \subseteq store[tp]
    /\ ~Between => \A tp \in srcActive : 0..logEnd[tp] - 1 \subseteq store[tp]

(* The inductive invariant.                                                *)
RecoveryInv ==
    /\ KnownInv /\ BoundInv /\ RoleInv /\ PhaseInv /\ CoverInv /\ BufferInv
    /\ RoundInv
-----------------------------------------------------------------------------
(* Type correctness.                                                       *)

(* An action is one of these when no request times out.                    *)
LEMMA NextCases ==
    ASSUME [Answered]_vars
    PROVE  \/ Revoke \/ Assign \/ PauseAssigned \/ OnRebalance
           \/ Wake \/ Again \/ Delayed \/ BuildHighwaters \/ BuildOffsets
           \/ SeekActives \/ ActivesDone \/ SeekStandbys \/ StartStandbys
           \/ Complete \/ ResumeStreams
           \/ (Quiet /\ Fetch) \/ Slurp \/ SlurpFails \/ SlurpTimeout
           \/ OtherWrites \/ (Quiet /\ Process) \/ Die \/ UNCHANGED vars
  BY DEF Answered, Rebalance, Worker, Main, SlurpChangelogs, Crash, RecoveryFails

(* What was read is noted, in the counter of the record's partition.       *)
LEMMA SeenFacts ==
    ASSUME NEW r \in Record, NEW which, NEW offsets \in [TP -> Entry]
    PROVE  /\ Seen(r, which, offsets) \in [TP -> Entry]
           /\ \A tp \in TP :
                \/ Seen(r, which, offsets)[tp] = offsets[tp]
                \/ /\ tp = r.tp /\ Seen(r, which, offsets)[tp] = r.offset
                   /\ Fresh(r) /\ Counter(r.tp) = which
  BY RecordParts DEF Seen, Entry

(* What Slurp does, whether or not it applies the buffer.                  *)
LEMMA SlurpFacts ==
    ASSUME TypeOK, Slurp, NEW r, r = Head(queue)
    PROVE  /\ queue # <<>> /\ queue' = Tail(queue) /\ r \in Record
           /\ Counter(r.tp) # "unbound"
           /\ activeOffsets' = Seen(r, "active", activeOffsets)
           /\ standbyOffsets' = Seen(r, "standby", standbyOffsets)
           /\ lastOffsets' = Counter(r.tp)
           /\ bufferSizes' = [bufferSizes EXCEPT ![r.tp] = Size(r.tp)]
           /\ \E rest \in Seq(Record) :
                /\ rest = IF Fresh(r) THEN Append(buffer, r) ELSE buffer
                /\ \/ Flush(rest)
                   \/ /\ buffer' = rest /\ UNCHANGED <<store, persisted>>
                      /\ ~ (Fresh(r) /\ Len(rest) >= Size(r.tp))
                      /\ UNCHANGED <<mainPc>>
           /\ \/ UNCHANGED mainPc
              \/ /\ mainPc = "recovering" /\ mainPc' = "recovered"
                 /\ ~NeedRecovery(activeHw, activeOffsets')
           /\ inRecovery' \in BOOLEAN
           /\ UNCHANGED <<brokerVars, fetchVars, tpVars, hwVars, signalStart,
                          recovGen, mainGen, crashes>>
<1>1. queue \in Seq(Record) /\ buffer \in Seq(Record) /\ inRecovery \in BOOLEAN
  BY DEF TypeOK
<1>2. r \in Record /\ queue # <<>>
  BY <1>1, TailFacts DEF Slurp
<1> DEFINE rest == IF Fresh(r) THEN Append(buffer, r) ELSE buffer
           full == Fresh(r) /\ Len(rest) >= Size(r.tp)
           done == inRecovery /\ ~NeedRecovery(activeHw, activeOffsets')
<1>3. rest \in Seq(Record)
  BY <1>1, <1>2
<1>4. /\ IF full \/ done THEN Flush(rest)
                         ELSE buffer' = rest /\ UNCHANGED <<store, persisted>>
      /\ SignalEnd(done)
  BY DEF Slurp
<1> HIDE DEF rest, done
<1>5. \/ UNCHANGED mainPc
      \/ mainPc = "recovering" /\ mainPc' = "recovered" /\ done
  BY <1>4 DEF SignalEnd
<1>6. \/ Flush(rest)
      \/ buffer' = rest /\ UNCHANGED <<store, persisted>> /\ ~full /\ UNCHANGED mainPc
  BY <1>4, <1>5
<1>7. inRecovery' \in BOOLEAN
  BY <1>4, Zenon DEF SignalEnd
<1>8. \E q \in Seq(Record) :
                /\ q = IF Fresh(r) THEN Append(buffer, r) ELSE buffer
                /\ \/ Flush(q)
                   \/ /\ buffer' = q /\ UNCHANGED <<store, persisted>>
                      /\ ~ (Fresh(r) /\ Len(q) >= Size(r.tp))
                      /\ UNCHANGED <<mainPc>>
  BY <1>3, <1>6 DEF rest
<1>9. \/ UNCHANGED mainPc
      \/ /\ mainPc = "recovering" /\ mainPc' = "recovered"
         /\ ~NeedRecovery(activeHw, activeOffsets')
  BY <1>5 DEF done
<1>10. /\ queue' = Tail(queue)
       /\ Counter(r.tp) # "unbound"
       /\ activeOffsets' = Seen(r, "active", activeOffsets)
       /\ standbyOffsets' = Seen(r, "standby", standbyOffsets)
       /\ lastOffsets' = Counter(r.tp)
       /\ bufferSizes' = [bufferSizes EXCEPT ![r.tp] = Size(r.tp)]
       /\ UNCHANGED <<brokerVars, fetchVars, tpVars, hwVars, signalStart,
                      recovGen, mainGen, crashes>>
  BY DEF Slurp
<1> QED
  BY <1>2, <1>7, <1>8, <1>9, <1>10

(* The parts of TypeOK: the broker and the group.                          *)
TypeGroup ==
    /\ logEnd \in [TP -> 0..MaxEnd]
    /\ role \in [TP -> {"active", "standby", "none"}]
    /\ gen \in 0..MaxGen
    /\ rebal \in {"stable", "revoked", "assigned", "paused"}
    /\ revoked \in SUBSET TP

(* The consumer and the changelog queue.                                   *)
TypeFetch ==
    /\ position \in [TP -> 0..MaxEnd]
    /\ clActive \in SUBSET TP /\ clPaused \in SUBSET TP
    /\ srcActive \in SUBSET TP /\ srcPaused \in SUBSET TP
    /\ flow \in BOOLEAN
    /\ queue \in Seq(Record) /\ Len(queue) <= MaxQueue

(* Partitions, offsets and highwaters of recovery.                         *)
TypeOffsets ==
    /\ activeTps \in SUBSET TP /\ standbyTps \in SUBSET TP
    /\ activeOffsets \in [TP -> Entry] /\ standbyOffsets \in [TP -> Entry]
    /\ activeHw \in [TP -> Entry] /\ standbyHw \in [TP -> Entry]

(* The task _restart_recovery.                                             *)
TypeMain ==
    /\ inRecovery \in BOOLEAN
    /\ signalStart \in BOOLEAN
    /\ recovGen \in 0..MaxGen /\ mainGen \in 0..MaxGen
    /\ mainPc \in {"wait", "delay", "highwaters", "offsets", "seek",
                   "recovering", "recovered", "standbySeek", "standbyHw",
                   "completing", "seekStreams"}

(* What the bounds count.                                                  *)
TypeCounts == crashes \in 0..MaxCrash /\ timeouts \in 0..MaxTimeouts

(* The task _slurp_changelogs and the store.                               *)
TypeStore ==
    /\ buffer \in Seq(Record)
    /\ bufferSizes \in [TP -> {0, BufferSize, StandbySize}]
    /\ lastOffsets \in {"unbound", "active", "standby"}
    /\ store \in [TP -> SUBSET Offsets]
    /\ persisted \in [TP -> {None} \cup Offsets]

(* They make up TypeOK.                                                    *)
LEMMA TypeParts ==
    TypeOK <=> /\ TypeGroup /\ TypeFetch /\ TypeOffsets /\ TypeMain /\ TypeStore
               /\ TypeCounts
  BY DEF TypeOK, TypeGroup, TypeFetch, TypeOffsets, TypeMain, TypeStore, TypeCounts

(* An offset that was looked up can be sought.                             *)
LEMMA SoughtType ==
    ASSUME position \in [TP -> 0..MaxEnd], NEW tps \in SUBSET TP,
           NEW offsets \in [TP -> Entry], Known(tps, offsets)
    PROVE  Sought(tps, offsets) \in [TP -> 0..MaxEnd]
<1> SUFFICES ASSUME NEW tp \in TP
             PROVE  (IF tp \notin tps THEN position[tp]
                     ELSE IF Value(offsets[tp]) = -1 THEN 0
                     ELSE Value(offsets[tp])) \in 0..MaxEnd
  BY DEF Sought
<1>1. offsets[tp] \in Entry
  OBVIOUS
<1> QED
  BY <1>1, RecoveryAssumption DEF Known, Value, Entry, Absent, None, Offsets

(* Numbers an entry can be.                                                *)
LEMMA EntryFacts ==
    /\ Absent \in Entry /\ None \in Entry /\ Offsets \subseteq Entry
    /\ Entry \subseteq Int /\ Offsets \subseteq Nat
    /\ MaxEnd \in Nat /\ \A n \in 0..MaxEnd : n - 1 \in Entry
  BY RecoveryAssumption DEF Entry, Offsets, Absent, None

(* The types and KnownInv hold at the start.                               *)
LEMMA TypeInit == Init => TypeOK /\ KnownInv
<1> SUFFICES ASSUME Init PROVE TypeOK /\ KnownInv
  OBVIOUS
<1>1. TypeGroup
  BY RecoveryAssumption DEF Init, TypeGroup
<1>2. TypeMain
  <2>1. 0 \in 0..MaxGen
    BY RecoveryAssumption
  <2>2. inRecovery \in BOOLEAN /\ signalStart \in BOOLEAN
    BY Zenon DEF Init
  <2> QED
    BY <2>1, <2>2 DEF Init, TypeMain
<1>5. TypeFetch
  <2>1. flow \in BOOLEAN
    BY DEF Init
  <2>2. position \in [TP -> 0..MaxEnd]
    BY RecoveryAssumption DEF Init
  <2> QED
    BY <2>1, <2>2, RecoveryAssumption DEF Init, TypeFetch
<1>3. TypeOffsets /\ TypeStore
  BY EntryFacts DEF Init, NoEntries, TypeOffsets, TypeStore
<1>4. KnownInv
  BY DEF Init, KnownInv, Reading
<1>6. TypeCounts
  BY RecoveryAssumption DEF Init, TypeCounts
<1> QED
  BY <1>1, <1>2, <1>3, <1>4, <1>5, <1>6, TypeParts

(* Every step keeps the types of the broker and the group.                 *)
LEMMA TypeGroupNext ==
    ASSUME TypeOK, [Answered]_vars
    PROVE  TypeGroup'
<1> USE TypeParts, RecoveryAssumption DEF TypeGroup
<1>1. CASE UNCHANGED brokerVars
  BY <1>1 DEF brokerVars
<1>2. CASE Revoke \/ PauseAssigned \/ OnRebalance
  BY <1>2 DEF Revoke, PauseAssigned, OnRebalance
<1>3. CASE Assign
  BY <1>3 DEF Assign, Assigned
<1>4. CASE Die
  BY <1>4 DEF Die
<1>5. CASE OtherWrites
  BY <1>5 DEF OtherWrites
<1>6. CASE Process
  BY <1>6 DEF Process, TypeFetch
<1>7. CASE UNCHANGED vars
  BY <1>1, <1>7 DEF vars
<1>8. \/ UNCHANGED brokerVars \/ Revoke \/ PauseAssigned \/ OnRebalance \/ Assign
      \/ Die \/ OtherWrites \/ Process \/ UNCHANGED vars
  BY NextCases DEF Wake, Again, Delayed, BuildHighwaters, BuildOffsets,
     SeekActives, ReadActives, AfterSeek, ActivesDone, SeekStandbys, StartStandbys,
     ReadStandbys, Complete,
     ResumeStreams, Fetch, Slurp, SlurpFails, SlurpTimeout, Step, Go
<1> QED
  BY <1>1, <1>2, <1>3, <1>4, <1>5, <1>6, <1>7, <1>8

(* Every step keeps the types of the consumer: positions are offsets.      *)
LEMMA TypeFetchNext ==
    ASSUME TypeOK, [Answered]_vars
    PROVE  TypeFetch'
<1> USE DEF TypeFetch
<1>0. /\ TypeGroup /\ TypeFetch /\ TypeOffsets
      /\ <<>> \in Seq(Record) /\ Len(<<>>) <= MaxQueue /\ MaxQueue \in Nat
  BY TypeParts, RecoveryAssumption
<1>1. CASE UNCHANGED <<fetchVars, queue>>
  BY <1>0, <1>1 DEF fetchVars
<1>2. CASE Revoke
  <2>1. (flow' = FALSE /\ queue' = <<>>) \/ UNCHANGED <<flow, queue>>
    BY <1>2 DEF Revoke
  <2>2. flow' \in BOOLEAN
    BY <1>0, <2>1, Zenon
  <2> QED
    BY <1>0, <1>2, <2>1, <2>2 DEF Revoke, Assigned, With
<1>3. CASE Assign
  <2>1. role' \in [TP -> {"active", "standby", "none"}]
    BY TypeGroupNext DEF TypeGroup
  <2> QED
    BY <1>0, <1>3, <2>1, EntryFacts DEF Assign, Assigned, With
<1>4. CASE PauseAssigned
  BY <1>0, <1>4 DEF PauseAssigned, Assigned, With
<1>5. CASE SeekActives
  <2>1. position' \in [TP -> 0..MaxEnd]
    BY <1>0, <1>5, SoughtType DEF SeekActives, TypeOffsets
  <2>2. queue' \in Seq(Record) /\ Len(queue') <= MaxQueue /\ flow' \in BOOLEAN
    BY <1>0, <1>5 DEF SeekActives, ReadActives, AfterSeek, ResumeFlow
  <2>3. clActive' \in SUBSET TP /\ clPaused' \in SUBSET TP
    BY <1>0, <1>5 DEF SeekActives, ReadActives, AfterSeek, StillRead, TypeOffsets
  <2> QED
    BY <1>0, <1>5, <2>1, <2>2, <2>3 DEF SeekActives, ReadActives, AfterSeek
<1>6. CASE ActivesDone
  <2>1. (flow' = TRUE /\ queue' \in {queue, <<>>}) \/ UNCHANGED <<flow, queue>>
    BY <1>6 DEF ActivesDone, ResumeFlow
  <2>3. flow' \in BOOLEAN
    BY <1>0, <2>1, Zenon
  <2>4. queue' \in Seq(Record) /\ Len(queue') <= MaxQueue
    BY <1>0, <2>1
  <2>2. clActive' \in SUBSET TP /\ clPaused' \in SUBSET TP
    BY <1>0, <1>6 DEF ActivesDone, StillRead, TypeOffsets
  <2> QED
    BY <1>0, <1>6, <2>2, <2>3, <2>4 DEF ActivesDone
<1>7. CASE SeekStandbys
  <2>2. position' \in [TP -> 0..MaxEnd]
    BY <1>0, <1>7, SoughtType DEF SeekStandbys, TypeOffsets
  <2> QED
    BY <1>0, <1>7, <2>2 DEF SeekStandbys
<1>8. CASE StartStandbys
  BY <1>0, <1>8 DEF StartStandbys, ReadStandbys, ResumeFlow, TypeOffsets
<1>9. CASE Complete
  BY <1>0, <1>9 DEF Complete, With
<1>10. CASE ResumeStreams
  BY <1>0, <1>10 DEF ResumeStreams, ResumeFlow
<1>11. CASE Fetch
  <2> PICK tp \in clActive : /\ position[tp] < logEnd[tp]
                             /\ queue' = Append(queue, [tp |-> tp, offset |-> position[tp]])
                             /\ position' = [position EXCEPT ![tp] = @ + 1]
    BY <1>11 DEF Fetch
  <2>1. /\ tp \in TP /\ position[tp] \in 0..MaxEnd /\ logEnd[tp] \in 0..MaxEnd
        /\ MaxEnd \in Nat
    BY <1>0, EntryFacts DEF TypeGroup
  <2>2. position[tp] \in Offsets /\ position[tp] + 1 \in 0..MaxEnd
    BY <2>1 DEF Offsets
  <2>3. [tp |-> tp, offset |-> position[tp]] \in Record
    BY <2>1, <2>2 DEF Record
  <2>4. queue' \in Seq(Record) /\ Len(queue') <= MaxQueue
    BY <1>0, <1>11, <2>3 DEF Fetch
  <2>5. position' \in [TP -> 0..MaxEnd]
    BY <1>0, <2>1, <2>2
  <2> QED
    BY <1>0, <1>11, <2>4, <2>5 DEF Fetch
<1>12. CASE Slurp \/ SlurpFails
  <2>1. queue # <<>> /\ queue' = Tail(queue) /\ UNCHANGED fetchVars
    BY <1>12 DEF Slurp, SlurpFails
  <2> QED
    BY <1>0, <2>1, TailFacts DEF fetchVars
<1>13. CASE Die
  <2>1. flow' = FALSE /\ queue' = <<>> /\ UNCHANGED position
    BY <1>13 DEF Die
  <2> QED
    BY <1>0, <1>13, <2>1 DEF Die
<1>14. CASE UNCHANGED vars
  BY <1>1, <1>14 DEF vars
<1>15. \/ UNCHANGED <<fetchVars, queue>> \/ Revoke \/ Assign \/ PauseAssigned
       \/ SeekActives \/ ActivesDone \/ SeekStandbys \/ StartStandbys
       \/ Complete \/ ResumeStreams \/ Fetch \/ Slurp \/ SlurpFails \/ Die
       \/ UNCHANGED vars
  BY NextCases DEF OnRebalance, Wake, Again, Delayed, BuildHighwaters, BuildOffsets,
     SlurpTimeout, OtherWrites, Process
<1> QED
  BY <1>1, <1>2, <1>3, <1>4, <1>5, <1>6, <1>7, <1>8, <1>9, <1>10, <1>11, <1>12,
     <1>13, <1>14, <1>15

(* What Recovery._add makes of an offset.                                  *)
LEMMA AddedFacts ==
    ASSUME persisted \in [TP -> {None} \cup Offsets], NEW offsets \in [TP -> Entry],
           NEW tp \in TP
    PROVE  /\ Added(offsets, tp) \in Entry /\ Added(offsets, tp) # Absent
           /\ Added(offsets, tp) \in {persisted[tp], None, offsets[tp]}
<1>1. /\ persisted[tp] \in {None} \cup Offsets /\ offsets[tp] \in Entry
      /\ Absent \notin {None} \cup Offsets
  BY DEF Absent, None, Offsets
<1>2. CASE persisted[tp] # None
  BY <1>1, <1>2, EntryFacts DEF Added
<1>3. CASE persisted[tp] = None /\ (offsets[tp] = Absent \/ tp \in revoked)
  BY <1>1, <1>3, EntryFacts DEF Added
<1>4. CASE persisted[tp] = None /\ ~ (offsets[tp] = Absent \/ tp \in revoked)
  BY <1>1, <1>4, EntryFacts DEF Added
<1> QED
  BY <1>2, <1>3, <1>4

(* What _build_offsets makes of them.                                      *)
LEMMA BuiltFacts ==
    ASSUME NEW offsets \in [TP -> Entry], NEW tps \in SUBSET TP,
           \A tp \in tps : offsets[tp] # Absent
    PROVE  /\ Built(offsets, tps) \in [TP -> Entry]
           /\ \A tp \in TP : \/ Built(offsets, tps)[tp] = offsets[tp]
                             \/ Built(offsets, tps)[tp] = -1
           /\ \A tp \in tps : Built(offsets, tps)[tp] \notin {Absent, None}
<1>1. \A tp \in TP :
        /\ offsets[tp] \in Entry
        /\ Built(offsets, tps)[tp] = IF tp \notin tps THEN offsets[tp]
                                     ELSE IF offsets[tp] = None THEN -1 ELSE offsets[tp]
  BY DEF Built, Value
<1>2. -1 \in Entry
  BY DEF Entry
<1>3. Built(offsets, tps) \in [TP -> Entry]
  <2>1. Built(offsets, tps) = [tp \in TP |-> Built(offsets, tps)[tp]]
    BY DEF Built
  <2> QED
    BY <1>1, <1>2, <2>1
<1> QED
  BY <1>1, <1>3 DEF Absent, None

(* They are entries still.                                                 *)
LEMMA BuiltType ==
    ASSUME NEW offsets \in [TP -> Entry], NEW tps \in SUBSET TP
    PROVE  Built(offsets, tps) \in [TP -> Entry]
<1>1. -1 \in Entry /\ 0 \in Entry
  BY RecoveryAssumption DEF Entry, Offsets
<1> QED
  BY <1>1 DEF Built, Value

(* Every step keeps the types of the offsets and highwaters.               *)
LEMMA TypeOffsetsNext ==
    ASSUME TypeOK, [Answered]_vars
    PROVE  TypeOffsets'
<1> USE DEF TypeOffsets
<1>0. TypeGroup /\ TypeOffsets /\ TypeStore
  BY TypeParts
<1>1. CASE UNCHANGED <<tpVars, offsetVars, hwVars>>
  BY <1>0, <1>1 DEF tpVars, offsetVars, hwVars
<1>2. CASE OnRebalance
  <2>1. \A tp \in TP : /\ Added(activeOffsets, tp) \in Entry
                       /\ Added(standbyOffsets, tp) \in Entry
    BY <1>0, AddedFacts DEF TypeStore
  <2>2. \A c \in [TP -> Entry] : Kept(c) \in [TP -> Entry]
    BY EntryFacts DEF Kept
  <2>3. activeHw' \in [TP -> Entry] /\ standbyHw' \in [TP -> Entry]
    BY <1>0, <1>2, <2>2 DEF OnRebalance
  <2>4. activeOffsets' \in [TP -> Entry]
    BY <1>2, <2>1, EntryFacts DEF OnRebalance
  <2>5. \A tp \in TP : Kept(standbyOffsets)[tp] \in Entry
    BY <1>0, <2>2
  <2>6. standbyOffsets' \in [TP -> Entry]
    BY <1>2, <2>1, <2>5 DEF OnRebalance
  <2> QED
    BY <1>2, <2>3, <2>4, <2>6 DEF OnRebalance, With
<1>3. CASE BuildHighwaters
  BY <1>0, <1>3, EntryFacts DEF BuildHighwaters, Highwaters, TypeGroup, tpVars,
     offsetVars
<1>4. CASE BuildOffsets
  BY <1>0, <1>4, BuiltType DEF BuildOffsets, tpVars, hwVars
<1>5. CASE StartStandbys
  BY <1>0, <1>5, EntryFacts DEF StartStandbys, ReadStandbys, Highwaters, TypeGroup,
     tpVars, offsetVars
<1>6. CASE Slurp \/ SlurpFails
  <2>1. queue # <<>> /\ queue \in Seq(Record)
    BY <1>6, TypeParts DEF Slurp, SlurpFails, TypeFetch
  <2>2. Head(queue) \in Record
    BY <2>1, TailFacts
  <2>3. /\ activeOffsets' \in {activeOffsets, Seen(Head(queue), "active", activeOffsets)}
        /\ standbyOffsets' \in {standbyOffsets, Seen(Head(queue), "standby", standbyOffsets)}
        /\ UNCHANGED <<tpVars, hwVars>>
    BY <1>6 DEF Slurp, SlurpFails, offsetVars
  <2> QED
    BY <1>0, <2>2, <2>3, SeenFacts DEF tpVars, hwVars
<1>7. CASE Die
  BY <1>7, EntryFacts DEF Die, NoEntries
<1>8. CASE UNCHANGED vars
  BY <1>1, <1>8 DEF vars
<1>9. \/ UNCHANGED <<tpVars, offsetVars, hwVars>> \/ OnRebalance \/ BuildHighwaters
      \/ BuildOffsets \/ StartStandbys \/ Slurp \/ SlurpFails \/ Die
      \/ UNCHANGED vars
  BY NextCases DEF Revoke, Assign, PauseAssigned, Wake, Again, Delayed, SeekActives,
     ReadActives, AfterSeek,
     ActivesDone, SeekStandbys, Complete, ResumeStreams, Fetch, SlurpTimeout,
     OtherWrites, Process
<1> QED
  BY <1>1, <1>2, <1>3, <1>4, <1>5, <1>6, <1>7, <1>8, <1>9

(* Every step keeps the types of _restart_recovery.                        *)
LEMMA TypeMainNext ==
    ASSUME TypeOK, [Answered]_vars
    PROVE  TypeMain'
<1> USE DEF TypeMain
<1>0. TypeGroup /\ TypeMain
  BY TypeParts
<1>1. CASE UNCHANGED <<inRecovery, mainVars>>
  BY <1>0, <1>1 DEF mainVars
<1>2. CASE OnRebalance
  <2>1. signalStart' = TRUE /\ recovGen' = gen
    BY <1>2 DEF OnRebalance
  <2> QED
    BY <1>0, <1>2, <2>1 DEF OnRebalance, TypeGroup
<1>3. CASE Wake \/ Again
  <2>1. signalStart' \in BOOLEAN
    BY <1>0, <1>3, Zenon DEF Wake, Again
  <2> QED
    BY <1>0, <1>3, <2>1 DEF Wake, Again
<1>4. ASSUME NEW from, NEW to, Step(from, to), inRecovery' \in BOOLEAN,
             to \in {"wait", "delay", "highwaters", "offsets", "seek",
                     "recovering", "recovered", "standbySeek", "standbyHw",
                     "completing", "seekStreams"}
      PROVE  TypeMain'
  BY <1>0, <1>4 DEF Step, Go
<1>5. CASE Delayed \/ BuildHighwaters \/ BuildOffsets
  <2>1. inRecovery' \in BOOLEAN
    BY <1>0, <1>5, Zenon DEF Delayed, BuildHighwaters, BuildOffsets
  <2> QED
    BY <1>4, <1>5, <2>1 DEF Delayed, BuildHighwaters, BuildOffsets
<1>6. CASE SeekActives \/ SeekStandbys \/ StartStandbys \/ Complete \/ ResumeStreams
  <2>1. inRecovery' \in BOOLEAN
    BY <1>0, <1>6, Zenon DEF SeekActives, ReadActives, AfterSeek, SeekStandbys,
       StartStandbys, ReadStandbys, Complete,
       ResumeStreams
  <2>2. AfterActives \in {"standbySeek", "completing"}
    BY DEF AfterActives
  <2> QED
    BY <1>4, <1>6, <2>1, <2>2 DEF SeekActives, ReadActives, AfterSeek, SeekStandbys,
       StartStandbys, ReadStandbys, Complete,
       ResumeStreams
<1>7. CASE ActivesDone
  <2>1. inRecovery' \in BOOLEAN
    BY <1>0, <1>7, Zenon DEF ActivesDone
  <2> QED
    BY <1>0, <1>7, <2>1 DEF ActivesDone, AfterActives
<1>8. CASE Slurp
  BY <1>0, <1>8, SlurpFacts
<1>9. CASE SlurpTimeout
  <2>1. inRecovery' \in BOOLEAN
    BY <1>9, Zenon DEF SlurpTimeout, SignalEnd
  <2> QED
    BY <1>0, <1>9, <2>1 DEF SlurpTimeout, SignalEnd
<1>10. CASE Die
  <2>1. /\ inRecovery' \in BOOLEAN /\ signalStart' \in BOOLEAN
    BY <1>10, Zenon DEF Die
  <2> QED
    BY <1>0, <1>10, <2>1, RecoveryAssumption DEF Die
<1>11. CASE UNCHANGED vars
  BY <1>1, <1>11 DEF vars
<1>12. \/ UNCHANGED <<inRecovery, mainVars>> \/ OnRebalance \/ Wake \/ Again
       \/ Delayed \/ BuildHighwaters \/ BuildOffsets \/ SeekActives \/ SeekStandbys
       \/ StartStandbys \/ Complete \/ ResumeStreams \/ ActivesDone \/ Slurp
       \/ SlurpTimeout \/ Die \/ UNCHANGED vars
  BY NextCases DEF Revoke, Assign, PauseAssigned, Fetch, SlurpFails, OtherWrites,
     Process
<1> QED
  BY <1>1, <1>2, <1>3, <1>5, <1>6, <1>7, <1>8, <1>9, <1>10, <1>11, <1>12

(* Every step keeps the types of the buffer and the store.                 *)
LEMMA TypeStoreNext ==
    ASSUME TypeOK, [Answered]_vars
    PROVE  TypeStore'
<1> USE DEF TypeStore
<1>0. TypeGroup /\ TypeFetch /\ TypeStore /\ <<>> \in Seq(Record)
  BY TypeParts
<1>1. CASE UNCHANGED slurpVars
  BY <1>0, <1>1 DEF slurpVars
<1>2. CASE Flush(buffer) /\ UNCHANGED <<bufferSizes, lastOffsets>>
  BY <1>0, <1>2, FlushFacts
<1>3. CASE Slurp
  <2> DEFINE r == Head(queue)
  <2>1. r \in Record
    BY <1>3, SlurpFacts
  <2>2. PICK rest \in Seq(Record) :
                /\ \/ Flush(rest)
                   \/ buffer' = rest /\ UNCHANGED <<store, persisted>>
    BY <1>3, SlurpFacts
  <2>3. /\ buffer' \in Seq(Record) /\ store' \in [TP -> SUBSET Offsets]
        /\ persisted' \in [TP -> {None} \cup Offsets]
    BY <1>0, <2>2, FlushFacts
  <2>4. r.tp \in TP
    BY <2>1, RecordParts
  <2>5. Size(r.tp) \in {0, BufferSize, StandbySize}
    BY <1>0, <2>4 DEF Size
  <2>6. bufferSizes' \in [TP -> {0, BufferSize, StandbySize}]
    BY <1>0, <1>3, <2>4, <2>5, SlurpFacts
  <2>7. lastOffsets' \in {"unbound", "active", "standby"}
    BY <1>0, <1>3, SlurpFacts DEF Counter
  <2> QED
    BY <2>3, <2>6, <2>7
<1>4. CASE SlurpFails
  <2>1. queue # <<>> /\ queue \in Seq(Record)
    BY <1>0, <1>4 DEF SlurpFails, TypeFetch
  <2>2. Head(queue) \in Record
    BY <2>1, TailFacts
  <2>3. /\ buffer' = buffer \/ buffer' = Append(buffer, Head(queue))
        /\ UNCHANGED <<bufferSizes, lastOffsets, store, persisted>>
    BY <1>4 DEF SlurpFails
  <2>4. buffer' \in Seq(Record)
    BY <1>0, <2>2, <2>3
  <2> QED
    BY <1>0, <2>3, <2>4
<1>5. CASE Process
  <2>1. PICK tp \in srcActive :
           /\ logEnd[tp] < MaxEnd
           /\ store' = [store EXCEPT ![tp] = @ \cup {logEnd[tp]}]
           /\ persisted' = [persisted EXCEPT ![tp] = logEnd[tp]]
    BY <1>5 DEF Process
  <2>2. tp \in TP /\ logEnd[tp] \in Offsets
    BY <1>0, <2>1, EntryFacts DEF TypeGroup, TypeFetch, Offsets
  <2> QED
    BY <1>0, <1>5, <2>1, <2>2 DEF Process
<1>6. CASE Die
  BY <1>0, <1>6 DEF Die
<1>7. CASE UNCHANGED vars
  BY <1>1, <1>7 DEF vars
<1>8. \/ UNCHANGED slurpVars \/ (Flush(buffer) /\ UNCHANGED <<bufferSizes, lastOffsets>>)
      \/ Slurp \/ SlurpFails \/ Process \/ Die \/ UNCHANGED vars
  BY NextCases DEF Revoke, Assign, PauseAssigned, OnRebalance, Wake, Again, Delayed,
     BuildHighwaters, BuildOffsets, SeekActives, ReadActives, AfterSeek, ActivesDone,
     SeekStandbys,
     StartStandbys, ReadStandbys, Complete, ResumeStreams, Fetch, SlurpTimeout,
     OtherWrites, Step, Go,
     slurpVars
<1> QED
  BY <1>1, <1>2, <1>3, <1>4, <1>5, <1>6, <1>7, <1>8

(* Every step keeps KnownInv.                                              *)
LEMMA KnownNext ==
    ASSUME TypeOK, KnownInv, [Answered]_vars
    PROVE  KnownInv'
<1> USE DEF KnownInv, Reading
<1>0. TypeOffsets /\ TypeStore /\ TypeFetch
  BY TypeParts
<1>1. CASE UNCHANGED <<tpVars, offsetVars, signalStart, mainPc>>
  BY <1>1 DEF tpVars, offsetVars
<1>2. CASE OnRebalance
  <2>1. \A tp \in TP : /\ Added(activeOffsets, tp) # Absent
                       /\ Added(standbyOffsets, tp) # Absent
    BY <1>0, AddedFacts DEF TypeStore, TypeOffsets
  <2>2. signalStart'
    BY <1>2 DEF OnRebalance
  <2> QED
    BY <1>2, <2>1, <2>2 DEF OnRebalance, With
<1>3. CASE Wake \/ Again \/ Delayed \/ BuildHighwaters
  <2>1. UNCHANGED <<tpVars, offsetVars>>
    BY <1>3 DEF Wake, Again, Delayed, BuildHighwaters
  <2>2. mainPc' \in {"wait", "delay", "highwaters", "offsets"}
    BY <1>3 DEF Wake, Again, Delayed, BuildHighwaters, Step, Go
  <2> QED
    BY <2>1, <2>2 DEF tpVars, offsetVars
<1>4. CASE BuildOffsets
  <2>1. /\ \A tp \in activeTps : activeOffsets'[tp] \notin {Absent, None}
        /\ \A tp \in standbyTps : standbyOffsets'[tp] \notin {Absent, None}
    BY <1>0, <1>4, BuiltFacts DEF BuildOffsets, TypeOffsets
  <2> QED
    BY <1>4, <2>1 DEF BuildOffsets, tpVars
<1>5. CASE SeekActives \/ SeekStandbys \/ StartStandbys \/ Complete \/ ResumeStreams
  <2>1. UNCHANGED <<tpVars, offsetVars, signalStart>>
    BY <1>5 DEF SeekActives, ReadActives, AfterSeek, SeekStandbys, StartStandbys,
       ReadStandbys, Complete, ResumeStreams, Step, Go
  <2>2. \/ mainPc = "seek" /\ ~signalStart
        \/ mainPc' \in {"standbyHw", "completing", "wait", "seekStreams"}
    BY <1>5 DEF SeekActives, ReadActives, AfterSeek, SeekStandbys, StartStandbys,
       ReadStandbys, Complete, ResumeStreams, Step, Go
  <2>3. (mainPc = "seek" /\ SeekActives) \/ mainPc # "seek"
    BY <1>5 DEF SeekActives, ReadActives, AfterSeek, SeekStandbys, StartStandbys,
       ReadStandbys, Complete, ResumeStreams, Step, Go
  <2> QED
    BY <2>1, <2>2, <2>3 DEF tpVars, offsetVars
<1>6. CASE ActivesDone
  <2>1. mainPc = "recovered" \/ (mainPc = "recovering" /\ signalStart)
    BY <1>6 DEF ActivesDone
  <2>2. mainPc' \in {"standbySeek", "completing"}
    BY <1>6 DEF ActivesDone, AfterActives
  <2>3. UNCHANGED <<tpVars, offsetVars, signalStart>>
    BY <1>6 DEF ActivesDone
  <2> QED
    BY <2>1, <2>2, <2>3 DEF tpVars, offsetVars
<1>7. CASE Slurp \/ SlurpFails
  <2> DEFINE r == Head(queue)
  <2>1. queue # <<>> /\ queue \in Seq(Record)
    BY <1>0, <1>7 DEF Slurp, SlurpFails, TypeFetch
  <2>2. r \in Record /\ r.offset \in Nat
    BY <2>1, TailFacts, RecordParts
  <2>3. /\ activeOffsets' \in {activeOffsets, Seen(r, "active", activeOffsets)}
        /\ standbyOffsets' \in {standbyOffsets, Seen(r, "standby", standbyOffsets)}
        /\ UNCHANGED <<tpVars, signalStart>>
    BY <1>7 DEF Slurp, SlurpFails, offsetVars, mainVars
  <2>4. \A tp \in TP : /\ activeOffsets'[tp] \in {activeOffsets[tp], r.offset}
                       /\ standbyOffsets'[tp] \in {standbyOffsets[tp], r.offset}
    BY <1>0, <2>2, <2>3, SeenFacts DEF TypeOffsets
  <2>5. UNCHANGED mainPc \/ (mainPc = "recovering" /\ mainPc' = "recovered")
    BY <1>7, SlurpFacts DEF SlurpFails, mainVars
  <2>6. r.offset \notin {Absent, None}
    BY <2>2 DEF Absent, None
  <2>7. activeTps \subseteq TP /\ standbyTps \subseteq TP
    BY <1>0 DEF TypeOffsets
  <2> HIDE DEF r
  <2> QED
    BY <2>3, <2>4, <2>5, <2>6, <2>7 DEF tpVars
<1>8. CASE SlurpTimeout
  BY <1>8 DEF SlurpTimeout, SignalEnd, tpVars, offsetVars
<1>9. CASE Die
  BY <1>9 DEF Die
<1>10. CASE UNCHANGED vars
  BY <1>1, <1>10 DEF vars, mainVars
<1>11. \/ UNCHANGED <<tpVars, offsetVars, signalStart, mainPc>> \/ OnRebalance \/ Wake
       \/ Again \/ Delayed \/ BuildHighwaters \/ BuildOffsets \/ SeekActives
       \/ SeekStandbys \/ StartStandbys \/ Complete \/ ResumeStreams \/ ActivesDone
       \/ Slurp \/ SlurpFails \/ SlurpTimeout \/ Die \/ UNCHANGED vars
  BY NextCases DEF Revoke, Assign, PauseAssigned, Fetch, OtherWrites, Process, mainVars
<1> QED
  BY <1>1, <1>2, <1>3, <1>4, <1>5, <1>6, <1>7, <1>8, <1>9, <1>10, <1>11

(* Only a timeout is counted as one.                                       *)
LEMMA CountsNext ==
    ASSUME TypeOK, [Answered]_vars
    PROVE  TypeCounts' /\ UNCHANGED timeouts
<1>0. crashes \in 0..MaxCrash /\ timeouts \in 0..MaxTimeouts /\ MaxCrash \in Nat
  BY RecoveryAssumption DEF TypeOK
<1>1. CASE UNCHANGED <<crashes, timeouts>>
  BY <1>0, <1>1 DEF TypeCounts
<1>2. CASE Crash
  BY <1>0, <1>2 DEF Crash, TypeCounts
<1>3. UNCHANGED <<crashes, timeouts>> \/ Crash
  BY DEF Answered, Rebalance, Worker, Main, SlurpChangelogs, Revoke, Assign,
     PauseAssigned, OnRebalance, Wake, Again, Delayed, BuildHighwaters, BuildOffsets,
     SeekActives, ActivesDone, SeekStandbys, StartStandbys, Complete, ResumeStreams,
     RecoveryFails, Fetch, Slurp, SlurpFails, SlurpTimeout, OtherWrites, Process, Step,
     Go, vars
<1> QED
  BY <1>1, <1>2, <1>3 DEF TypeCounts

(* A worker that dies leaves nothing of another type.                      *)
LEMMA DieTypes ==
    ASSUME TypeOK, Die
    PROVE  TypeGroup' /\ TypeFetch' /\ TypeOffsets' /\ TypeMain' /\ TypeStore'
<1>0. TypeGroup /\ TypeFetch /\ TypeStore /\ <<>> \in Seq(Record) /\ Len(<<>>) <= MaxQueue
  BY TypeParts, RecoveryAssumption
<1>1. TypeGroup'
  BY <1>0 DEF Die, TypeGroup
<1>2. TypeFetch'
  <2>1. flow' = FALSE /\ queue' = <<>> /\ UNCHANGED position
    BY DEF Die
  <2> QED
    BY <1>0, <2>1 DEF Die, TypeFetch
<1>3. TypeOffsets'
  BY EntryFacts DEF Die, NoEntries, TypeOffsets
<1>4. TypeMain'
  <2>1. inRecovery' \in BOOLEAN /\ signalStart' \in BOOLEAN
    BY Zenon DEF Die
  <2> QED
    BY <2>1, RecoveryAssumption DEF Die, TypeMain
<1>5. TypeStore'
  BY <1>0 DEF Die, TypeStore
<1> QED
  BY <1>1, <1>2, <1>3, <1>4, <1>5

(* A wait that times out leaves everything its type: what was not looked   *)
(* up is None or of an earlier round, and a position is sought or is what  *)
(* it was.                                                                 *)
LEMMA TimeoutTypes ==
    ASSUME TypeOK, Timeout
    PROVE  TypeOK' /\ timeouts' # 0
<1>0. /\ TypeGroup /\ TypeFetch /\ TypeOffsets /\ TypeMain /\ TypeStore /\ TypeCounts
      /\ <<>> \in Seq(Record) /\ Len(<<>>) <= MaxQueue
  BY TypeParts, RecoveryAssumption
<1>p. (/\ TypeGroup' /\ TypeFetch' /\ TypeOffsets' /\ TypeMain' /\ TypeStore'
       /\ TypeCounts') => TypeOK'
  BY DEF TypeOK, TypeGroup, TypeFetch, TypeOffsets, TypeMain, TypeStore, TypeCounts
<1>1. TypeCounts' /\ timeouts' # 0
  <2>1. timeouts < MaxTimeouts /\ timeouts' = timeouts + 1 /\ UNCHANGED crashes
    BY DEF Timeout, HighwatersTimeout, OffsetsTimeout, SeekTimeout, StandbySeekTimeout,
       StandbyHwTimeout, StandbyHwFails, Expire, Go
  <2> QED
    BY <1>0, <2>1, RecoveryAssumption DEF TypeCounts
<1>2. CASE StandbyHwFails
  BY <1>p, <1>1, <1>2, DieTypes DEF StandbyHwFails
<1>3. ASSUME NEW from, NEW to, Expire(from, to),
             to \in {"offsets", "seek", "recovering", "standbySeek", "standbyHw",
                     "completing"}
      PROVE  TypeGroup' /\ (inRecovery' \in BOOLEAN => TypeMain')
  BY <1>0, <1>3 DEF Expire, Go, brokerVars, TypeGroup, TypeMain
<1>4. ASSUME NEW from, NEW to, Expire(from, to), UNCHANGED <<buffer, store, persisted>>
      PROVE  TypeStore'
  BY <1>0, <1>4 DEF Expire, Go, TypeStore
<1>5. CASE HighwatersTimeout \/ OffsetsTimeout
  <2>1. /\ UNCHANGED <<fetchVars, queue, tpVars, hwVars, inRecovery>>
        /\ UNCHANGED <<buffer, store, persisted>>
        /\ Expire("highwaters", "offsets") \/ Expire("offsets", "seek")
        /\ activeOffsets' \in {activeOffsets, Built(activeOffsets, activeTps)}
        /\ standbyOffsets' \in {standbyOffsets, Built(standbyOffsets, standbyTps)}
    BY <1>5 DEF HighwatersTimeout, OffsetsTimeout, offsetVars
  <2>2. TypeFetch'
    BY <1>0, <2>1 DEF fetchVars, TypeFetch
  <2>3. TypeOffsets'
    BY <1>0, <2>1, BuiltType DEF tpVars, hwVars, TypeOffsets
  <2>4. inRecovery' \in BOOLEAN
    BY <1>0, <2>1, Zenon DEF TypeMain
  <2> QED
    BY <1>p, <1>1, <1>3, <1>4, <2>1, <2>2, <2>3, <2>4
<1>6. CASE SeekTimeout
  <2>1. /\ UNCHANGED <<srcActive, srcPaused, tpVars, offsetVars, hwVars>>
        /\ UNCHANGED <<buffer, store, persisted>>
        /\ Expire("seek", AfterSeek)
        /\ flow' = TRUE /\ queue' \in {queue, <<>>}
    BY <1>6 DEF SeekTimeout, ReadActives, ResumeFlow
  <2>2. AfterSeek \in {"recovering", "standbySeek", "completing"}
    BY DEF AfterSeek, AfterActives
  <2>3. inRecovery' \in BOOLEAN
    BY <1>6, Zenon DEF SeekTimeout, ReadActives
  <2>4. position' \in [TP -> 0..MaxEnd]
    <3>1. CASE UNCHANGED position
      BY <1>0, <3>1 DEF TypeFetch
    <3>2. CASE Known(activeTps, activeOffsets)
               /\ position' = Sought(activeTps, activeOffsets)
      BY <1>0, <3>2, SoughtType DEF TypeFetch, TypeOffsets
    <3> QED
      BY <1>6, <3>1, <3>2 DEF SeekTimeout
  <2>5. clActive' \in SUBSET TP /\ clPaused' \in SUBSET TP
    BY <1>0, <1>6 DEF SeekTimeout, ReadActives, StillRead, TypeFetch, TypeOffsets
  <2>6. TypeFetch'
    BY <1>0, <2>1, <2>4, <2>5 DEF TypeFetch
  <2>7. TypeOffsets'
    BY <1>0, <2>1 DEF tpVars, offsetVars, hwVars, TypeOffsets
  <2> QED
    BY <1>p, <1>1, <1>3, <1>4, <2>1, <2>2, <2>3, <2>6, <2>7
<1>7. CASE StandbySeekTimeout
  <2>1. /\ UNCHANGED <<clActive, clPaused, srcActive, srcPaused, flow, queue>>
        /\ UNCHANGED <<tpVars, offsetVars, hwVars, buffer, store, persisted, inRecovery>>
        /\ Expire("standbySeek", "standbyHw")
    BY <1>7 DEF StandbySeekTimeout
  <2>2. position' \in [TP -> 0..MaxEnd]
    <3>1. CASE UNCHANGED position
      BY <1>0, <3>1 DEF TypeFetch
    <3>2. CASE Known(standbyTps, standbyOffsets)
               /\ position' = Sought(standbyTps, standbyOffsets)
      BY <1>0, <3>2, SoughtType DEF TypeFetch, TypeOffsets
    <3> QED
      BY <1>7, <3>1, <3>2 DEF StandbySeekTimeout
  <2>3. TypeFetch'
    BY <1>0, <2>1, <2>2 DEF TypeFetch
  <2>4. TypeOffsets'
    BY <1>0, <2>1 DEF tpVars, offsetVars, hwVars, TypeOffsets
  <2>5. inRecovery' \in BOOLEAN
    BY <1>0, <2>1, Zenon DEF TypeMain
  <2> QED
    BY <1>p, <1>1, <1>3, <1>4, <2>1, <2>3, <2>4, <2>5
<1>8. CASE StandbyHwTimeout
  <2>1. /\ UNCHANGED <<position, srcActive, srcPaused, tpVars, offsetVars, hwVars>>
        /\ UNCHANGED <<buffer, store, persisted>>
        /\ Expire("standbyHw", "completing")
        /\ flow' = TRUE /\ queue' \in {queue, <<>>}
        /\ clActive' = clActive \cup standbyTps /\ clPaused' = clPaused \ standbyTps
    BY <1>8 DEF StandbyHwTimeout, ReadStandbys, ResumeFlow, hwVars
  <2>2. inRecovery' \in BOOLEAN
    BY <1>8, Zenon DEF StandbyHwTimeout, ReadStandbys
  <2>3. TypeFetch'
    BY <1>0, <2>1 DEF TypeFetch, TypeOffsets
  <2>4. TypeOffsets'
    BY <1>0, <2>1 DEF tpVars, offsetVars, hwVars, TypeOffsets
  <2> QED
    BY <1>p, <1>1, <1>3, <1>4, <2>1, <2>2, <2>3, <2>4
<1> QED
  BY <1>2, <1>5, <1>6, <1>7, <1>8 DEF Timeout

(* Whatever rebalances, crashes, records and timeouts meet the two tasks:  *)
(* every variable keeps its type.  In particular _seek_offsets only seeks  *)
(* to offsets, and never to the None that _add leaves for a table without  *)
(* a persisted offset.                                                     *)
THEOREM TypeCorrect == Spec => []TypeOK
<1>1. TypeOK /\ [Next]_vars => TypeOK'
  <2> SUFFICES ASSUME TypeOK, [Next]_vars PROVE TypeOK'
    OBVIOUS
  <2>1. CASE [Answered]_vars
    <3>1. TypeGroup' /\ TypeFetch' /\ TypeOffsets' /\ TypeMain' /\ TypeStore' /\ TypeCounts'
      BY <2>1, TypeGroupNext, TypeFetchNext, TypeOffsetsNext, TypeMainNext,
         TypeStoreNext,
         CountsNext
    <3> QED
      BY <3>1 DEF TypeOK, TypeGroup, TypeFetch, TypeOffsets, TypeMain, TypeStore,
         TypeCounts
  <2>2. CASE Timeout
    BY <2>2, TimeoutTypes
  <2> QED
    BY <2>1, <2>2 DEF Next
<1> QED
  BY <1>1, TypeInit, PTL DEF Spec

(* What TypeOK says of numbers, records and partitions.                    *)
LEMMA NumberTypes ==
    ASSUME TypeOK
    PROVE  /\ \A tp \in TP : /\ logEnd[tp] \in Nat /\ position[tp] \in Nat
                             /\ persisted[tp] \in Int
                             /\ activeOffsets[tp] \in Int /\ standbyOffsets[tp] \in Int
                             /\ activeHw[tp] \in Int /\ store[tp] \subseteq Nat
           /\ \A i \in 1..Len(queue) : /\ queue[i] \in Record /\ queue[i].tp \in TP
                                       /\ queue[i].offset \in Nat
           /\ \A i \in 1..Len(buffer) : /\ buffer[i] \in Record /\ buffer[i].tp \in TP
                                        /\ buffer[i].offset \in Nat
           /\ queue \in Seq(Record) /\ buffer \in Seq(Record)
           /\ Len(queue) \in Nat /\ Len(buffer) \in Nat
           /\ activeTps \subseteq TP /\ standbyTps \subseteq TP
           /\ gen \in Nat /\ mainGen \in Nat /\ recovGen \in Nat
<1>0. TypeGroup /\ TypeFetch /\ TypeOffsets /\ TypeMain /\ TypeStore
  BY TypeParts
<1>1. \A tp \in TP : logEnd[tp] \in Nat /\ position[tp] \in Nat
  BY <1>0, EntryFacts DEF TypeGroup, TypeFetch
<1>2. \A tp \in TP : /\ activeOffsets[tp] \in Int /\ standbyOffsets[tp] \in Int
                     /\ activeHw[tp] \in Int
  BY <1>0, EntryFacts DEF TypeOffsets
<1>3. \A tp \in TP : persisted[tp] \in Int /\ store[tp] \subseteq Nat
  BY <1>0, EntryFacts DEF TypeStore, None
<1>4. queue \in Seq(Record) /\ buffer \in Seq(Record)
  BY <1>0 DEF TypeFetch, TypeStore
<1>5. /\ Len(queue) \in Nat /\ Len(buffer) \in Nat
      /\ \A i \in 1..Len(queue) : queue[i] \in Record
      /\ \A i \in 1..Len(buffer) : buffer[i] \in Record
  BY <1>4
<1>6. /\ activeTps \subseteq TP /\ standbyTps \subseteq TP
      /\ gen \in Nat /\ mainGen \in Nat /\ recovGen \in Nat
  BY <1>0, RecoveryAssumption DEF TypeOffsets, TypeGroup, TypeMain
<1>7. \A r \in Record : r.tp \in TP /\ r.offset \in Nat
  BY RecordParts
<1> QED
  BY <1>1, <1>2, <1>3, <1>4, <1>5, <1>6, <1>7

-----------------------------------------------------------------------------
(* Everything ends with the changelog.                                     *)

(* BoundInv holds at the start.                                            *)
LEMMA BoundInit == Init => BoundInv
  BY DEF Init, BoundInv, NoEntries, Absent, None

(* What is known of a buffer, by offset.                                   *)
LEMMA BufferBound ==
    ASSUME TypeOK, BoundInv, NEW tp \in TP, NEW x \in OffsetsIn(buffer, tp)
    PROVE  x \in Nat /\ x < logEnd[tp]
<1>1. PICK i \in 1..Len(buffer) : buffer[i].tp = tp /\ buffer[i].offset = x
  BY NumberTypes, OffsetsInBatch
<1> QED
  BY <1>1, NumberTypes DEF BoundInv

(* Flushing the buffer keeps BoundInv, whatever becomes of the queue.      *)
LEMMA BoundFlush ==
    ASSUME TypeOK, BoundInv, Flush(buffer), queue' \in {queue, <<>>},
           UNCHANGED <<logEnd, position, offsetVars>>
    PROVE  BoundInv'
<1> USE NumberTypes
<1>1. store \in [TP -> SUBSET Offsets] /\ persisted \in [TP -> {None} \cup Offsets]
  BY DEF TypeOK
<1>2. /\ buffer' = <<>>
      /\ \A tp \in TP :
            /\ store'[tp] = store[tp] \cup OffsetsIn(buffer, tp)
            /\ persisted'[tp] = persisted[tp] \/ persisted'[tp] \in OffsetsIn(buffer, tp)
  BY <1>1, FlushFacts
<1>3. \A tp \in TP : \A x \in OffsetsIn(buffer, tp) : x < logEnd[tp]
  BY BufferBound
<1> QED
  BY <1>2, <1>3 DEF BoundInv, offsetVars

(* Taking a record from the queue keeps BoundInv.                          *)
LEMMA BoundSlurp ==
    ASSUME TypeOK, BoundInv, Slurp \/ SlurpFails
    PROVE  BoundInv'
<1> DEFINE r == Head(queue)
<1>0. /\ activeOffsets \in [TP -> Entry] /\ standbyOffsets \in [TP -> Entry]
      /\ store \in [TP -> SUBSET Offsets] /\ persisted \in [TP -> {None} \cup Offsets]
  BY DEF TypeOK
<1>1. queue # <<>> /\ queue' = Tail(queue) /\ UNCHANGED <<logEnd, position>>
  BY DEF Slurp, SlurpFails, brokerVars, fetchVars
<1>2. /\ Len(queue) \in Nat \ {0} /\ Len(queue') = Len(queue) - 1
      /\ r = queue[1] /\ r \in Record
      /\ \A i \in 1..Len(queue') : i + 1 \in 1..Len(queue) /\ queue'[i] = queue[i + 1]
  BY <1>1, NumberTypes, TailFacts
<1>3. r.tp \in TP /\ r.offset \in Nat /\ r.offset < logEnd[r.tp]
  BY <1>2, RecordParts DEF BoundInv
<1>4. /\ activeOffsets' \in {activeOffsets, Seen(r, "active", activeOffsets)}
      /\ standbyOffsets' \in {standbyOffsets, Seen(r, "standby", standbyOffsets)}
  BY DEF Slurp, SlurpFails, offsetVars
<1>5. \A tp \in TP :
         /\ activeOffsets'[tp] = activeOffsets[tp] \/ (tp = r.tp /\ activeOffsets'[tp] = r.offset)
         /\ standbyOffsets'[tp] = standbyOffsets[tp] \/ (tp = r.tp /\ standbyOffsets'[tp] = r.offset)
  BY <1>0, <1>2, <1>4, SeenFacts
<1>6. PICK rest \in Seq(Record) :
         /\ rest \in {buffer, Append(buffer, r)}
         /\ Flush(rest) \/ (buffer' = rest /\ UNCHANGED <<store, persisted>>)
  <2>1. CASE Slurp
    BY <2>1, SlurpFacts
  <2>2. CASE SlurpFails
    <3>1. buffer' \in {buffer, Append(buffer, r)} /\ UNCHANGED <<store, persisted>>
      BY <2>2 DEF SlurpFails
    <3>2. Append(buffer, r) \in Seq(Record)
      BY <1>2, NumberTypes
    <3> QED
      BY <3>1, <3>2, NumberTypes
  <2> QED
    BY <2>1, <2>2
<1>7. \A tp \in TP : \A x \in OffsetsIn(rest, tp) : x < logEnd[tp]
  <2> SUFFICES ASSUME NEW tp \in TP, NEW x \in OffsetsIn(rest, tp)
               PROVE  x < logEnd[tp]
    OBVIOUS
  <2>0. OffsetsIn(Append(buffer, r), tp) =
          OffsetsIn(buffer, tp) \cup (IF r.tp = tp THEN {r.offset} ELSE {})
    BY <1>2, OffsetsInAppend, NumberTypes
  <2>1. x \in OffsetsIn(buffer, tp) \/ (tp = r.tp /\ x = r.offset)
    BY <1>6, <2>0
  <2> QED
    BY <1>3, <2>1, BufferBound
<1>8. /\ \A tp \in TP : store'[tp] \subseteq store[tp] \cup OffsetsIn(rest, tp)
      /\ \A tp \in TP :
           persisted'[tp] = persisted[tp] \/ persisted'[tp] \in OffsetsIn(rest, tp)
      /\ buffer' \in {rest, <<>>}
  BY <1>0, <1>6, FlushFacts
<1>9. \A i \in 1..Len(buffer') : buffer'[i].offset < logEnd[buffer'[i].tp]
  <2> SUFFICES ASSUME buffer' = rest, NEW i \in 1..Len(rest)
               PROVE  rest[i].offset < logEnd[rest[i].tp]
    BY <1>8
  <2>1. rest[i] \in Record
    OBVIOUS
  <2>2. rest[i].tp \in TP /\ rest[i].offset \in OffsetsIn(rest, rest[i].tp)
    BY <2>1, RecordParts, OffsetsInBatch
  <2> QED
    BY <1>7, <2>2
<1>10. \A i \in 1..Len(queue') : queue'[i].offset < logEnd[queue'[i].tp]
  BY <1>2 DEF BoundInv
<1>11. \A tp \in TP :
         /\ \A x \in store'[tp] : x < logEnd[tp]
         /\ persisted'[tp] < logEnd[tp]
         /\ activeOffsets'[tp] < logEnd[tp] /\ standbyOffsets'[tp] < logEnd[tp]
  BY <1>3, <1>5, <1>7, <1>8 DEF BoundInv
<1> HIDE DEF r
<1> QED
  BY <1>1, <1>9, <1>10, <1>11 DEF BoundInv

(* Seeking to a known offset keeps to the changelog.                       *)
LEMMA SoughtBound ==
    ASSUME TypeOK, BoundInv, NEW tps \in SUBSET TP, NEW offsets \in [TP -> Entry],
           \A tp \in tps : offsets[tp] \notin {Absent, None} /\ offsets[tp] < logEnd[tp],
           NEW tp \in TP
    PROVE  Sought(tps, offsets)[tp] <= logEnd[tp]
<1>1. Sought(tps, offsets)[tp] = IF tp \notin tps THEN position[tp]
                                 ELSE IF offsets[tp] = -1 THEN 0 ELSE offsets[tp]
  BY DEF Sought, Value
<1>2. offsets[tp] \in Int
  BY EntryFacts
<1> QED
  BY <1>1, <1>2, NumberTypes DEF BoundInv

(* The changelog only grows.                                               *)
LEMMA BoundGrows ==
    ASSUME TypeOK, BoundInv, UNCHANGED <<position, offsetVars, queue, buffer>>,
           \A tp \in TP : logEnd'[tp] \in Int /\ logEnd[tp] <= logEnd'[tp],
           \A tp \in TP : /\ \A x \in store'[tp] : x \in store[tp] \/ x < logEnd'[tp]
                          /\ persisted'[tp] = persisted[tp] \/ persisted'[tp] < logEnd'[tp]
    PROVE  BoundInv'
<1>1. ASSUME NEW tp \in TP
      PROVE  /\ \A x \in store'[tp] : x < logEnd'[tp]
             /\ persisted'[tp] < logEnd'[tp]
             /\ activeOffsets[tp] < logEnd'[tp] /\ standbyOffsets[tp] < logEnd'[tp]
             /\ position[tp] <= logEnd'[tp]
  <2>1. /\ logEnd[tp] \in Nat /\ position[tp] \in Nat /\ persisted[tp] \in Int
        /\ activeOffsets[tp] \in Int /\ standbyOffsets[tp] \in Int
        /\ store[tp] \subseteq Nat
    BY NumberTypes
  <2>2. /\ \A x \in store[tp] : x < logEnd[tp]
        /\ persisted[tp] < logEnd[tp]
        /\ activeOffsets[tp] < logEnd[tp] /\ standbyOffsets[tp] < logEnd[tp]
        /\ position[tp] <= logEnd[tp]
    BY DEF BoundInv
  <2> QED
    BY <2>1, <2>2
<1>2. ASSUME NEW i \in 1..Len(queue)
      PROVE  queue[i].offset < logEnd'[queue[i].tp]
  <2>1. queue[i].tp \in TP /\ queue[i].offset \in Nat /\ logEnd[queue[i].tp] \in Nat
    BY NumberTypes
  <2>2. queue[i].offset < logEnd[queue[i].tp]
    BY DEF BoundInv
  <2> QED
    BY <2>1, <2>2
<1>3. ASSUME NEW i \in 1..Len(buffer)
      PROVE  buffer[i].offset < logEnd'[buffer[i].tp]
  <2>1. buffer[i].tp \in TP /\ buffer[i].offset \in Nat /\ logEnd[buffer[i].tp] \in Nat
    BY NumberTypes
  <2>2. buffer[i].offset < logEnd[buffer[i].tp]
    BY DEF BoundInv
  <2> QED
    BY <2>1, <2>2
<1> QED
  BY <1>1, <1>2, <1>3 DEF BoundInv, offsetVars

(* Every step keeps BoundInv.                                              *)
LEMMA BoundNext ==
    ASSUME TypeOK, KnownInv, BoundInv, [Answered]_vars
    PROVE  BoundInv'
<1> USE NumberTypes
<1>n. \A tp \in TP : /\ logEnd[tp] \in Nat /\ logEnd[tp] \in Int /\ position[tp] \in Nat
                     /\ \A x \in store[tp] : x \in Nat
  OBVIOUS
<1>b. \A tp \in TP : /\ persisted[tp] < logEnd[tp] /\ position[tp] <= logEnd[tp]
                     /\ activeOffsets[tp] < logEnd[tp] /\ standbyOffsets[tp] < logEnd[tp]
                     /\ 0 <= logEnd[tp] /\ -1 < logEnd[tp]
                     /\ None < logEnd[tp] /\ Absent < logEnd[tp]
  BY <1>n DEF BoundInv, None, Absent
<1>0. /\ activeOffsets \in [TP -> Entry] /\ standbyOffsets \in [TP -> Entry]
      /\ store \in [TP -> SUBSET Offsets] /\ persisted \in [TP -> {None} \cup Offsets]
      /\ position \in [TP -> 0..MaxEnd] /\ logEnd \in [TP -> 0..MaxEnd]
      /\ srcActive \subseteq TP /\ clActive \subseteq TP
  BY DEF TypeOK
<1>1. ASSUME UNCHANGED <<logEnd, position, offsetVars, store, persisted, buffer>>,
             queue' \in {queue, <<>>}
      PROVE  BoundInv'
  BY <1>1 DEF BoundInv, offsetVars
<1>2. CASE Revoke \/ Delayed \/ SlurpTimeout
  <2>1. Flush(buffer) /\ UNCHANGED <<logEnd, position, offsetVars>> /\ queue' \in {queue, <<>>}
    BY <1>2 DEF Revoke, Delayed, SlurpTimeout, Step, Go, brokerVars, fetchVars
  <2> QED
    BY <2>1, BoundFlush
<1>3. CASE Assign
  <2>1. /\ \A tp \in TP : position'[tp] = 0 \/ position'[tp] = position[tp]
        /\ UNCHANGED <<logEnd, queue, offsetVars, slurpVars>>
    BY <1>3 DEF Assign
  <2>2. \A tp \in TP : position'[tp] <= logEnd[tp]
    <3> HIDE NumberTypes
    <3> QED
      BY <1>b, <2>1
  <2> HIDE NumberTypes
  <2> QED
    BY <2>1, <2>2 DEF BoundInv, offsetVars, slurpVars
<1>4. CASE OnRebalance
  <2>1. \A tp \in TP :
          /\ activeOffsets'[tp] \in {persisted[tp], None, activeOffsets[tp], Absent}
          /\ standbyOffsets'[tp] \in {persisted[tp], None, standbyOffsets[tp], Absent}
    BY <1>0, <1>4, AddedFacts DEF OnRebalance, Kept
  <2>2. UNCHANGED <<logEnd, fetchVars, queue, slurpVars>>
    BY <1>4 DEF OnRebalance
  <2>3. \A tp \in TP : /\ activeOffsets'[tp] < logEnd[tp]
                       /\ standbyOffsets'[tp] < logEnd[tp]
    <3> HIDE NumberTypes
    <3> QED
      BY <1>b, <2>1
  <2> QED
    BY <2>2, <2>3 DEF BoundInv, fetchVars, slurpVars
<1>5. CASE BuildOffsets
  <2>1. \A tp \in TP : /\ activeOffsets'[tp] \in {activeOffsets[tp], -1}
                       /\ standbyOffsets'[tp] \in {standbyOffsets[tp], -1}
    BY <1>0, <1>5, BuiltFacts DEF BuildOffsets, KnownInv
  <2>2. UNCHANGED <<logEnd, fetchVars, queue, buffer, store, persisted>>
    BY <1>5 DEF BuildOffsets, Step, Go, brokerVars
  <2>3. \A tp \in TP : /\ activeOffsets'[tp] < logEnd[tp]
                       /\ standbyOffsets'[tp] < logEnd[tp]
    <3> HIDE NumberTypes
    <3> QED
      BY <1>b, <2>1
  <2> QED
    BY <2>2, <2>3 DEF BoundInv, fetchVars
<1>6. CASE SeekActives
  <2>1. \A tp \in activeTps : activeOffsets[tp] \notin {Absent, None}
    BY <1>6 DEF SeekActives, ReadActives, AfterSeek, Step, Go, KnownInv, Reading
  <2>2. \A tp \in TP : position'[tp] <= logEnd[tp]
    BY <1>0, <1>6, <2>1, SoughtBound DEF SeekActives, ReadActives, AfterSeek, BoundInv
  <2>3. /\ UNCHANGED <<logEnd, offsetVars, buffer, store, persisted>>
        /\ queue' \in {queue, <<>>}
    BY <1>6 DEF SeekActives, ReadActives, AfterSeek, Step, Go, brokerVars, ResumeFlow
  <2> QED
    BY <2>2, <2>3 DEF BoundInv, offsetVars
<1>7. CASE SeekStandbys
  <2>1. \A tp \in standbyTps : standbyOffsets[tp] \notin {Absent, None}
    BY <1>7 DEF SeekStandbys, Step, Go, KnownInv, Reading
  <2>2. \A tp \in TP : position'[tp] <= logEnd[tp]
    BY <1>0, <1>7, <2>1, SoughtBound DEF SeekStandbys, BoundInv
  <2>3. UNCHANGED <<logEnd, offsetVars, buffer, store, persisted, queue>>
    BY <1>7 DEF SeekStandbys, Step, Go, brokerVars
  <2> QED
    BY <2>2, <2>3 DEF BoundInv, offsetVars
<1>8. CASE Fetch
  <2>1. PICK tp \in clActive :
          /\ position[tp] < logEnd[tp]
          /\ queue' = Append(queue, [tp |-> tp, offset |-> position[tp]])
          /\ position' = [position EXCEPT ![tp] = @ + 1]
    BY <1>8 DEF Fetch
  <2>2. UNCHANGED <<logEnd, offsetVars, slurpVars>>
    BY <1>8 DEF Fetch, brokerVars
  <2>3. /\ Len(queue') = Len(queue) + 1
        /\ \A i \in 1..Len(queue) : queue'[i] = queue[i]
        /\ queue'[Len(queue) + 1] = [tp |-> tp, offset |-> position[tp]]
    BY <2>1
  <2>4. \A i \in 1..Len(queue') : queue'[i].offset < logEnd[queue'[i].tp]
    BY <2>1, <2>3 DEF BoundInv
  <2>5. \A t \in TP : position'[t] <= logEnd[t]
    BY <1>0, <2>1 DEF BoundInv
  <2> QED
    BY <2>2, <2>4, <2>5 DEF BoundInv, offsetVars, slurpVars
<1>9. CASE Slurp \/ SlurpFails
  BY <1>9, BoundSlurp
<1>10. CASE OtherWrites
  <2>1. /\ UNCHANGED <<fetchVars, queue, offsetVars, slurpVars>>
        /\ \A t \in TP : logEnd'[t] \in Int /\ logEnd[t] <= logEnd'[t]
    <3> HIDE NumberTypes
    <3>1. UNCHANGED <<fetchVars, queue, offsetVars, slurpVars>>
      BY <1>10 DEF OtherWrites
    <3>2. PICK tp \in TP : logEnd' = [logEnd EXCEPT ![tp] = @ + 1]
      BY <1>10 DEF OtherWrites
    <3>3. \A t \in TP : logEnd'[t] = logEnd[t] \/ logEnd'[t] = logEnd[t] + 1
      BY <1>0, <3>2
    <3> QED
      BY <1>n, <3>1, <3>3
  <2> QED
    BY <2>1, BoundGrows DEF fetchVars, slurpVars
<1>11. CASE Process
  <2>1. PICK tp \in srcActive :
           /\ logEnd' = [logEnd EXCEPT ![tp] = @ + 1]
           /\ store' = [store EXCEPT ![tp] = @ \cup {logEnd[tp]}]
           /\ persisted' = [persisted EXCEPT ![tp] = logEnd[tp]]
    BY <1>11 DEF Process
  <2>2. UNCHANGED <<fetchVars, queue, offsetVars, buffer>>
    BY <1>11 DEF Process
  <2>3. \A t \in TP : /\ logEnd'[t] \in Int /\ logEnd[t] <= logEnd'[t]
                      /\ \A x \in store'[t] : x \in store[t] \/ x < logEnd'[t]
                      /\ persisted'[t] = persisted[t] \/ persisted'[t] < logEnd'[t]
    <3> HIDE NumberTypes
    <3>1. \A t \in TP : t # tp => /\ logEnd'[t] = logEnd[t] /\ store'[t] = store[t]
                                  /\ persisted'[t] = persisted[t]
      BY <1>0, <2>1
    <3>2. /\ logEnd'[tp] = logEnd[tp] + 1 /\ persisted'[tp] = logEnd[tp]
          /\ store'[tp] = store[tp] \cup {logEnd[tp]} /\ tp \in TP
      BY <1>0, <2>1
    <3>3. logEnd[tp] <= logEnd'[tp] /\ logEnd[tp] < logEnd'[tp] /\ logEnd'[tp] \in Int
      BY <1>n, <3>2
    <3>4. \A t \in TP : logEnd'[t] \in Int /\ logEnd[t] <= logEnd'[t]
      BY <1>n, <3>1, <3>3
    <3> QED
      BY <3>1, <3>2, <3>3, <3>4
  <2> QED
    BY <2>2, <2>3, BoundGrows DEF fetchVars
<1>12. CASE Die
  BY <1>12 DEF Die, BoundInv, NoEntries, Absent
<1>13. \/ Revoke \/ Delayed \/ SlurpTimeout \/ Assign \/ OnRebalance \/ BuildOffsets
       \/ SeekActives \/ SeekStandbys \/ Fetch \/ Slurp \/ SlurpFails \/ OtherWrites
       \/ Process \/ Die
       \/ /\ UNCHANGED <<logEnd, position, offsetVars, store, persisted, buffer>>
          /\ queue' \in {queue, <<>>}
  BY NextCases DEF PauseAssigned, Wake, Again, BuildHighwaters, ActivesDone,
     StartStandbys, ReadStandbys, Complete, ResumeStreams, ResumeFlow, Step, Go, vars,
     brokerVars,
     fetchVars, slurpVars
<1> QED
  BY <1>1, <1>2, <1>3, <1>4, <1>5, <1>6, <1>7, <1>8, <1>9, <1>10, <1>11, <1>12, <1>13

-----------------------------------------------------------------------------
(* Roles and phases of a rebalance.                                        *)

(* RoleInv holds at the start.                                             *)
LEMMA RoleInit == Init => RoleInv
  BY DEF Init, RoleInv, Between, With, Assigned

(* Every step keeps RoleInv.                                               *)
LEMMA RoleNext ==
    ASSUME Undisturbed, TypeOK, RoleInv, [Answered]_vars
    PROVE  RoleInv'
<1> USE DEF RoleInv, Between
<1>0. role \in [TP -> {"active", "standby", "none"}]
  BY DEF TypeOK
<1>1. CASE UNCHANGED <<role, rebal, tpVars>>
  BY <1>1 DEF With, Assigned, tpVars
<1>2. CASE Revoke \/ PauseAssigned
  <2>1. UNCHANGED <<role, tpVars>> /\ rebal # "revoked"
    BY <1>2 DEF Revoke, PauseAssigned
  <2>2. (rebal = "stable" /\ rebal' = "revoked") \/ rebal' = "paused"
    BY <1>2 DEF Revoke, PauseAssigned
  <2> QED
    BY <2>1, <2>2 DEF With, Assigned, tpVars
<1>3. CASE Assign
  BY <1>3 DEF Assign, tpVars
<1>4. CASE OnRebalance
  <2>1. /\ activeTps' = With("active") /\ standbyTps' = With("standby")
        /\ UNCHANGED role /\ role \in Assignments
    BY <1>4 DEF OnRebalance
  <2>2. With("active") \subseteq Own /\ With("standby") \cap Own = {}
    BY <2>1 DEF Undisturbed, Own, With
  <2> QED
    BY <2>1, <2>2 DEF With, Assigned
<1>5. CASE Die
  BY <1>5 DEF Die, With, Assigned
<1>6. \/ UNCHANGED <<role, rebal, tpVars>> \/ Revoke \/ PauseAssigned \/ Assign
      \/ OnRebalance \/ Die
  BY NextCases DEF Wake, Again, Delayed, BuildHighwaters, BuildOffsets, SeekActives,
     ReadActives, AfterSeek,
     ActivesDone, SeekStandbys, StartStandbys, ReadStandbys, Complete, ResumeStreams,
     Fetch, Slurp,
     SlurpFails, SlurpTimeout, OtherWrites, Process, Step, Go, vars, brokerVars
<1> QED
  BY <1>1, <1>2, <1>3, <1>4, <1>5, <1>6

(* The partitions of this worker, between rebalances.                      *)
LEMMA AssignedTps ==
    ASSUME TypeOK, RoleInv, ~Between
    PROVE  /\ Assigned = activeTps \cup standbyTps
           /\ activeTps = With("active") /\ standbyTps = With("standby")
  BY DEF TypeOK, RoleInv, Assigned, With

(* PhaseInv holds at the start.                                            *)
LEMMA PhaseInit == Init => PhaseInv
<1> SUFFICES ASSUME Init PROVE PhaseInv
  OBVIOUS
<1>1. ~Between /\ rebal = "revoked" /\ ~flow /\ queue = <<>>
  BY DEF Init, Between
<1>2. /\ clActive = {} /\ srcActive = {} /\ mainGen = 0 /\ recovGen = 0 /\ gen = 0
  BY DEF Init
<1> QED
  BY <1>1, <1>2 DEF PhaseInv

(* Nothing is fetched or processed while the group is not stable.          *)
LEMMA StableOnly ==
    ASSUME TypeOK, RoleInv, PhaseInv, (Quiet /\ Fetch) \/ (Quiet /\ Process)
    PROVE  rebal = "stable"
<1>1. flow /\ (clActive # {} \/ srcActive # {})
  BY DEF Fetch, Process
<1>2. rebal \in {"stable", "revoked", "assigned", "paused"}
  BY DEF TypeOK
<1>3. CASE rebal = "revoked"
  BY <1>1, <1>3 DEF PhaseInv, Between, Assigned, With
<1>4. CASE rebal \in {"assigned", "paused"}
  BY <1>1, <1>4 DEF PhaseInv, Quiet
<1> QED
  BY <1>2, <1>3, <1>4

(* Every record in the queue is of a partition the worker has.             *)
LEMMA NeverFails ==
    ASSUME TypeOK, PhaseInv
    PROVE  ~SlurpFails
<1> SUFFICES ASSUME SlurpFails PROVE FALSE
  OBVIOUS
<1>1. queue # <<>> /\ queue \in Seq(Record)
  BY NumberTypes DEF SlurpFails
<1>2. Head(queue) = queue[1] /\ 1 \in 1..Len(queue)
  BY <1>1, TailFacts
<1>3. Head(queue).tp \in activeTps \cup standbyTps
  BY <1>2 DEF PhaseInv
<1>4. Counter(Head(queue).tp) # "unbound" /\ Size(Head(queue).tp) # 0
  BY <1>3, RecoveryAssumption DEF Counter, Size
<1> QED
  BY <1>4 DEF SlurpFails

(* A step of recovery or a write elsewhere that leaves the rebalance, the  *)
(* flow and the partitions alone.                                          *)
LEMMA PhaseKept ==
    ASSUME TypeOK, PhaseInv, UNCHANGED <<gen, rebal, role, activeTps, standbyTps>>,
           mainGen' \in {mainGen, recovGen}, UNCHANGED recovGen,
           Between => UNCHANGED position,
           UNCHANGED <<srcActive, flow, queue>>,
           clActive' \subseteq clActive,
           srcActive = {} \/ (signalStart' => signalStart),
           \/ mainPc' \in Starting \cup Reading \cup Finishing =>
                 mainPc \in Starting \cup Reading \cup Finishing \/ signalStart
           \/ srcActive = {}
    PROVE  PhaseInv'
<1> USE NumberTypes
<1>1. Between' = Between /\ Assigned' = Assigned /\ \A r : With(r)' = With(r)
  BY DEF Between, Assigned, With
<1>2. /\ mainGen' <= gen /\ recovGen' <= gen
      /\ Between => mainGen' < gen /\ recovGen' < gen
  BY DEF PhaseInv
<1> QED
  BY <1>1, <1>2 DEF PhaseInv

(* Resuming the flow in a stable group, with more partitions to read.      *)
LEMMA PhaseResume ==
    ASSUME TypeOK, RoleInv, PhaseInv, rebal = "stable",
           UNCHANGED <<gen, rebal, role, activeTps, standbyTps, mainGen, recovGen>>,
           UNCHANGED <<srcActive, signalStart>>,
           clActive' \subseteq clActive \cup activeTps \cup standbyTps,
           queue' \in {queue, <<>>},
           mainPc' \in Starting \cup Reading \cup Finishing =>
              mainPc \in Starting \cup Reading \cup Finishing
    PROVE  PhaseInv'
<1>1. Assigned' = Assigned /\ \A r : With(r)' = With(r)
  BY DEF Assigned, With
<1>2. ~Between /\ ~Between'
  BY DEF Between
<1>3. Assigned = activeTps \cup standbyTps
  BY <1>2, AssignedTps
<1>4. \A i \in 1..Len(queue') : queue'[i].tp \in activeTps \cup standbyTps
  BY DEF PhaseInv
<1> QED
  BY <1>1, <1>2, <1>3, <1>4 DEF PhaseInv

(* Every step keeps PhaseInv.                                              *)
LEMMA PhaseNext ==
    ASSUME Undisturbed, TypeOK, TypeOK', RoleInv, PhaseInv, [Answered]_vars
    PROVE  PhaseInv'
<1> USE NumberTypes DEF Starting, Reading, Finishing
<1>0. ~LateResume
  BY DEF Undisturbed
<1>1. CASE UNCHANGED vars
  BY <1>1 DEF vars, brokerVars, fetchVars, tpVars, mainVars, PhaseInv, Between,
     Assigned,
     With
<1>2. CASE Revoke
  <2>1. /\ rebal = "stable" /\ rebal' = "revoked" /\ UNCHANGED <<role, gen, mainVars>>
        /\ UNCHANGED <<tpVars, position>>
    BY <1>2 DEF Revoke
  <2>2. Assigned' = Assigned /\ \A r : With(r)' = With(r)
    BY <2>1 DEF Assigned, With
  <2>3. ~Between /\ ~Between'
    BY <2>1 DEF Between
  <2>4. CASE Assigned # {}
    <3>1. flow' = FALSE /\ clActive' = {} /\ srcActive' = {} /\ queue' = <<>>
      BY <1>2, <2>4 DEF Revoke
    <3> QED
      BY <2>1, <2>2, <2>3, <3>1 DEF PhaseInv, mainVars
  <2>5. CASE Assigned = {}
    <3>1. UNCHANGED <<flow, clActive, srcActive, queue>>
      BY <1>2, <2>5 DEF Revoke
    <3>2. queue = <<>>
      <4>1. activeTps \cup standbyTps = {}
        BY <2>3, <2>5, AssignedTps
      <4> QED
        BY <4>1 DEF PhaseInv
    <3>3. Prompt
      <4>1. role \in Assignments
        BY <2>1 DEF RoleInv
      <4>2. ~ \E tp \in TP : role[tp] # "none"
        BY <2>5 DEF Assigned, With
      <4> QED
        BY <4>1, <4>2 DEF Undisturbed
    <3> QED
      BY <2>1, <2>2, <2>3, <2>5, <3>1, <3>2, <3>3 DEF PhaseInv, mainVars, tpVars
  <2> QED
    BY <2>4, <2>5
<1>3. CASE Assign
  <2>1. /\ rebal = "revoked" /\ rebal' = "assigned" /\ gen' = gen + 1
        /\ UNCHANGED <<flow, queue, mainVars, tpVars>>
        /\ position' = [tp \in TP |-> IF tp \in Assigned' THEN 0 ELSE position[tp]]
    BY <1>3 DEF Assign
  <2>2. ~Between /\ Between'
    BY <2>1 DEF Between
  <2>3. \A tp \in With("active")' : position'[tp] = 0
    BY <2>1 DEF With, Assigned
  <2>4. queue = <<>> /\ (flow => Prompt)
    BY <2>1 DEF PhaseInv
  <2> QED
    BY <2>1, <2>2, <2>3, <2>4 DEF PhaseInv, mainVars
<1>4. CASE PauseAssigned
  <2>1. /\ rebal = "assigned" /\ rebal' = "paused" /\ clActive' = {} /\ srcActive' = {}
        /\ UNCHANGED <<role, gen, position, flow, queue, tpVars, mainVars>>
    BY <1>4 DEF PauseAssigned
  <2>2. Between /\ Between' /\ \A r : With(r)' = With(r)
    BY <2>1 DEF Between, With
  <2> QED
    BY <2>1, <2>2 DEF PhaseInv, mainVars, tpVars
<1>5. CASE OnRebalance
  <2>1. /\ rebal = "paused" /\ rebal' = "stable" /\ recovGen' = gen
        /\ UNCHANGED <<role, gen, fetchVars, queue, mainGen>>
    BY <1>5 DEF OnRebalance
  <2>2. Between /\ ~Between'
    BY <2>1 DEF Between
  <2>3. clActive' = {} /\ srcActive' = {} /\ queue' = <<>>
    BY <2>1 DEF PhaseInv, fetchVars
  <2> QED
    BY <2>1, <2>2, <2>3 DEF PhaseInv
<1>6. CASE Wake \/ Again \/ Delayed \/ BuildHighwaters \/ BuildOffsets \/ SlurpTimeout
  <2>1. /\ UNCHANGED <<gen, rebal, role, activeTps, standbyTps, recovGen>>
        /\ mainGen' \in {mainGen, recovGen}
        /\ UNCHANGED <<position, srcActive, flow, queue, clActive>>
    BY <1>6 DEF Wake, Again, Delayed, BuildHighwaters, BuildOffsets, SlurpTimeout,
       Step, Go,
       brokerVars, tpVars, fetchVars
  <2>2. signalStart' => signalStart
    BY <1>6 DEF Wake, Again, Delayed, BuildHighwaters, BuildOffsets, SlurpTimeout,
       Step, Go
  <2>3. mainPc' \in Starting \cup Reading \cup Finishing =>
           mainPc \in Starting \cup Reading \cup Finishing \/ signalStart
    BY <1>6 DEF Wake, Again, Delayed, BuildHighwaters, BuildOffsets, SlurpTimeout,
       Step, Go,
       SignalEnd
  <2> QED
    BY <2>1, <2>2, <2>3, PhaseKept
<1>7. CASE SeekActives
  <2>1. rebal = "stable" /\ queue' \in {queue, <<>>}
    BY <1>0, <1>7 DEF SeekActives, ReadActives, AfterSeek, ResumeFlow
  <2>2. /\ UNCHANGED <<gen, rebal, role, activeTps, standbyTps, mainGen, recovGen>>
        /\ UNCHANGED <<srcActive, signalStart>>
        /\ mainPc = "seek"
    BY <1>7 DEF SeekActives, ReadActives, AfterSeek, Step, Go, brokerVars, tpVars
  <2>3. clActive' \subseteq clActive \cup activeTps \cup standbyTps
    BY <1>7 DEF SeekActives, ReadActives, AfterSeek, StillRead
  <2> QED
    BY <2>1, <2>2, <2>3, PhaseResume
<1>8. CASE ActivesDone
  <2>1. /\ UNCHANGED <<gen, rebal, role, activeTps, standbyTps, mainGen, recovGen>>
        /\ UNCHANGED <<srcActive, signalStart, position>>
        /\ mainPc \in Reading
    BY <1>8 DEF ActivesDone, brokerVars, tpVars
  <2>2. CASE StillRead # {}
    <3>1. rebal = "stable" /\ queue' \in {queue, <<>>}
      BY <1>0, <1>8, <2>2 DEF ActivesDone, ResumeFlow
    <3>2. clActive' \subseteq clActive \cup activeTps \cup standbyTps
      BY <1>8 DEF ActivesDone, StillRead
    <3> QED
      BY <2>1, <3>1, <3>2, PhaseResume
  <2>3. CASE StillRead = {}
    <3>1. clActive' \subseteq clActive /\ UNCHANGED <<flow, queue>>
      BY <1>8, <2>3 DEF ActivesDone
    <3> QED
      BY <2>1, <3>1, PhaseKept
  <2> QED
    BY <2>2, <2>3
<1>9. CASE SeekStandbys
  <2>1. /\ UNCHANGED <<gen, rebal, role, activeTps, standbyTps, mainGen, recovGen>>
        /\ UNCHANGED <<srcActive, signalStart, clActive, flow, queue>>
        /\ mainPc = "standbySeek" /\ mainPc' = "standbyHw"
        /\ position' = Sought(standbyTps, standbyOffsets)
    BY <1>9 DEF SeekStandbys, Step, Go, brokerVars, tpVars
  <2>2. Between' = Between /\ Assigned' = Assigned /\ \A r : With(r)' = With(r)
    BY <2>1 DEF Between, Assigned, With
  <2>3. Between => \A tp \in With("active") : position'[tp] = 0
    <3> SUFFICES ASSUME Between, NEW tp \in With("active") PROVE position'[tp] = 0
      OBVIOUS
    <3>1. tp \in Own /\ tp \in TP
      BY DEF RoleInv, Between, With, Own, Undisturbed
    <3>2. tp \notin standbyTps
      BY <3>1 DEF RoleInv
    <3> QED
      BY <2>1, <3>1, <3>2 DEF Sought, PhaseInv
  <2> QED
    BY <2>1, <2>2, <2>3 DEF PhaseInv
<1>10. CASE StartStandbys \/ ResumeStreams
  <2>1. rebal = "stable" /\ queue' \in {queue, <<>>}
    BY <1>0, <1>10 DEF StartStandbys, ReadStandbys, ResumeStreams, ResumeFlow
  <2>2. /\ UNCHANGED <<gen, rebal, role, activeTps, standbyTps, mainGen, recovGen>>
        /\ UNCHANGED <<srcActive, signalStart>>
        /\ clActive' \subseteq clActive \cup activeTps \cup standbyTps
        /\ mainPc = "standbyHw" \/ mainPc' = "wait"
    BY <1>10 DEF StartStandbys, ReadStandbys, ResumeStreams, Step, Go, brokerVars,
       tpVars
  <2> QED
    BY <2>1, <2>2, PhaseResume
<1>11. CASE Complete
  <2>1. /\ UNCHANGED <<gen, rebal, role, activeTps, standbyTps, mainGen, recovGen>>
        /\ UNCHANGED <<position, signalStart, clActive, flow, queue>>
        /\ ~signalStart /\ mainPc' \in {"wait", "seekStreams"}
    BY <1>11 DEF Complete, Step, Go, brokerVars, tpVars
  <2>2. Between' = Between /\ Assigned' = Assigned /\ \A r : With(r)' = With(r)
    BY <2>1 DEF Between, Assigned, With
  <2>3. \/ UNCHANGED srcActive
        \/ gen = mainGen /\ srcActive' = srcActive \cup With("active")
    BY <1>11 DEF Complete
  <2>4. rebal = "paused" => UNCHANGED srcActive
    BY <2>3 DEF PhaseInv, Between
  <2>5. ~Between => srcActive' \subseteq With("active")
    BY <2>3 DEF PhaseInv
  <2> QED
    BY <2>1, <2>2, <2>4, <2>5 DEF PhaseInv
<1>12. CASE Quiet /\ Fetch
  <2>1. PICK tp \in clActive :
           queue' = Append(queue, [tp |-> tp, offset |-> position[tp]])
    BY <1>12 DEF Fetch
  <2>2. rebal = "stable"
    BY <1>12, StableOnly
  <2>3. /\ UNCHANGED <<gen, rebal, role, activeTps, standbyTps, mainGen, recovGen>>
        /\ UNCHANGED <<signalStart, mainPc, clActive, srcActive, flow>>
    BY <1>12 DEF Fetch, brokerVars, tpVars, mainVars
  <2>4. Assigned' = Assigned /\ (\A r : With(r)' = With(r)) /\ ~Between /\ ~Between'
    BY <2>2, <2>3 DEF Between, Assigned, With
  <2>5. tp \in activeTps \cup standbyTps
    BY <2>4, AssignedTps DEF PhaseInv
  <2>6. /\ Len(queue') = Len(queue) + 1
        /\ \A i \in 1..Len(queue) : queue'[i] = queue[i]
        /\ queue'[Len(queue) + 1] = [tp |-> tp, offset |-> position[tp]]
    BY <2>1
  <2>7. \A i \in 1..Len(queue') : queue'[i].tp \in activeTps \cup standbyTps
    BY <2>5, <2>6 DEF PhaseInv
  <2> QED
    BY <2>2, <2>3, <2>4, <2>7 DEF PhaseInv
<1>13. CASE Slurp
  <2>1. /\ queue # <<>> /\ queue' = Tail(queue)
        /\ UNCHANGED <<gen, rebal, role, activeTps, standbyTps, mainGen, recovGen>>
        /\ UNCHANGED <<signalStart, position, clActive, srcActive, flow>>
    BY <1>13, SlurpFacts DEF brokerVars, fetchVars, tpVars
  <2>2. UNCHANGED mainPc \/ (mainPc = "recovering" /\ mainPc' = "recovered")
    BY <1>13, SlurpFacts
  <2>3. Assigned' = Assigned /\ (\A r : With(r)' = With(r)) /\ Between' = Between
    BY <2>1 DEF Between, Assigned, With
  <2>4. \A i \in 1..Len(queue') : queue'[i].tp \in activeTps \cup standbyTps
    BY <2>1, TailFacts DEF PhaseInv
  <2>5. rebal = "stable"
    BY <2>1 DEF PhaseInv
  <2> QED
    BY <2>1, <2>2, <2>3, <2>4, <2>5 DEF PhaseInv
<1>14. CASE OtherWrites \/ (Quiet /\ Process)
  <2>1. /\ UNCHANGED <<gen, rebal, role, activeTps, standbyTps, mainGen, recovGen>>
        /\ UNCHANGED <<position, signalStart, mainPc, clActive, srcActive, flow, queue>>
    BY <1>14 DEF OtherWrites, Process, fetchVars, tpVars, mainVars
  <2> QED
    BY <2>1, PhaseKept
<1>15. CASE Die
  <2>1. /\ rebal' = "revoked" /\ ~flow' /\ queue' = <<>> /\ clActive' = {} /\ srcActive' = {}
        /\ mainGen' = 0 /\ recovGen' = 0 /\ UNCHANGED gen
    BY <1>15 DEF Die
  <2>2. ~Between'
    BY <2>1 DEF Between
  <2> QED
    BY <2>1, <2>2 DEF PhaseInv
<1>16. ~SlurpFails
  BY NeverFails
<1> QED
  BY <1>1, <1>2, <1>3, <1>4, <1>5, <1>6, <1>7, <1>8, <1>9, <1>10, <1>11, <1>12, <1>13,
     <1>14, <1>15, <1>16, NextCases

-----------------------------------------------------------------------------
(* Reading without a hole.                                                 *)

(* A record more in the queue.                                             *)
LEMMA QueuedAppend ==
    ASSUME NEW q \in Seq(Record), NEW r \in Record, NEW tp \in TP
    PROVE  /\ Len(Append(q, r)) = Len(q) + 1
           /\ \A i \in 1..Len(q) : Append(q, r)[i] = q[i]
           /\ Append(q, r)[Len(q) + 1] = r
           /\ \A n \in 0..Len(q) : Queued(Append(q, r), tp, n) = Queued(q, tp, n)
           /\ Queued(Append(q, r), tp, Len(q) + 1) =
                Queued(q, tp, Len(q)) \cup (IF r.tp = tp THEN {r.offset} ELSE {})
<1> DEFINE p == Append(q, r)
<1>1. /\ Len(p) = Len(q) + 1 /\ Len(q) \in Nat
      /\ \A i \in 1..Len(q) : p[i] = q[i]
      /\ p[Len(q) + 1] = r
  OBVIOUS
<1> HIDE DEF p
<1>2. ASSUME NEW n \in 0..Len(q)
      PROVE  Queued(p, tp, n) = Queued(q, tp, n)
  <2>1. \A j \in 1..n : p[j] = q[j]
    BY <1>1
  <2> QED
    BY <2>1 DEF Queued
<1>3. 1..(Len(q) + 1) = 1..Len(q) \cup {Len(q) + 1}
  BY <1>1
<1>4. \A x : x \in Queued(p, tp, Len(q) + 1) <=>
               x \in Queued(q, tp, Len(q)) \/ (r.tp = tp /\ x = r.offset)
  BY <1>1, <1>3 DEF Queued
<1>5. Queued(p, tp, Len(q) + 1) =
        Queued(q, tp, Len(q)) \cup (IF r.tp = tp THEN {r.offset} ELSE {})
  BY <1>4
<1> QED
  BY <1>1, <1>2, <1>5 DEF p

(* The queue without its first record.                                     *)
LEMMA QueuedTail ==
    ASSUME NEW q \in Seq(Record), q # <<>>, NEW tp, NEW n \in 0..(Len(q) - 1)
    PROVE  Queued(q, tp, n + 1) \subseteq Queued(Tail(q), tp, n) \cup
             (IF Head(q).tp = tp THEN {Head(q).offset} ELSE {})
<1>1. /\ Len(q) \in Nat \ {0} /\ Len(Tail(q)) = Len(q) - 1
      /\ Head(q) = q[1]
      /\ \A i \in 1..Len(Tail(q)) : Tail(q)[i] = q[i + 1]
  BY TailFacts
<1> SUFFICES ASSUME NEW j \in 1..(n + 1), q[j].tp = tp, j # 1
             PROVE  q[j].offset \in Queued(Tail(q), tp, n)
  BY <1>1 DEF Queued
<1>2. j - 1 \in 1..n /\ j - 1 \in 1..Len(Tail(q)) /\ (j - 1) + 1 = j
  BY <1>1
<1>3. Tail(q)[j - 1] = q[j]
  BY <1>1, <1>2
<1> QED
  BY <1>2, <1>3 DEF Queued

(* CoverInv holds at the start.                                            *)
LEMMA CoverInit == Init => CoverInv
<1> SUFFICES ASSUME Init PROVE CoverInv
  OBVIOUS
<1>1. buffer = <<>> /\ queue = <<>> /\ clActive = {}
  BY DEF Init
<1>2. \A tp \in TP : 0..persisted[tp] = {} /\ 0..activeOffsets[tp] = {}
  BY DEF Init, NoEntries, None, Absent
<1> QED
  BY <1>1, <1>2, OffsetsInEmpty DEF CoverInv, Own

(* A step that loses nothing, and leaves the queue alone or empties it.    *)
LEMMA CoverKept ==
    ASSUME TypeOK, CoverInv, queue' \in {queue, <<>>},
           \A tp \in Own :
             /\ Taken(tp) \subseteq Taken(tp)'
             /\ 0..persisted'[tp] \subseteq store'[tp]
             /\ \A x \in OffsetsIn(buffer', tp) : 0..x \subseteq Taken(tp)'
             /\ 0..activeOffsets'[tp] \subseteq Taken(tp)'
             /\ (rebal' = "stable" /\ tp \in clActive') =>
                  \/ 0..position'[tp] - 1 \subseteq Taken(tp)'
                  \/ /\ rebal = "stable" /\ tp \in clActive
                     /\ UNCHANGED <<position, queue>>
    PROVE  CoverInv'
<1>2. \A tp \in Own : (rebal' = "stable" /\ tp \in clActive') =>
         0..position'[tp] - 1 \subseteq Taken(tp)' \cup Queued(queue', tp, Len(queue'))
  BY DEF CoverInv
<1>3. \A tp \in Own : \A i \in 1..Len(queue') : queue'[i].tp = tp =>
         0..queue'[i].offset \subseteq Taken(tp)' \cup Queued(queue', tp, i)
  BY DEF CoverInv
<1>4. Own' = Own
  BY DEF Own
<1> QED
  BY <1>2, <1>3, <1>4 DEF CoverInv

(* What is flushed is still taken.                                         *)
LEMMA FlushTaken ==
    ASSUME TypeOK, CoverInv, Flush(buffer), NEW tp \in Own
    PROVE  /\ Taken(tp)' = Taken(tp) /\ store'[tp] = Taken(tp)
           /\ OffsetsIn(buffer', tp) = {}
           /\ 0..persisted'[tp] \subseteq store'[tp]
<1>1. /\ store \in [TP -> SUBSET Offsets] /\ persisted \in [TP -> {None} \cup Offsets]
      /\ buffer \in Seq(Record) /\ tp \in TP
  BY DEF TypeOK, Own
<1>2. /\ buffer' = <<>> /\ store'[tp] = store[tp] \cup OffsetsIn(buffer, tp)
      /\ persisted'[tp] = persisted[tp] \/ persisted'[tp] \in OffsetsIn(buffer, tp)
  BY <1>1, FlushFacts
<1>3. OffsetsIn(buffer', tp) = {}
  BY <1>2, OffsetsInEmpty
<1>4. Taken(tp)' = store'[tp]
  BY <1>3 DEF Taken
<1> QED
  BY <1>2, <1>3, <1>4 DEF Taken, CoverInv

(* What a record adds, whether or not the buffer is applied.               *)
LEMMA SlurpTaken ==
    ASSUME TypeOK, RoleInv, PhaseInv, CoverInv, Slurp,
           NEW r, r = Head(queue), NEW tp \in Own
    PROVE  /\ tp \in TP
           /\ Taken(tp)' = Taken(tp) \cup (IF r.tp = tp THEN {r.offset} ELSE {})
           /\ OffsetsIn(buffer', tp) \subseteq
                OffsetsIn(buffer, tp) \cup (IF r.tp = tp THEN {r.offset} ELSE {})
           /\ 0..persisted'[tp] \subseteq store'[tp]
           /\ activeOffsets'[tp] \in {activeOffsets[tp]} \cup
                (IF r.tp = tp THEN {r.offset} ELSE {})
           /\ r.tp = tp => 0..r.offset \subseteq Taken(tp) \cup {r.offset}
<1>0. /\ store \in [TP -> SUBSET Offsets] /\ persisted \in [TP -> {None} \cup Offsets]
      /\ activeOffsets \in [TP -> Entry]
      /\ buffer \in Seq(Record) /\ queue \in Seq(Record) /\ tp \in TP
  BY DEF TypeOK, Own
<1>1. r \in Record /\ queue # <<>> /\ activeOffsets' = Seen(r, "active", activeOffsets)
  BY SlurpFacts
<1>2. 1 \in 1..Len(queue) /\ r = queue[1]
  BY <1>0, <1>1, TailFacts
<1>3. r.tp = tp => 0..r.offset \subseteq Taken(tp) \cup {r.offset}
  <2> SUFFICES ASSUME r.tp = tp PROVE 0..r.offset \subseteq Taken(tp) \cup {r.offset}
    OBVIOUS
  <2>1. 0..queue[1].offset \subseteq Taken(tp) \cup Queued(queue, tp, 1)
    BY <1>2 DEF CoverInv
  <2>2. Queued(queue, tp, 1) \subseteq {r.offset}
    BY <1>2 DEF Queued
  <2> QED
    BY <1>2, <2>1, <2>2
<1>4. ~Fresh(r) /\ r.tp = tp => r.offset \in Taken(tp)
  <2> SUFFICES ASSUME ~Fresh(r), r.tp = tp PROVE r.offset \in Taken(tp)
    OBVIOUS
  <2>1. tp \in activeTps
    BY <1>2 DEF PhaseInv, RoleInv
  <2>2. ~ (activeOffsets[tp] \in {Absent, None} \/ r.offset > activeOffsets[tp])
    BY <2>1 DEF Fresh, Counter
  <2>3. activeOffsets[tp] \in Int /\ r.offset \in Nat
    BY <1>0, <1>1, NumberTypes, RecordParts
  <2>4. r.offset \in 0..activeOffsets[tp]
    BY <2>2, <2>3
  <2> QED
    BY <2>4 DEF CoverInv
<1>5. PICK rest \in Seq(Record) :
         /\ rest = IF Fresh(r) THEN Append(buffer, r) ELSE buffer
         /\ Flush(rest) \/ (buffer' = rest /\ UNCHANGED <<store, persisted>>)
  BY SlurpFacts
<1>6. OffsetsIn(Append(buffer, r), tp) =
        OffsetsIn(buffer, tp) \cup (IF r.tp = tp THEN {r.offset} ELSE {})
  BY <1>0, <1>1, OffsetsInAppend
<1>7. /\ OffsetsIn(buffer, tp) \subseteq OffsetsIn(rest, tp)
      /\ OffsetsIn(rest, tp) \subseteq
           OffsetsIn(buffer, tp) \cup (IF r.tp = tp THEN {r.offset} ELSE {})
      /\ store[tp] \cup OffsetsIn(rest, tp) =
           Taken(tp) \cup (IF r.tp = tp THEN {r.offset} ELSE {})
  BY <1>4, <1>5, <1>6 DEF Taken
<1>8. CASE Flush(rest)
  <2>1. /\ buffer' = <<>> /\ store'[tp] = store[tp] \cup OffsetsIn(rest, tp)
        /\ persisted'[tp] = persisted[tp] \/ persisted'[tp] \in OffsetsIn(rest, tp)
    BY <1>0, <1>8, FlushFacts
  <2>2. OffsetsIn(buffer', tp) = {}
    BY <2>1, OffsetsInEmpty
  <2>3. \A x \in OffsetsIn(rest, tp) : 0..x \subseteq store'[tp]
    BY <1>3, <1>7, <2>1 DEF CoverInv
  <2>4. 0..persisted[tp] \subseteq store'[tp]
    BY <2>1 DEF CoverInv
  <2>5. Taken(tp)' = store'[tp]
    BY <2>2 DEF Taken
  <2>6. 0..persisted'[tp] \subseteq store'[tp]
    BY <2>1, <2>3, <2>4
  <2> QED
    BY <1>0, <1>1, <1>3, <1>7, <2>1, <2>2, <2>5, <2>6, SeenFacts
<1>9. CASE buffer' = rest /\ UNCHANGED <<store, persisted>>
  <2>1. Taken(tp)' = store[tp] \cup OffsetsIn(rest, tp)
    BY <1>9 DEF Taken
  <2>2. 0..persisted'[tp] \subseteq store'[tp]
    BY <1>9 DEF CoverInv
  <2> QED
    BY <1>0, <1>1, <1>3, <1>7, <1>9, <2>1, <2>2, SeenFacts
<1> QED
  BY <1>5, <1>8, <1>9

(* Fetching the next record of a partition leaves no hole.                 *)
LEMMA CoverFetch ==
    ASSUME TypeOK, RoleInv, PhaseInv, CoverInv, Quiet /\ Fetch
    PROVE  CoverInv'
<1> USE NumberTypes
<1>0. position \in [TP -> 0..MaxEnd] /\ clActive \subseteq TP /\ logEnd \in [TP -> 0..MaxEnd]
  BY DEF TypeOK
<1>1. PICK t \in clActive :
        /\ position[t] < logEnd[t]
        /\ queue' = Append(queue, [tp |-> t, offset |-> position[t]])
        /\ position' = [position EXCEPT ![t] = @ + 1]
  BY DEF Fetch
<1>2. /\ UNCHANGED <<rebal, clActive, activeOffsets, buffer, store, persisted>>
      /\ rebal = "stable"
  BY StableOnly DEF Fetch, brokerVars, offsetVars, slurpVars
<1>3. t \in TP /\ position[t] \in Nat /\ position[t] \in Offsets
  BY <1>0, <1>1, RecoveryAssumption DEF Offsets
<1> DEFINE r == [tp |-> t, offset |-> position[t]]
<1>4. r \in Record /\ r.tp = t /\ r.offset = position[t]
  BY <1>3 DEF Record
<1>5. queue' = Append(queue, r)
  BY <1>1
<1> HIDE DEF r
<1> SUFFICES ASSUME NEW tp \in Own
             PROVE  /\ tp \in clActive =>
                         0..position'[tp] - 1 \subseteq
                            Taken(tp) \cup Queued(queue', tp, Len(queue'))
                    /\ \A i \in 1..Len(queue') : queue'[i].tp = tp =>
                         0..queue'[i].offset \subseteq Taken(tp) \cup Queued(queue', tp, i)
  <2>1. Own' = Own /\ \A tp \in Own : Taken(tp)' = Taken(tp)
    BY <1>2 DEF Own, Taken
  <2> QED
    BY <1>2, <2>1 DEF CoverInv
<1>6. /\ Len(queue') = Len(queue) + 1
      /\ \A i \in 1..Len(queue) : queue'[i] = queue[i]
      /\ queue'[Len(queue) + 1] = r
      /\ \A n \in 0..Len(queue) : Queued(queue', tp, n) = Queued(queue, tp, n)
      /\ Queued(queue', tp, Len(queue) + 1) =
            Queued(queue, tp, Len(queue)) \cup (IF r.tp = tp THEN {r.offset} ELSE {})
  <2>1. queue \in Seq(Record) /\ tp \in TP
    BY DEF Own
  <2> QED
    BY <1>4, <1>5, <2>1, QueuedAppend
<1>7. tp \in TP /\ position[tp] \in Nat
  BY <1>0 DEF Own
<1>8. tp = t => 0..position[tp] \subseteq
                   Taken(tp) \cup Queued(queue', tp, Len(queue) + 1)
  <2> SUFFICES ASSUME tp = t, NEW x \in 0..position[tp], x # position[tp]
               PROVE  x \in Taken(tp) \cup Queued(queue', tp, Len(queue) + 1)
    BY <1>4, <1>6
  <2>1. x \in 0..position[tp] - 1
    BY <1>7
  <2>2. x \in Taken(tp) \cup Queued(queue, tp, Len(queue))
    BY <1>1, <1>2, <2>1 DEF CoverInv
  <2> QED
    BY <1>6, <2>2
<1>9. tp \in clActive => 0..position'[tp] - 1 \subseteq
                            Taken(tp) \cup Queued(queue', tp, Len(queue'))
  <2>1. CASE tp = t
    <3>1. position'[tp] - 1 = position[tp]
      BY <1>0, <1>1, <1>7, <2>1
    <3> QED
      BY <1>6, <1>8, <2>1, <3>1
  <2>2. CASE tp # t
    <3>1. position'[tp] = position[tp]
      BY <1>0, <1>1, <1>7, <2>2
    <3> QED
      BY <1>2, <1>6, <3>1 DEF CoverInv
  <2> QED
    BY <2>1, <2>2
<1>10. ASSUME NEW i \in 1..Len(queue'), queue'[i].tp = tp
       PROVE  0..queue'[i].offset \subseteq Taken(tp) \cup Queued(queue', tp, i)
  <2>1. CASE i = Len(queue) + 1
    BY <1>4, <1>6, <1>8, <1>10, <2>1
  <2>2. CASE i # Len(queue) + 1
    <3>1. i \in 1..Len(queue) /\ i \in 0..Len(queue)
      BY <1>6, <2>2
    <3> QED
      BY <1>6, <1>10, <3>1 DEF CoverInv
  <2> QED
    BY <2>1, <2>2
<1> QED
  BY <1>9, <1>10

(* Taking a record from the queue leaves no hole.                          *)
LEMMA CoverSlurp ==
    ASSUME TypeOK, RoleInv, PhaseInv, CoverInv, Slurp
    PROVE  CoverInv'
<1> USE NumberTypes
<1> DEFINE r == Head(queue)
<1>1. /\ queue # <<>> /\ queue' = Tail(queue) /\ UNCHANGED <<rebal, clActive, position>>
  BY SlurpFacts DEF brokerVars, fetchVars
<1>2. /\ Len(queue) \in Nat \ {0} /\ Len(queue') = Len(queue) - 1
      /\ \A i \in 1..Len(queue') : i + 1 \in 1..Len(queue) /\ queue'[i] = queue[i + 1]
  BY <1>1, TailFacts
<1>3. Own' = Own
  BY DEF Own
<1> SUFFICES ASSUME NEW tp \in Own
             PROVE  /\ 0..persisted'[tp] \subseteq store'[tp]
                    /\ \A x \in OffsetsIn(buffer', tp) : 0..x \subseteq Taken(tp)'
                    /\ 0..activeOffsets'[tp] \subseteq Taken(tp)'
                    /\ (rebal = "stable" /\ tp \in clActive) =>
                         0..position[tp] - 1 \subseteq
                            Taken(tp)' \cup Queued(queue', tp, Len(queue'))
                    /\ \A i \in 1..Len(queue') : queue'[i].tp = tp =>
                         0..queue'[i].offset \subseteq Taken(tp)' \cup Queued(queue', tp, i)
  BY <1>1, <1>3 DEF CoverInv
<1> DEFINE own == IF r.tp = tp THEN {r.offset} ELSE {}
<1>4. /\ Taken(tp)' = Taken(tp) \cup own
      /\ OffsetsIn(buffer', tp) \subseteq OffsetsIn(buffer, tp) \cup own
      /\ 0..persisted'[tp] \subseteq store'[tp]
      /\ activeOffsets'[tp] \in {activeOffsets[tp]} \cup own
      /\ r.tp = tp => 0..r.offset \subseteq Taken(tp) \cup {r.offset}
  BY SlurpTaken
<1>5. \A n \in 0..(Len(queue) - 1) :
         Queued(queue, tp, n + 1) \subseteq Queued(queue', tp, n) \cup own
  BY <1>1, QueuedTail
<1>6. r.tp = tp => 0..r.offset \subseteq Taken(tp)'
  BY <1>4
<1> HIDE DEF r
<1>7. \A x \in OffsetsIn(buffer', tp) : 0..x \subseteq Taken(tp)'
  BY <1>4, <1>6 DEF CoverInv
<1>8. 0..activeOffsets'[tp] \subseteq Taken(tp)'
  BY <1>4, <1>6 DEF CoverInv
<1>9. (rebal = "stable" /\ tp \in clActive) =>
         0..position[tp] - 1 \subseteq Taken(tp)' \cup Queued(queue', tp, Len(queue'))
  <2>1. Len(queue') \in 0..(Len(queue) - 1) /\ Len(queue') + 1 = Len(queue)
    BY <1>2
  <2>2. Queued(queue, tp, Len(queue)) \subseteq Queued(queue', tp, Len(queue')) \cup own
    BY <1>5, <2>1
  <2> QED
    BY <1>4, <2>2 DEF CoverInv
<1>10. ASSUME NEW i \in 1..Len(queue'), queue'[i].tp = tp
       PROVE  0..queue'[i].offset \subseteq Taken(tp)' \cup Queued(queue', tp, i)
  <2>1. i \in 0..(Len(queue) - 1) /\ i + 1 \in 1..Len(queue) /\ queue'[i] = queue[i + 1]
    BY <1>2
  <2>2. 0..queue'[i].offset \subseteq Taken(tp) \cup Queued(queue, tp, i + 1)
    BY <1>10, <2>1 DEF CoverInv
  <2> QED
    BY <1>4, <1>5, <2>1, <2>2
<1> QED
  BY <1>4, <1>7, <1>8, <1>9, <1>10

(* Steps of recovery that move the position of a partition, let it be read *)
(* or empty the queue.                                                     *)
LEMMA CoverResume ==
    ASSUME TypeOK, KnownInv, BoundInv, RoleInv, PhaseInv, CoverInv, BufferInv, RoundInv,
           ~LateResume, SeekActives \/ ActivesDone \/ StartStandbys \/ ResumeStreams
    PROVE  CoverInv'
<1> USE NumberTypes
<1>1. /\ queue' \in {queue, <<>>}
      /\ UNCHANGED <<rebal, activeTps, standbyTps, buffer, store, persisted, activeOffsets>>
      /\ (ActivesDone /\ StillRead = {}) \/ rebal = "stable"
  <2>1. CASE SeekActives
    BY <2>1 DEF SeekActives, ReadActives, ResumeFlow, Step, Go, brokerVars, tpVars,
       offsetVars
  <2>2. CASE ActivesDone
    BY <2>2 DEF ActivesDone, ResumeFlow, brokerVars, tpVars, offsetVars, slurpVars
  <2>3. CASE StartStandbys
    BY <2>3 DEF StartStandbys, ReadStandbys, ResumeFlow, Step, Go, brokerVars, tpVars,
       offsetVars
  <2>4. CASE ResumeStreams
    BY <2>4 DEF ResumeStreams, ResumeFlow, Step, Go, brokerVars, tpVars, offsetVars
  <2> QED
    BY <2>1, <2>2, <2>3, <2>4
<1>2. \A tp \in Own : Taken(tp)' = Taken(tp)
  BY <1>1 DEF Taken
<1> SUFFICES ASSUME NEW tp \in Own, rebal = "stable", tp \in clActive'
             PROVE  0..position'[tp] - 1 \subseteq Taken(tp)
  BY <1>1, <1>2, CoverKept DEF CoverInv
<1>3. ~Between /\ tp \in TP
  BY DEF Between, Own
<1>4. tp \notin standbyTps /\ (tp \in clActive => tp \in activeTps)
  BY <1>3, AssignedTps DEF PhaseInv, RoleInv
<1>5. tp \in activeTps
  BY <1>4 DEF SeekActives, ReadActives, AfterSeek, ActivesDone, StartStandbys,
     ReadStandbys, ResumeStreams, StillRead
<1>6. ASSUME 0..logEnd[tp] - 1 \subseteq store[tp], UNCHANGED position
      PROVE  0..position'[tp] - 1 \subseteq Taken(tp)
  BY <1>3, <1>6 DEF BoundInv, Taken
<1>7. CASE SeekActives
  <2>1. activeOffsets[tp] \notin {Absent, None}
    BY <1>5, <1>7 DEF SeekActives, ReadActives, AfterSeek, Step, Go, KnownInv
  <2>2. position'[tp] = IF activeOffsets[tp] = -1 THEN 0 ELSE activeOffsets[tp]
    BY <1>3, <1>5, <1>7, <2>1 DEF SeekActives, ReadActives, AfterSeek, Sought, Value
  <2>3. activeOffsets[tp] \in {-1} \cup Offsets
    BY <1>3, <2>1 DEF TypeOK, Entry
  <2>4. 0..position'[tp] - 1 \subseteq 0..activeOffsets[tp]
    BY <2>2, <2>3, RecoveryAssumption DEF Offsets
  <2> QED
    BY <2>4 DEF CoverInv
<1>8. CASE ActivesDone
  <2>1. CASE signalStart
    <3>1. position[tp] = 0 /\ UNCHANGED position
      BY <1>5, <1>8, <2>1 DEF ActivesDone, BufferInv, OvertakenInv, Reading
    <3> QED
      BY <3>1
  <2>2. CASE ~signalStart
    <3>1. Round /\ mainPc = "recovered" /\ UNCHANGED position
      BY <1>3, <1>8, <2>2 DEF ActivesDone, Round
    <3> QED
      BY <1>5, <1>6, <3>1 DEF RoundInv
  <2> QED
    BY <2>1, <2>2
<1>9. CASE StartStandbys \/ ResumeStreams
  <2>1. Round /\ mainPc \in {"standbyHw", "seekStreams"} /\ UNCHANGED position
    BY <1>3, <1>9 DEF StartStandbys, ReadStandbys, ResumeStreams, Step, Go, Round
  <2> QED
    BY <1>5, <1>6, <2>1 DEF RoundInv, Finishing
<1> QED
  BY <1>7, <1>8, <1>9

(* Every step keeps CoverInv.                                              *)
LEMMA CoverNext ==
    ASSUME Undisturbed, TypeOK, KnownInv, BoundInv, RoleInv, PhaseInv, CoverInv,
           BufferInv, RoundInv, [Answered]_vars
    PROVE  CoverInv'
<1> USE NumberTypes
<1>0. ~LateResume /\ Own \subseteq TP /\ Own' = Own
  BY DEF Undisturbed, Own
<1>1. CASE UNCHANGED <<rebal, position, clActive, queue, activeOffsets, buffer, store,
                       persisted>>
  BY <1>0, <1>1 DEF CoverInv, Taken
<1>2. CASE Revoke \/ Delayed \/ SlurpTimeout
  <2>1. /\ Flush(buffer) /\ UNCHANGED <<activeOffsets, position>>
        /\ queue' \in {queue, <<>>}
        /\ rebal' = "stable" => UNCHANGED <<rebal, clActive, queue>>
    BY <1>2 DEF Revoke, Delayed, SlurpTimeout, Step, Go, brokerVars, fetchVars,
       offsetVars
  <2>2. \A tp \in Own : /\ Taken(tp)' = Taken(tp)
                        /\ OffsetsIn(buffer', tp) = {}
                        /\ 0..persisted'[tp] \subseteq store'[tp]
    BY <2>1, FlushTaken
  <2> QED
    BY <2>1, <2>2, CoverKept DEF CoverInv
<1>3. CASE Assign \/ PauseAssigned
  <2>1. /\ UNCHANGED <<queue, activeOffsets, buffer, store, persisted>>
        /\ rebal' # "stable"
    BY <1>3 DEF Assign, PauseAssigned, offsetVars, slurpVars
  <2>2. \A tp \in Own : Taken(tp)' = Taken(tp)
    BY <2>1 DEF Taken
  <2> QED
    BY <2>1, <2>2, CoverKept DEF CoverInv
<1>4. CASE OnRebalance
  <2>1. /\ UNCHANGED <<queue, clActive, buffer, store, persisted>> /\ rebal = "paused"
    BY <1>4 DEF OnRebalance, fetchVars, slurpVars
  <2>2. clActive' = {}
    BY <2>1 DEF PhaseInv
  <2>3. /\ activeOffsets \in [TP -> Entry] /\ persisted \in [TP -> {None} \cup Offsets]
    BY DEF TypeOK
  <2>4. \A tp \in TP : activeOffsets'[tp] \in {persisted[tp], None, activeOffsets[tp], Absent}
    BY <1>4, <2>3, AddedFacts DEF OnRebalance
  <2>5. 0..None = {} /\ 0..Absent = {}
    BY DEF None, Absent
  <2>6. \A tp \in Own : 0..activeOffsets'[tp] \subseteq Taken(tp)
    BY <1>0, <2>4, <2>5 DEF CoverInv, Taken
  <2>7. \A tp \in Own : Taken(tp)' = Taken(tp)
    BY <2>1 DEF Taken
  <2> QED
    BY <2>1, <2>2, <2>6, <2>7, CoverKept DEF CoverInv
<1>5. CASE BuildOffsets
  <2>1. /\ UNCHANGED <<queue, rebal, clActive, position, buffer, store, persisted>>
    BY <1>5 DEF BuildOffsets, fetchVars, Step, Go, brokerVars
  <2>2. activeOffsets \in [TP -> Entry]
    BY DEF TypeOK
  <2>3. \A tp \in TP : activeOffsets'[tp] \in {activeOffsets[tp], -1}
    BY <1>5, <2>2, BuiltFacts DEF BuildOffsets, KnownInv
  <2>4. \A tp \in Own : 0..activeOffsets'[tp] \subseteq Taken(tp)
    <3>1. 0..-1 = {}
      OBVIOUS
    <3> QED
      BY <1>0, <2>3, <3>1 DEF CoverInv
  <2>5. \A tp \in Own : Taken(tp)' = Taken(tp)
    BY <2>1 DEF Taken
  <2> QED
    BY <2>1, <2>4, <2>5, CoverKept DEF CoverInv
<1>6. CASE SeekActives \/ ActivesDone \/ StartStandbys \/ ResumeStreams
  BY <1>0, <1>6, CoverResume
<1>7. CASE SeekStandbys
  <2>1. /\ UNCHANGED <<queue, rebal, clActive, activeOffsets, buffer, store, persisted>>
        /\ position' = Sought(standbyTps, standbyOffsets)
    BY <1>7 DEF SeekStandbys, Step, Go, brokerVars, offsetVars
  <2>2. \A tp \in Own : position'[tp] = position[tp]
    BY <1>0, <2>1 DEF Sought, RoleInv
  <2> QED
    BY <1>0, <2>1, <2>2 DEF CoverInv, Taken
<1>8. CASE Quiet /\ Fetch
  BY <1>8, CoverFetch
<1>9. CASE Slurp
  BY <1>9, CoverSlurp
<1>10. CASE Quiet /\ Process
  <2>1. PICK t \in srcActive :
           /\ store' = [store EXCEPT ![t] = @ \cup {logEnd[t]}]
           /\ persisted' = [persisted EXCEPT ![t] = logEnd[t]]
    BY <1>10 DEF Process
  <2>2. /\ UNCHANGED <<queue, rebal, clActive, position, activeOffsets, buffer>>
        /\ rebal = "stable"
    BY <1>10, StableOnly DEF Process, fetchVars, offsetVars
  <2>3. t \in TP /\ 0..logEnd[t] - 1 \subseteq store[t]
    BY <2>2 DEF TypeOK, RoundInv, Between
  <2>4. store \in [TP -> SUBSET Offsets] /\ persisted \in [TP -> {None} \cup Offsets]
    BY DEF TypeOK
  <2>5. \A tp \in TP : store[tp] \subseteq store'[tp]
    BY <2>1, <2>4
  <2>6. 0..logEnd[t] \subseteq store'[t]
    <3>1. logEnd[t] \in Nat
      BY <2>3
    <3>2. store'[t] = store[t] \cup {logEnd[t]}
      BY <2>1, <2>3, <2>4
    <3>3. 0..logEnd[t] \subseteq 0..(logEnd[t] - 1) \cup {logEnd[t]}
      BY <3>1
    <3> QED
      BY <2>3, <3>2, <3>3
  <2>7. \A tp \in Own : 0..persisted'[tp] \subseteq store'[tp]
    BY <1>0, <2>1, <2>4, <2>5, <2>6 DEF CoverInv
  <2>8. \A tp \in Own : Taken(tp) \subseteq Taken(tp)'
    BY <1>0, <2>2, <2>5 DEF Taken
  <2> QED
    BY <2>2, <2>7, <2>8, CoverKept DEF CoverInv
<1>11. CASE Die
  <2>1. /\ queue' = <<>> /\ buffer' = <<>> /\ clActive' = {} /\ activeOffsets' = NoEntries
        /\ UNCHANGED <<store, persisted>>
    BY <1>11 DEF Die
  <2>2. \A tp \in Own : 0..activeOffsets'[tp] = {}
    BY <1>0, <2>1 DEF NoEntries, Absent
  <2> QED
    BY <1>0, <2>1, <2>2, OffsetsInEmpty DEF CoverInv, Taken
<1>12. ~SlurpFails
  BY NeverFails
<1>13. \/ UNCHANGED <<rebal, position, clActive, queue, activeOffsets, buffer, store,
                       persisted>>
       \/ Revoke \/ Delayed \/ SlurpTimeout \/ Assign \/ PauseAssigned \/ OnRebalance
       \/ BuildOffsets \/ SeekActives \/ ActivesDone \/ StartStandbys \/ ResumeStreams
       \/ SeekStandbys \/ (Quiet /\ Fetch) \/ Slurp \/ (Quiet /\ Process) \/ Die
  BY <1>12, NextCases DEF Wake, Again, BuildHighwaters, Complete, OtherWrites, Step, Go,
     vars, brokerVars, fetchVars, offsetVars, slurpVars
<1> QED
  BY <1>1, <1>2, <1>3, <1>4, <1>5, <1>6, <1>7, <1>8, <1>9, <1>10, <1>11, <1>13
-----------------------------------------------------------------------------
(* What the buffer holds.                                                  *)

(* BufferInv holds at the start.                                           *)
LEMMA BufferInit == Init => BufferInv
<1> SUFFICES ASSUME Init PROVE BufferInv
  OBVIOUS
<1>1. /\ bufferSizes = [tp \in TP |-> 0] /\ buffer = <<>>
      /\ ~signalStart /\ mainPc = "wait"
  BY DEF Init
<1>2. SizesInv
  BY <1>1, OffsetsInEmpty DEF SizesInv, Own
<1> QED
  BY <1>1, <1>2 DEF BufferInv, IdleInv, OvertakenInv, Starting, Reading

(* Every step keeps SizesInv.                                              *)
LEMMA SizesNext ==
    ASSUME TypeOK, RoleInv, PhaseInv, SizesInv, [Answered]_vars
    PROVE  SizesInv'
<1>0. Own' = Own /\ Own \subseteq TP
  BY DEF Own
<1>1. CASE UNCHANGED bufferSizes /\ buffer' \in {buffer, <<>>}
  BY <1>0, <1>1, OffsetsInEmpty DEF SizesInv
<1>2. CASE Slurp
  <2> DEFINE r == Head(queue)
  <2>0. /\ bufferSizes \in [TP -> {0, BufferSize, StandbySize}]
        /\ store \in [TP -> SUBSET Offsets] /\ persisted \in [TP -> {None} \cup Offsets]
    BY DEF TypeOK
  <2>1. queue # <<>> /\ r \in Record /\ bufferSizes' = [bufferSizes EXCEPT ![r.tp] = Size(r.tp)]
    BY <1>2, SlurpFacts
  <2>2. PICK rest \in Seq(Record) :
          /\ rest = IF Fresh(r) THEN Append(buffer, r) ELSE buffer
          /\ \/ Flush(rest)
             \/ buffer' = rest /\ ~ (Fresh(r) /\ Len(rest) >= Size(r.tp))
    BY <1>2, SlurpFacts
  <2>3. r.tp \in activeTps \cup standbyTps
    BY <2>1, NumberTypes, TailFacts DEF PhaseInv
  <2>4. r.tp \in Own => Size(r.tp) = BufferSize
    BY <2>3 DEF SizesInv, RoleInv, Size
  <2>5. \A tp \in Own : bufferSizes'[tp] \in {0, BufferSize}
    BY <1>0, <2>0, <2>1, <2>4 DEF SizesInv
  <2>6. ASSUME BufferSize = 1, NEW tp \in Own
        PROVE  OffsetsIn(buffer', tp) = {}
    <3>1. CASE Flush(rest)
      BY <3>1, OffsetsInEmpty DEF Flush
    <3>2. CASE buffer' = rest /\ ~ (Fresh(r) /\ Len(rest) >= Size(r.tp))
      <4>1. Fresh(r) => Len(rest) >= 1
        BY <2>1, <2>2, NumberTypes
      <4>2. Fresh(r) => r.tp # tp
        BY <2>4, <2>6, <3>2, <4>1
      <4>3. OffsetsIn(Append(buffer, r), tp) =
              OffsetsIn(buffer, tp) \cup (IF r.tp = tp THEN {r.offset} ELSE {})
        BY <1>0, <2>1, NumberTypes, OffsetsInAppend
      <4>4. OffsetsIn(buffer, tp) = {}
        BY <2>6 DEF SizesInv
      <4> QED
        BY <2>2, <3>2, <4>2, <4>3, <4>4
    <3> QED
      BY <2>2, <3>1, <3>2
  <2> QED
    BY <1>0, <2>5, <2>6 DEF SizesInv
<1>3. CASE Die
  BY <1>0, <1>3, OffsetsInEmpty DEF Die, SizesInv
<1>4. ~SlurpFails
  BY NeverFails
<1>5. (UNCHANGED bufferSizes /\ buffer' \in {buffer, <<>>}) \/ Slurp \/ Die
  BY <1>4, NextCases DEF Revoke, Assign, PauseAssigned, OnRebalance, Wake, Again,
     Delayed,
     BuildHighwaters, BuildOffsets, SeekActives, ReadActives, AfterSeek, ActivesDone,
     SeekStandbys,
     StartStandbys, ReadStandbys, Complete, ResumeStreams, Fetch, SlurpTimeout,
     OtherWrites, Process,
     Flush, Step, Go, vars, slurpVars
<1> QED
  BY <1>1, <1>2, <1>3, <1>5

(* Every step keeps IdleInv.                                               *)
LEMMA IdleNext ==
    ASSUME Undisturbed, TypeOK, RoleInv, PhaseInv, IdleInv, [Answered]_vars
    PROVE  IdleInv'
<1> SUFFICES ASSUME BufferSize # 1 PROVE IdleInv'
  BY DEF IdleInv
<1> USE DEF IdleInv, Round, Starting
<1>0. ~LateResume
  BY DEF Undisturbed
<1>1. ASSUME UNCHANGED <<rebal, signalStart, clActive, queue>>, buffer' \in {buffer, <<>>},
             mainPc' \in Starting => mainPc \in Starting,
             mainPc' \in Starting \ {"delay"} =>
                mainPc \in Starting \ {"delay"} \/ buffer' = <<>>
      PROVE  IdleInv'
  BY <1>1 DEF Between
<1>2. CASE Revoke
  <2>1. /\ rebal = "stable" /\ buffer' = <<>> /\ UNCHANGED mainVars
        /\ \/ clActive' = {} /\ queue' = <<>>
           \/ UNCHANGED <<clActive, queue>>
    BY <1>2 DEF Revoke, Flush
  <2> QED
    BY <2>1 DEF Between, mainVars
<1>3. CASE Assign \/ PauseAssigned
  BY <1>3 DEF Assign, PauseAssigned, Between
<1>4. CASE OnRebalance
  <2>1. rebal = "paused" /\ UNCHANGED <<clActive, queue>> /\ signalStart'
    BY <1>4 DEF OnRebalance, fetchVars
  <2> QED
    BY <2>1 DEF PhaseInv
<1>5. CASE Wake
  <2>1. /\ signalStart /\ mainPc' = "delay"
        /\ UNCHANGED <<rebal, clActive, queue>>
    BY <1>5 DEF Wake, brokerVars, fetchVars
  <2> QED
    BY <2>1 DEF Between
<1>6. CASE \/ Again \/ Delayed \/ BuildHighwaters \/ BuildOffsets \/ SeekStandbys
           \/ Complete \/ SlurpTimeout \/ OtherWrites \/ Process \/ UNCHANGED vars
  <2>1. UNCHANGED <<rebal, signalStart, clActive, queue>> /\ buffer' \in {buffer, <<>>}
    BY <1>6 DEF Again, Delayed, BuildHighwaters, BuildOffsets, SeekStandbys, Complete,
       SlurpTimeout, OtherWrites, Process, vars, Step, Go, Flush, brokerVars, fetchVars,
       mainVars, slurpVars
  <2>2. /\ mainPc' \in Starting => mainPc \in Starting
        /\ mainPc' \in Starting \ {"delay"} =>
              mainPc \in Starting \ {"delay"} \/ buffer' = <<>>
    BY <1>6 DEF Again, Delayed, BuildHighwaters, BuildOffsets, SeekStandbys, Complete,
       SlurpTimeout, OtherWrites, Process, vars, Step, Go, Flush, mainVars, SignalEnd
  <2> QED
    BY <1>1, <2>1, <2>2
<1>7. CASE SeekActives \/ StartStandbys \/ ResumeStreams \/ Die
  <2>1. ~signalStart' /\ mainPc' \notin Starting
    BY <1>7 DEF SeekActives, ReadActives, AfterSeek, StartStandbys, ReadStandbys,
       ResumeStreams, Die, Step, Go, AfterActives
  <2> QED
    BY <2>1
<1>8. CASE ActivesDone
  <2>1. /\ mainPc' \notin Starting /\ UNCHANGED <<rebal, signalStart>>
        /\ clActive' \subseteq clActive /\ UNCHANGED queue
    BY <1>8 DEF ActivesDone, AfterActives, StillRead, brokerVars
  <2> QED
    BY <2>1 DEF Between
<1>9. CASE Quiet /\ Fetch
  <2>1. clActive # {} /\ UNCHANGED <<rebal, signalStart, mainPc, buffer>>
    BY <1>9 DEF Fetch, brokerVars, mainVars, slurpVars
  <2>2. ~Between
    BY <1>9, StableOnly DEF Between
  <2> QED
    BY <2>1, <2>2 DEF Between
<1>10. CASE Slurp
  <2>1. queue # <<>> /\ UNCHANGED <<rebal, signalStart>>
    BY <1>10, SlurpFacts DEF brokerVars
  <2>2. UNCHANGED mainPc \/ mainPc' = "recovered"
    BY <1>10, SlurpFacts
  <2>3. ~Between
    BY <2>1 DEF PhaseInv, Between
  <2> QED
    BY <2>1, <2>2, <2>3 DEF Between
<1>11. ~SlurpFails
  BY NeverFails
<1> QED
  BY <1>2, <1>3, <1>4, <1>5, <1>6, <1>7, <1>8, <1>9, <1>10, <1>11, NextCases

(* Every step keeps OvertakenInv.                                          *)
LEMMA OvertakenNext ==
    ASSUME TypeOK, RoleInv, PhaseInv, OvertakenInv, [Answered]_vars
    PROVE  OvertakenInv'
<1> USE DEF OvertakenInv, Reading
<1>1. CASE UNCHANGED <<rebal, signalStart, clActive, position, activeTps>>
           /\ (mainPc' \in Reading => mainPc \in Reading)
  BY <1>1
<1>2. CASE rebal' # "stable" \/ ~signalStart' \/ mainPc' \notin Reading
  BY <1>2
<1>3. CASE OnRebalance
  <2>1. /\ rebal = "paused" /\ UNCHANGED <<clActive, position>>
        /\ activeTps' = With("active")
    BY <1>3 DEF OnRebalance, fetchVars
  <2> QED
    BY <2>1 DEF PhaseInv, Between
<1>4. CASE Quiet /\ Fetch
  <2>1. clActive # {} /\ UNCHANGED <<rebal, signalStart, mainPc>>
    BY <1>4 DEF Fetch, brokerVars, mainVars
  <2> QED
    BY <2>1
<1>5. CASE Slurp
  <2>1. UNCHANGED <<rebal, signalStart, clActive, position, activeTps>>
    BY <1>5, SlurpFacts DEF brokerVars, fetchVars, tpVars
  <2>2. UNCHANGED mainPc \/ mainPc = "recovering"
    BY <1>5, SlurpFacts
  <2> QED
    BY <2>1, <2>2
<1>6. CASE Revoke \/ Assign \/ PauseAssigned
  BY <1>2, <1>6 DEF Revoke, Assign, PauseAssigned
<1>7. CASE \/ Wake \/ Again \/ Delayed \/ BuildHighwaters \/ BuildOffsets \/ SeekActives
           \/ ActivesDone \/ SeekStandbys \/ StartStandbys \/ Complete \/ ResumeStreams
           \/ Die
  BY <1>2, <1>7 DEF Wake, Again, Delayed, BuildHighwaters, BuildOffsets, SeekActives,
     ReadActives, AfterSeek,
     ActivesDone, SeekStandbys, StartStandbys, ReadStandbys, Complete, ResumeStreams,
     Die, Step, Go,
     AfterActives
<1>8. CASE SlurpTimeout \/ OtherWrites \/ Process \/ UNCHANGED vars
  <2>1. /\ UNCHANGED <<rebal, signalStart, clActive, position, activeTps>>
        /\ (mainPc' \in Reading => mainPc \in Reading)
    BY <1>8 DEF SlurpTimeout, OtherWrites, Process, vars, brokerVars, fetchVars, tpVars,
       mainVars, SignalEnd
  <2> QED
    BY <1>1, <2>1
<1>9. ~SlurpFails
  BY NeverFails
<1> QED
  BY <1>3, <1>4, <1>5, <1>6, <1>7, <1>8, <1>9, NextCases

(* Every step keeps BufferInv.                                             *)
LEMMA BufferNext ==
    ASSUME Undisturbed, TypeOK, RoleInv, PhaseInv, BufferInv, [Answered]_vars
    PROVE  BufferInv'
  BY SizesNext, IdleNext, OvertakenNext DEF BufferInv
-----------------------------------------------------------------------------
(* What a round of recovery has read when it ends.                         *)

(* RoundInv holds at the start.                                            *)
LEMMA RoundInit == Init => RoundInv
<1> SUFFICES ASSUME Init PROVE RoundInv
  OBVIOUS
<1>1. mainPc = "wait" /\ srcActive = {}
  BY DEF Init
<1> QED
  BY <1>1 DEF RoundInv, Reading, Finishing

(* need_recovery says no only when the offset has reached the highwater.   *)
LEMMA CaughtUp ==
    ASSUME TypeOK, NEW offsets \in [TP -> Entry], ~NeedRecovery(activeHw, offsets),
           NEW tp \in TP, activeHw[tp] = logEnd[tp] - 1,
           offsets[tp] \notin {Absent, None}
    PROVE  0..logEnd[tp] - 1 \subseteq 0..offsets[tp]
<1>1. logEnd[tp] \in Nat /\ offsets[tp] \in Int
  BY NumberTypes, EntryFacts
<1>2. activeHw[tp] # Absent
  BY <1>1 DEF Absent
<1>3. Value(offsets[tp]) = offsets[tp]
  BY DEF Value
<1>4. ~ (activeHw[tp] > offsets[tp])
  BY <1>2, <1>3 DEF NeedRecovery
<1> QED
  BY <1>1, <1>4

(* A round that ends because the offsets have reached the highwaters       *)
(* leaves every change in the store.                                       *)
LEMMA RoundReads ==
    ASSUME TypeOK, RoleInv, RoundInv, Round, mainPc \in {"seek", "recovering"},
           NEW offsets \in [TP -> Entry], ~NeedRecovery(activeHw, offsets),
           NEW tp \in activeTps, offsets[tp] \notin {Absent, None}
    PROVE  tp \in Own /\ tp \in TP /\ 0..logEnd[tp] - 1 \subseteq 0..offsets[tp]
<1>1. tp \in TP /\ tp \in Own
  BY NumberTypes DEF RoleInv
<1>2. activeHw[tp] = logEnd[tp] - 1
  BY DEF RoundInv, Reading
<1> QED
  BY <1>1, <1>2, CaughtUp

(* The changelog of a partition this worker has grows only with its store. *)
LEMMA LogKept ==
    ASSUME TypeOK, RoleInv, PhaseInv, [Answered]_vars, ~Between, NEW tp \in activeTps,
           0..logEnd[tp] - 1 \subseteq store[tp]
    PROVE  0..logEnd'[tp] - 1 \subseteq store'[tp]
<1>0. /\ store \in [TP -> SUBSET Offsets] /\ persisted \in [TP -> {None} \cup Offsets]
      /\ logEnd \in [TP -> 0..MaxEnd] /\ tp \in TP /\ buffer \in Seq(Record)
  BY DEF TypeOK
<1>1. CASE UNCHANGED <<logEnd, store>>
  BY <1>1
<1>2. CASE Revoke \/ Delayed \/ SlurpTimeout
  <2>1. Flush(buffer) /\ UNCHANGED logEnd
    BY <1>2 DEF Revoke, Delayed, SlurpTimeout, Step, Go, brokerVars
  <2> QED
    BY <1>0, <2>1, FlushFacts
<1>3. CASE Slurp
  <2>1. UNCHANGED logEnd
    BY <1>3, SlurpFacts DEF brokerVars
  <2>2. PICK rest \in Seq(Record) : Flush(rest) \/ UNCHANGED store
    BY <1>3, SlurpFacts
  <2>3. store[tp] \subseteq store'[tp]
    BY <1>0, <2>2, FlushFacts
  <2> QED
    BY <2>1, <2>3
<1>4. CASE OtherWrites
  <2>1. role[tp] = "active"
    BY AssignedTps DEF With
  <2>2. logEnd'[tp] = logEnd[tp] /\ UNCHANGED store
    BY <1>0, <1>4, <2>1 DEF OtherWrites, slurpVars
  <2> QED
    BY <2>2
<1>5. CASE Process
  <2>1. PICK t \in TP : /\ logEnd' = [logEnd EXCEPT ![t] = @ + 1]
                        /\ store' = [store EXCEPT ![t] = @ \cup {logEnd[t]}]
    BY <1>5 DEF Process, TypeOK
  <2>2. CASE t = tp
    <3>1. logEnd'[tp] = logEnd[tp] + 1 /\ store'[tp] = store[tp] \cup {logEnd[tp]}
      BY <1>0, <2>1, <2>2
    <3>2. 0..(logEnd[tp] + 1) - 1 \subseteq 0..(logEnd[tp] - 1) \cup {logEnd[tp]}
      BY NumberTypes
    <3> QED
      BY <3>1, <3>2
  <2>3. CASE t # tp
    <3>1. logEnd'[tp] = logEnd[tp] /\ store'[tp] = store[tp]
      BY <1>0, <2>1, <2>3
    <3> QED
      BY <3>1
  <2> QED
    BY <2>2, <2>3
<1>6. ~SlurpFails
  BY NeverFails
<1>7. \/ UNCHANGED <<logEnd, store>> \/ Revoke \/ Delayed \/ SlurpTimeout \/ Slurp
      \/ OtherWrites \/ Process
  BY <1>6, NextCases DEF Assign, PauseAssigned, OnRebalance, Wake, Again,
     BuildHighwaters,
     BuildOffsets, SeekActives, ReadActives, AfterSeek, ActivesDone, SeekStandbys,
     StartStandbys, ReadStandbys, Complete,
     ResumeStreams, Fetch, Die, Step, Go, vars, brokerVars, slurpVars
<1> QED
  BY <1>1, <1>2, <1>3, <1>4, <1>5, <1>7

(* A step into a round, or within one.                                     *)
LEMMA RoundStep ==
    ASSUME TypeOK, RoleInv, PhaseInv, [Answered]_vars, Round', ~Die,
           mainPc' \notin {"wait", "delay"}
    PROVE  /\ Round /\ UNCHANGED activeTps
           /\ UNCHANGED activeHw \/ BuildHighwaters
<1> USE DEF Round, Between
<1>1. ~Assign /\ ~PauseAssigned /\ ~OnRebalance /\ ~Wake
  BY DEF Assign, PauseAssigned, OnRebalance, Wake
<1>2. UNCHANGED activeTps /\ UNCHANGED signalStart
  BY <1>1, NextCases DEF Revoke, Again, Delayed, BuildHighwaters, BuildOffsets,
     SeekActives, ReadActives, AfterSeek,
     ActivesDone, SeekStandbys, StartStandbys, ReadStandbys, Complete, ResumeStreams,
     Fetch, Slurp,
     SlurpFails, SlurpTimeout, OtherWrites, Process, Step, Go, vars, tpVars, mainVars
<1>3. UNCHANGED rebal \/ rebal = "stable"
  BY <1>1, NextCases DEF Revoke, Again, Delayed, BuildHighwaters, BuildOffsets,
     SeekActives, ReadActives, AfterSeek,
     ActivesDone, SeekStandbys, StartStandbys, ReadStandbys, Complete, ResumeStreams,
     Fetch, Slurp,
     SlurpFails, SlurpTimeout, OtherWrites, Process, Step, Go, vars, brokerVars
<1>4. UNCHANGED activeHw \/ BuildHighwaters
  BY <1>1, NextCases DEF Revoke, Again, Delayed, BuildOffsets, SeekActives,
     ReadActives, AfterSeek,
     ActivesDone, SeekStandbys, StartStandbys, ReadStandbys, Complete, ResumeStreams,
     Fetch, Slurp,
     SlurpFails, SlurpTimeout, OtherWrites, Process, Step, Go, vars, hwVars
<1> QED
  BY <1>2, <1>3, <1>4

(* The highwaters stay those of the changelog until they are reached: the  *)
(* partitions are this worker's, and it does not process yet.              *)
LEMMA RoundHighwaters ==
    ASSUME TypeOK, RoleInv, PhaseInv, RoundInv, [Answered]_vars, Round',
           mainPc' \in {"offsets", "seek"} \cup Reading, NEW tp \in activeTps'
    PROVE  activeHw'[tp] = logEnd'[tp] - 1
<1> USE DEF Reading
<1>1. ~Die
  BY DEF Die
<1>2. Round /\ UNCHANGED activeTps /\ (UNCHANGED activeHw \/ BuildHighwaters)
  BY <1>1, RoundStep
<1>3. ~Between /\ tp \in activeTps /\ tp \in TP
  BY <1>2, NumberTypes DEF Round
<1>4. CASE BuildHighwaters
  BY <1>3, <1>4 DEF BuildHighwaters, Highwaters, Step, Go, brokerVars
<1>5. CASE ~BuildHighwaters
  <2>1. mainPc \in {"offsets", "seek"} \cup Reading
    <3>1. UNCHANGED mainPc \/ mainPc \in {"offsets", "seek"} \cup Reading
                           \/ mainPc' \notin {"offsets", "seek"} \cup Reading
      BY <1>5, NextCases, SlurpFacts DEF Revoke, Assign, PauseAssigned, OnRebalance,
         Wake,
         Again, Delayed, BuildOffsets, SeekActives, ReadActives, AfterSeek,
         ActivesDone, SeekStandbys,
         StartStandbys, ReadStandbys, Complete, ResumeStreams, Fetch, SlurpFails,
         SlurpTimeout,
         OtherWrites, Process, Die, Step, Go, SignalEnd, vars, mainVars, AfterActives
    <3> QED
      BY <3>1
  <2>2. activeHw[tp] = logEnd[tp] - 1
    BY <1>2, <1>3, <2>1 DEF RoundInv
  <2>3. srcActive = {}
    BY <1>3, <2>1 DEF PhaseInv, Starting
  <2>4. role[tp] = "active"
    BY <1>3, AssignedTps DEF With
  <2>5. logEnd'[tp] = logEnd[tp]
    <3>1. logEnd \in [TP -> 0..MaxEnd]
      BY DEF TypeOK
    <3>2. UNCHANGED logEnd \/ OtherWrites
      BY <2>3, NextCases DEF Revoke, Assign, PauseAssigned, OnRebalance, Wake, Again,
         Delayed,
         BuildHighwaters, BuildOffsets, SeekActives, ReadActives, AfterSeek,
         ActivesDone, SeekStandbys,
         StartStandbys, ReadStandbys, Complete, ResumeStreams, Fetch, Slurp,
         SlurpFails, SlurpTimeout,
         Process, Die, Step, Go, vars, brokerVars
    <3> QED
      BY <1>3, <2>4, <3>1, <3>2 DEF OtherWrites
  <2> QED
    BY <1>2, <1>5, <2>2, <2>5
<1> QED
  BY <1>4, <1>5

(* Where a round has read everything.                                      *)
ReadAll == {"recovered", "seekStreams"} \cup Finishing

(* A round goes on past its reading only with every change in the store.   *)
LEMMA RoundComplete ==
    ASSUME Undisturbed, TypeOK, TypeOK', KnownInv, KnownInv', RoleInv, PhaseInv, CoverInv,
           CoverInv', BufferInv, RoundInv, [Answered]_vars, Round', mainPc' \in ReadAll,
           NEW tp \in activeTps'
    PROVE  0..logEnd'[tp] - 1 \subseteq store'[tp]
<1> USE DEF ReadAll, Finishing
<1>1. ~Die
  BY DEF Die
<1>2. Round /\ UNCHANGED activeTps
  BY <1>1, RoundStep
<1>3. ~Between /\ ~signalStart /\ tp \in activeTps /\ tp \in TP /\ tp \in Own /\ Own' = Own
  BY <1>2, NumberTypes DEF Round, RoleInv, Own
<1>4. CASE mainPc \in ReadAll
  <2>1. 0..logEnd[tp] - 1 \subseteq store[tp]
    BY <1>2, <1>3, <1>4 DEF RoundInv
  <2> QED
    BY <1>3, <2>1, LogKept
<1>5. CASE SeekActives /\ ~NeedRecovery(activeHw, activeOffsets)
  <2>1. mainPc = "seek" /\ UNCHANGED <<logEnd, store>>
    BY <1>5 DEF SeekActives, ReadActives, AfterSeek, Step, Go, brokerVars
  <2>2. activeOffsets[tp] \notin {Absent, None} /\ activeOffsets \in [TP -> Entry]
    BY <1>3, <2>1 DEF KnownInv, TypeOK
  <2>3. 0..logEnd[tp] - 1 \subseteq 0..activeOffsets[tp]
    BY <1>2, <1>3, <1>5, <2>1, <2>2, RoundReads
  <2>4. 0..activeOffsets[tp] \subseteq Taken(tp)
    BY <1>3 DEF CoverInv
  <2>5. OffsetsIn(buffer, tp) = {}
    BY <1>2, <1>3, <2>1, OffsetsInEmpty DEF BufferInv, SizesInv, IdleInv, Starting
  <2> QED
    BY <2>1, <2>3, <2>4, <2>5 DEF Taken
<1>6. CASE Slurp \/ SlurpTimeout
  <2>1. CASE mainPc' = mainPc
    BY <1>4, <2>1
  <2>2. CASE mainPc' # mainPc
    <3>1. /\ mainPc = "recovering" /\ ~NeedRecovery(activeHw, activeOffsets')
          /\ UNCHANGED logEnd /\ buffer' = <<>>
      <4>1. CASE Slurp
        BY <2>2, <4>1, SlurpFacts DEF brokerVars, Flush
      <4>2. CASE SlurpTimeout
        BY <2>2, <4>2 DEF SlurpTimeout, SignalEnd, Flush, brokerVars, offsetVars
      <4> QED
        BY <1>6, <4>1, <4>2
    <3>2. activeOffsets' \in [TP -> Entry] /\ mainPc' = "recovered" /\ ~signalStart'
      BY <1>6, <2>2, SlurpFacts DEF TypeOK, SlurpTimeout, SignalEnd, Round
    <3>3. activeOffsets'[tp] \notin {Absent, None}
      BY <3>2 DEF KnownInv, Reading
    <3>4. 0..logEnd[tp] - 1 \subseteq 0..activeOffsets'[tp]
      BY <1>2, <1>3, <3>1, <3>2, <3>3, RoundReads
    <3>5. 0..activeOffsets'[tp] \subseteq Taken(tp)'
      BY <1>3 DEF CoverInv
    <3>6. Taken(tp)' = store'[tp]
      BY <3>1, OffsetsInEmpty DEF Taken
    <3> QED
      BY <3>1, <3>4, <3>5, <3>6
  <2> QED
    BY <2>1, <2>2
<1>7. CASE ~Slurp /\ ~SlurpTimeout /\ ~ (SeekActives /\ ~NeedRecovery(activeHw, activeOffsets))
  <2>1. mainPc \in ReadAll
    <3>1. CASE SeekActives
      BY <1>7, <3>1 DEF SeekActives, ReadActives, AfterSeek, Step, Go
    <3>2. CASE ActivesDone
      BY <1>3, <3>2 DEF ActivesDone
    <3>3. CASE ~SeekActives /\ ~ActivesDone
      <4>1. \/ UNCHANGED mainPc
            \/ mainPc \in {"standbySeek", "standbyHw", "completing", "seekStreams"}
            \/ mainPc' \in {"wait", "delay", "highwaters", "offsets", "seek"}
        BY <1>7, <3>3, NextCases DEF Revoke, Assign, PauseAssigned, OnRebalance, Wake,
           Again,
           Delayed, BuildHighwaters, BuildOffsets, SeekStandbys, StartStandbys,
           ReadStandbys, Complete,
           ResumeStreams, Fetch, SlurpFails, OtherWrites, Process, Die, Step, Go,
           vars, mainVars
      <4> QED
        BY <4>1
    <3> QED
      BY <3>1, <3>2, <3>3
  <2> QED
    BY <1>4, <2>1
<1> QED
  BY <1>5, <1>6, <1>7

(* Every step keeps RoundInv.                                              *)
LEMMA RoundNext ==
    ASSUME Undisturbed, TypeOK, TypeOK', KnownInv, KnownInv', RoleInv, PhaseInv, CoverInv,
           CoverInv', BufferInv, RoundInv, [Answered]_vars
    PROVE  RoundInv'
<1>1. (Round' /\ mainPc' \in {"offsets", "seek"} \cup Reading) =>
         \A tp \in activeTps' : activeHw'[tp] = logEnd'[tp] - 1
  BY RoundHighwaters
<1>2. (Round' /\ mainPc' \in {"recovered", "seekStreams"} \cup Finishing) =>
         \A tp \in activeTps' : 0..logEnd'[tp] - 1 \subseteq store'[tp]
  BY RoundComplete DEF ReadAll
<1>3. ASSUME ~Between', NEW tp \in srcActive'
      PROVE  0..logEnd'[tp] - 1 \subseteq store'[tp]
  <2>1. CASE OnRebalance \/ Die \/ Assign \/ PauseAssigned
    BY <1>3, <2>1 DEF OnRebalance, fetchVars, PhaseInv, Die, Assign, PauseAssigned,
       Between
  <2>2. CASE ~ (OnRebalance \/ Die \/ Assign \/ PauseAssigned)
    <3>1. UNCHANGED rebal \/ rebal = "stable"
      BY <2>2, NextCases DEF Revoke, Wake, Again, Delayed, BuildHighwaters,
         BuildOffsets,
         SeekActives, ReadActives, AfterSeek, ActivesDone, SeekStandbys,
         StartStandbys, ReadStandbys, Complete, ResumeStreams,
         Fetch, Slurp, SlurpFails, SlurpTimeout, OtherWrites, Process, Step, Go, vars,
         brokerVars
    <3>2. ~Between
      BY <1>3, <3>1 DEF Between
    <3>3. activeTps = With("active") /\ srcActive \subseteq activeTps
      BY <3>2, AssignedTps DEF PhaseInv
    <3>4. \/ srcActive' \subseteq srcActive
          \/ /\ srcActive' = srcActive \cup With("active")
             /\ mainPc = "completing" /\ ~signalStart
      BY <2>2, NextCases DEF Revoke, Wake, Again, Delayed, BuildHighwaters,
         BuildOffsets,
         SeekActives, ReadActives, AfterSeek, ActivesDone, SeekStandbys,
         StartStandbys, ReadStandbys, Complete, ResumeStreams,
         Fetch, Slurp, SlurpFails, SlurpTimeout, OtherWrites, Process, Step, Go, vars,
         fetchVars
    <3>5. tp \in activeTps /\ 0..logEnd[tp] - 1 \subseteq store[tp]
      BY <1>3, <3>2, <3>3, <3>4 DEF RoundInv, Round, Finishing
    <3> QED
      BY <3>2, <3>5, LogKept
  <2> QED
    BY <2>1, <2>2
<1> QED
  BY <1>1, <1>2, <1>3 DEF RoundInv
-----------------------------------------------------------------------------
(* The inductive invariant, and what follows from it.                      *)

(* RecoveryInv is inductive as long as nothing times out.                  *)
LEMMA RecoveryInvCorrect ==
    ASSUME Undisturbed
    PROVE  Spec => [](TypeOK /\ (timeouts = 0 => RecoveryInv))
<1>1. Init => RecoveryInv
  BY TypeInit, BoundInit, RoleInit, PhaseInit, CoverInit, BufferInit, RoundInit
     DEF RecoveryInv
<1>2. /\ TypeOK /\ TypeOK' /\ [Next]_vars
      /\ timeouts = 0 => RecoveryInv
      => (timeouts = 0 => RecoveryInv)'
  <2> SUFFICES ASSUME TypeOK, TypeOK', timeouts = 0 => RecoveryInv, [Next]_vars,
                      timeouts' = 0
               PROVE  RecoveryInv'
    OBVIOUS
  <2>0. [Answered]_vars
    BY TimeoutTypes DEF Next
  <2>1. KnownInv /\ BoundInv /\ RoleInv /\ PhaseInv /\ CoverInv /\ BufferInv /\ RoundInv
    BY <2>0, CountsNext DEF RecoveryInv
  <2>2. KnownInv' /\ BoundInv' /\ RoleInv' /\ PhaseInv' /\ BufferInv'
    BY <2>0, <2>1, KnownNext, BoundNext, RoleNext, PhaseNext, BufferNext
  <2>3. CoverInv'
    BY <2>0, <2>1, CoverNext
  <2>4. RoundInv'
    BY <2>0, <2>1, <2>2, <2>3, RoundNext
  <2> QED
    BY <2>2, <2>3, <2>4 DEF RecoveryInv
<1> QED
  BY <1>1, <1>2, TypeCorrect, PTL DEF Spec

(* In undisturbed circumstances, and as long as no wait of recovery has    *)
(* timed out, the store of every active partition holds each change up to  *)
(* the persisted offset, whatever the buffer and queue sizes, rebalances   *)
(* and crashes: what _seek_offsets skips need not be read again.           *)
THEOREM PersistedCoveredCorrect ==
    ASSUME Undisturbed
    PROVE  Spec => []PersistedCovered
<1>1. TypeOK /\ (timeouts = 0 => RecoveryInv) => PersistedCovered
  <2> SUFFICES ASSUME TypeOK, RecoveryInv, NEW tp \in With("active")
               PROVE  0..persisted[tp] \subseteq store[tp]
    BY DEF PersistedCovered
  <2>1. tp \in Own
    BY DEF RecoveryInv, RoleInv, With, Assigned, Own, Undisturbed
  <2> QED
    BY <2>1 DEF RecoveryInv, CoverInv
<1> QED
  BY <1>1, RecoveryInvCorrect, PTL

(* In undisturbed circumstances, and as long as no wait of recovery has    *)
(* timed out, a partition whose events are processed while no rebalance    *)
(* callback is under way has a table with exactly the changes of its       *)
(* changelog: on_recovery_completed resumes the streams only after the     *)
(* highwater has been reached and the buffer applied.                      *)
THEOREM ServedCompleteCorrect ==
    ASSUME Undisturbed
    PROVE  Spec => []ServedComplete
<1>1. TypeOK /\ (timeouts = 0 => RecoveryInv) => ServedComplete
  <2> SUFFICES ASSUME TypeOK, RecoveryInv, flow, rebal = "stable", NEW tp \in srcActive
               PROVE  store[tp] = 0..logEnd[tp] - 1
    BY DEF ServedComplete, TablesComplete
  <2>1. ~Between /\ tp \in TP
    BY DEF Between, TypeOK
  <2>2. 0..logEnd[tp] - 1 \subseteq store[tp]
    BY <2>1 DEF RecoveryInv, RoundInv
  <2>3. \A x \in store[tp] : x \in Nat /\ x < logEnd[tp]
    BY <2>1, NumberTypes DEF RecoveryInv, BoundInv
  <2>4. logEnd[tp] \in Nat
    BY <2>1, NumberTypes
  <2>5. \A x \in store[tp] : x \in 0..logEnd[tp] - 1
    BY <2>3, <2>4
  <2> QED
    BY <2>2, <2>5
<1> QED
  BY <1>1, RecoveryInvCorrect, PTL
=============================================================================

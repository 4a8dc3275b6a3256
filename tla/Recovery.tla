------------------------------- MODULE Recovery -------------------------------
(***************************************************************************)
(* faust/tables/recovery.py: how a worker brings its copy of a table up to *)
(* date with the changelog after a rebalance, before the streams that use  *)
(* the table go on.                                                        *)
(*                                                                         *)
(* Two tasks of the Recovery service share state: _restart_recovery (main) *)
(* asks the broker for highwaters, seeks and waits; _slurp_changelogs      *)
(* (slurp) reads the changelog queue and applies records to the store.     *)
(* Rebalance callbacks cut in between any two of their steps.              *)
(*                                                                         *)
(* One table, kept in RocksDB: the store and the persisted offset survive  *)
(* a crash.  A partition of the table stands for the partition of the      *)
(* changelog and for the source partition it is computed from.  What is    *)
(* stored is abstracted to the set of changelog offsets that are in it.    *)
(***************************************************************************)
EXTENDS Integers, Sequences, FiniteSets, SequencesExt

CONSTANTS
    TP,             \* partitions of the table
    MaxEnd,         \* bound: records of a changelog partition
    BufferSize,     \* table.recovery_buffer_size
    StandbySize,    \* table.standby_buffer_size
    Assignments,    \* what the assignor may give this worker
    Prompt,         \* nothing else runs between the start of the assigned
                    \* callback and Recovery.on_rebalance
    LateResume,     \* recovery may resume the flow while the group rejoins
    ClearOnResume,  \* resuming flow empties the changelog queue
    MaxQueue,       \* bound: events in the changelog queue
    MaxGen,         \* bound: generations of the consumer group
    MaxCrash,       \* bound: crashes of this worker
    MaxTimeouts     \* bound: requests of recovery that are not answered
                    \* within broker_request_timeout

ASSUME RecoveryAssumption ==
    /\ MaxEnd \in Nat \ {0} /\ MaxQueue \in Nat \ {0}
    /\ BufferSize \in Nat \ {0} /\ StandbySize \in Nat \ {0}
    /\ Assignments \subseteq [TP -> {"active", "standby", "none"}]
    /\ Prompt \in BOOLEAN /\ ClearOnResume \in BOOLEAN
    /\ LateResume \in BOOLEAN
    /\ MaxGen \in Nat /\ MaxCrash \in Nat /\ MaxTimeouts \in Nat

Absent == -3    \* no entry in a Counter
None == -2      \* an entry that is None
Offsets == 0..MaxEnd - 1
Entry == {Absent, None, -1} \cup Offsets
Record == [tp : TP, offset : Offsets]

VARIABLES
    \* Broker and group
    logEnd,         \* next offset of each changelog partition
    role,           \* what the assignor gave this worker: assigned_actives()
                    \* and assigned_standbys()
    gen,            \* app.consumer_generation_id
    rebal,          \* where the rebalance callbacks are
    revoked,        \* partitions the callback under way takes away
    \* Consumer
    position,       \* fetch position of each changelog partition
    clActive, clPaused,    \* changelog partitions that are active, paused
    srcActive, srcPaused,  \* the same for the source partitions
    flow,           \* flow control is active
    queue,          \* tables.changelog_queue
    \* Recovery
    activeTps, standbyTps, activeOffsets, standbyOffsets,
    activeHw, standbyHw,
    buffer,         \* buffers[table]
    inRecovery,
    signalStart,    \* signal_recovery_start
    recovGen,       \* _generation_id
    mainPc, mainGen,
    bufferSizes,    \* buffer_sizes, zero for no entry
    lastOffsets,    \* local variable offsets of slurp, from its last round
    \* Store
    store,          \* offsets whose change is in the store
    persisted,      \* persisted offset
    crashes,
    timeouts        \* history: waits of recovery that timed out

brokerVars == <<logEnd, role, gen, rebal, revoked>>
fetchVars == <<position, clActive, clPaused, srcActive, srcPaused, flow>>
offsetVars == <<activeOffsets, standbyOffsets>>
hwVars == <<activeHw, standbyHw>>
slurpVars == <<buffer, bufferSizes, lastOffsets, store, persisted>>
mainVars == <<signalStart, recovGen, mainPc, mainGen>>
tpVars == <<activeTps, standbyTps>>
vars == <<brokerVars, fetchVars, queue, tpVars, offsetVars, hwVars,
          slurpVars, inRecovery, mainVars, crashes, timeouts>>

TypeOK ==
    /\ logEnd \in [TP -> 0..MaxEnd]
    /\ role \in [TP -> {"active", "standby", "none"}]
    /\ gen \in 0..MaxGen
    /\ rebal \in {"stable", "revoked", "assigned", "paused"}
    /\ revoked \in SUBSET TP
    /\ position \in [TP -> 0..MaxEnd]
    /\ clActive \in SUBSET TP /\ clPaused \in SUBSET TP
    /\ srcActive \in SUBSET TP /\ srcPaused \in SUBSET TP
    /\ flow \in BOOLEAN
    /\ queue \in Seq(Record) /\ Len(queue) <= MaxQueue
    /\ activeTps \in SUBSET TP /\ standbyTps \in SUBSET TP
    /\ activeOffsets \in [TP -> Entry] /\ standbyOffsets \in [TP -> Entry]
    /\ activeHw \in [TP -> Entry] /\ standbyHw \in [TP -> Entry]
    /\ buffer \in Seq(Record)
    /\ inRecovery \in BOOLEAN
    /\ signalStart \in BOOLEAN
    /\ recovGen \in 0..MaxGen /\ mainGen \in 0..MaxGen
    /\ mainPc \in {"wait", "delay", "highwaters", "offsets", "seek",
                   "recovering", "recovered", "standbySeek", "standbyHw",
                   "completing", "seekStreams"}
    /\ bufferSizes \in [TP -> {0, BufferSize, StandbySize}]
    /\ lastOffsets \in {"unbound", "active", "standby"}
    /\ store \in [TP -> SUBSET Offsets]
    /\ persisted \in [TP -> {None} \cup Offsets]
    /\ crashes \in 0..MaxCrash
    /\ timeouts \in 0..MaxTimeouts

NoEntries == [tp \in TP |-> Absent]
With(r) == {tp \in TP : role[tp] = r}
Assigned == TP \ With("none")      \* changelog partitions of this worker

(* A worker that has just started and is about to join the group; its data *)
(* directory is empty, the changelog is not.                               *)
Init ==
    /\ logEnd \in [TP -> {0, 1}]
    /\ role = [tp \in TP |-> "none"]
    /\ gen = 0
    /\ rebal = "revoked"
    /\ revoked = {}
    /\ position = [tp \in TP |-> 0]
    /\ clActive = {} /\ clPaused = {} /\ srcActive = {} /\ srcPaused = {}
    /\ flow = FALSE
    /\ queue = <<>>
    /\ activeTps = {} /\ standbyTps = {}
    /\ activeOffsets = NoEntries /\ standbyOffsets = NoEntries
    /\ activeHw = NoEntries /\ standbyHw = NoEntries
    /\ buffer = <<>>
    /\ inRecovery = FALSE
    /\ signalStart = FALSE
    /\ recovGen = 0 /\ mainGen = 0
    /\ mainPc = "wait"
    /\ bufferSizes = [tp \in TP |-> 0]
    /\ lastOffsets = "unbound"
    /\ store = [tp \in TP |-> {}]
    /\ persisted = [tp \in TP |-> None]
    /\ crashes = 0 /\ timeouts = 0

-----------------------------------------------------------------------------
(* Store: rocksdb.Store.apply_changelog_batch writes the records, then the *)
(* highest offset of each partition in the batch.                          *)
OffsetsIn(batch, tp) == {r.offset : r \in {s \in Range(batch) : s.tp = tp}}

Applied(batch) == [tp \in TP |-> store[tp] \cup OffsetsIn(batch, tp)]

(* Mutant: the offset of the next record is persisted.                     *)
PersistedNext(batch) ==
    [tp \in TP |-> IF OffsetsIn(batch, tp) = {} THEN persisted[tp]
                   ELSE Max(OffsetsIn(batch, tp)) + 1]

Persisted(batch) ==
    [tp \in TP |-> IF OffsetsIn(batch, tp) = {} THEN persisted[tp]
                   ELSE Max(OffsetsIn(batch, tp))]

(* Recovery.flush_buffers                                                  *)
Flush(batch) ==
    /\ store' = Applied(batch)
    /\ persisted' = Persisted(batch)
    /\ buffer' = <<>>

(* A Counter gives zero for a key it does not have.                        *)
Value(e) == IF e = Absent THEN 0 ELSE e

(* Recovery.need_recovery: a highwater that has not been reached.          *)
NeedRecovery(highwaters, offsets) ==
    \E tp \in TP : /\ highwaters[tp] # Absent
                   /\ Value(offsets[tp]) # None
                   /\ highwaters[tp] > Value(offsets[tp])

-----------------------------------------------------------------------------
(* Rebalance callbacks.                                                    *)

(* App._on_partitions_revoked, with nothing more for the streams to do.    *)
Revoke ==
    /\ rebal = "stable"
    /\ gen < MaxGen
    /\ Flush(buffer)
    /\ IF Assigned # {}
         THEN /\ flow' = FALSE
              /\ clPaused' = Assigned /\ srcPaused' = With("active")
              /\ clActive' = {} /\ srcActive' = {}
              /\ queue' = <<>>
         ELSE UNCHANGED <<flow, clPaused, srcPaused, clActive, srcActive,
                          queue>>
    /\ rebal' = "revoked"
    /\ UNCHANGED <<logEnd, role, gen, revoked, position, tpVars,
                   offsetVars, hwVars, bufferSizes, lastOffsets, inRecovery,
                   mainVars, crashes, timeouts>>

(* The leader has handed out partitions anew, the listener sets the        *)
(* generation, Consumer.on_partitions_assigned makes every partition       *)
(* active that is not still paused.                                        *)
Assign ==
    /\ rebal = "revoked"
    /\ gen < MaxGen
    /\ gen' = gen + 1
    /\ role' \in Assignments
    /\ clPaused' = clPaused \cap Assigned'
    /\ srcPaused' = srcPaused \cap With("active")'
    /\ clActive' = Assigned' \ clPaused'
    /\ srcActive' = With("active")' \ srcPaused'
    /\ position' = [tp \in TP |-> IF tp \in Assigned' THEN 0 ELSE position[tp]]
    /\ revoked' = Assigned \ Assigned'
    /\ rebal' = "assigned"
    /\ UNCHANGED <<logEnd, flow, queue, tpVars, offsetVars,
                   hwVars, slurpVars, inRecovery, mainVars, crashes, timeouts>>

(* App._on_partitions_assigned, as far as consumer.pause_partitions.       *)
PauseAssigned ==
    /\ rebal = "assigned"
    /\ clActive' = {} /\ srcActive' = {}
    /\ clPaused' = Assigned
    /\ srcPaused' = With("active")
    /\ rebal' = "paused"
    /\ UNCHANGED <<logEnd, role, gen, revoked, position, flow, queue,
                   tpVars, offsetVars, hwVars, slurpVars, inRecovery, mainVars,
                   crashes, timeouts>>

(* Recovery._add, after Recovery.revoke has dropped what is taken away.    *)
Added(offsets, tp) ==
    CASE persisted[tp] # None -> persisted[tp]
      [] offsets[tp] = Absent \/ tp \in revoked -> None
      [] OTHER -> offsets[tp]

Kept(counter) == [tp \in TP |-> IF tp \in revoked THEN Absent ELSE counter[tp]]

(* Recovery.on_rebalance, the last thing the callback does.                *)
OnRebalance ==
    /\ rebal = "paused"
    /\ activeTps' = With("active")
    /\ standbyTps' = With("standby")
    /\ activeOffsets' =
         [tp \in TP |-> IF role[tp] = "active" THEN Added(activeOffsets, tp)
                        ELSE Absent]
    /\ standbyOffsets' =
         [tp \in TP |-> IF role[tp] = "standby" THEN Added(standbyOffsets, tp)
                        ELSE Kept(standbyOffsets)[tp]]
    /\ activeHw' = Kept(activeHw)
    /\ standbyHw' = Kept(standbyHw)
    /\ signalStart' = TRUE
    /\ recovGen' = gen
    /\ rebal' = "stable"
    /\ UNCHANGED <<logEnd, role, gen, revoked, fetchVars, queue,
                   slurpVars, inRecovery, mainPc, mainGen, crashes, timeouts>>

-----------------------------------------------------------------------------
(* Recovery._restart_recovery.  Every step but the first is a wait_first   *)
(* on something and on signal_recovery_start (Recovery._wait).             *)

Wake ==
    /\ mainPc = "wait"
    /\ signalStart
    /\ signalStart' = FALSE
    /\ mainGen' = recovGen
    /\ mainPc' = "delay"
    /\ UNCHANGED <<brokerVars, fetchVars, queue, tpVars, offsetVars,
                   hwVars, slurpVars, inRecovery, recovGen, crashes, timeouts>>

(* From one wait to the next, not overtaken by a rebalance.                *)
Go(from, to) ==
    /\ mainPc = from
    /\ ~signalStart
    /\ mainPc' = to
    /\ UNCHANGED <<brokerVars, signalStart, recovGen, mainGen, bufferSizes,
                   lastOffsets, crashes>>

(* What the task waited for is done.                                       *)
Step(from, to) == Go(from, to) /\ UNCHANGED timeouts

(* It is not done within broker_request_timeout and is cancelled; _wait    *)
(* returns all the same and the task goes on.                              *)
Expire(from, to) ==
    /\ Go(from, to)
    /\ timeouts < MaxTimeouts
    /\ timeouts' = timeouts + 1

(* RebalanceAgain: the task starts over.                                   *)
Again ==
    /\ mainPc \notin {"wait", "recovering", "recovered"}
    /\ signalStart
    /\ mainPc' = "wait"
    /\ UNCHANGED <<brokerVars, fetchVars, queue, tpVars, offsetVars,
                   hwVars, slurpVars, inRecovery, signalStart, recovGen,
                   mainGen, crashes, timeouts>>

(* stream_recovery_delay is over: flush, and wait for the producer, for as *)
(* long as the timeout at most.                                            *)
Delayed ==
    /\ Step("delay", "highwaters")
    /\ inRecovery' = TRUE
    /\ Flush(buffer)
    /\ UNCHANGED <<fetchVars, queue, tpVars, offsetVars, hwVars>>

(* Recovery._build_highwaters: offset of the last record, by partition.    *)
Highwaters(tps) ==
    [tp \in TP |-> IF tp \in tps THEN logEnd[tp] - 1 ELSE Absent]

(* conf.recovery_consistency_check: no offset is beyond its highwater; one *)
(* that is None, not there or zero is not looked at.                       *)
Consistent(tps, offsets, highwaters) ==
    \A tp \in tps : \/ offsets[tp] \in {Absent, None, 0}
                     \/ highwaters[tp] \in {Absent, 0}
                     \/ offsets[tp] <= highwaters[tp]

BuildHighwaters ==
    /\ Step("highwaters", "offsets")
    /\ activeHw' = Highwaters(activeTps)
    /\ UNCHANGED <<fetchVars, queue, tpVars, offsetVars, standbyHw, buffer,
                   store, persisted, inRecovery>>

(* The highwaters stay what they were: those of an earlier round, or none. *)
(* In the last generation, not if the worker would die of it.              *)
HighwatersTimeout ==
    /\ Expire("highwaters", "offsets")
    /\ gen < MaxGen \/ Consistent(activeTps, activeOffsets, activeHw)
    /\ UNCHANGED <<fetchVars, queue, tpVars, offsetVars, hwVars, buffer,
                   store, persisted, inRecovery>>

(* Recovery._build_offsets, for a changelog that still has its first       *)
(* record: the earliest offset less one is -1.                             *)
(* Mutant: a table without a persisted offset starts after the first       *)
(* record.                                                                 *)
BuiltZero(offsets, tps) ==
    [tp \in TP |-> IF tp \notin tps THEN offsets[tp]
                   ELSE IF Value(offsets[tp]) = None THEN 0
                   ELSE Value(offsets[tp])]

Built(offsets, tps) ==
    [tp \in TP |-> IF tp \notin tps THEN offsets[tp]
                   ELSE IF Value(offsets[tp]) = None THEN -1
                   ELSE Value(offsets[tp])]

BuildOffsets ==
    /\ Step("offsets", "seek")
    /\ Consistent(activeTps, activeOffsets, activeHw)
    /\ activeOffsets' = Built(activeOffsets, activeTps)
    /\ standbyOffsets' = Built(standbyOffsets, standbyTps)
    /\ UNCHANGED <<fetchVars, queue, tpVars, hwVars, buffer, store,
                   persisted, inRecovery>>

(* The consumer seeks to numbers only.                                     *)
Known(tps, offsets) == \A tp \in tps : offsets[tp] # None

(* The offsets of the actives, of the standbys or of both are not built.   *)
OffsetsTimeout ==
    /\ Expire("offsets", "seek")
    /\ \/ gen < MaxGen
       \/ /\ Known(activeTps, activeOffsets)
          /\ Known(standbyTps, standbyOffsets)
    /\ Consistent(activeTps, activeOffsets, activeHw)
    /\ activeOffsets' \in {activeOffsets, Built(activeOffsets, activeTps)}
    /\ standbyOffsets' \in {standbyOffsets, Built(standbyOffsets, standbyTps)}
    /\ UNCHANGED <<fetchVars, queue, tpVars, hwVars, buffer, store,
                   persisted, inRecovery>>

(* Mutant: the first record to read is the one after the next.             *)
SoughtPast(tps, offsets) ==
    [tp \in TP |-> IF tp \notin tps THEN position[tp]
                   ELSE Value(offsets[tp]) + 2]

(* Recovery._seek_offsets                                                  *)
Sought(tps, offsets) ==
    [tp \in TP |-> IF tp \notin tps THEN position[tp]
                   ELSE IF Value(offsets[tp]) = -1 THEN 0
                   ELSE Value(offsets[tp])]

ResumeFlow ==
    /\ rebal = "stable" \/ LateResume
    /\ flow' = TRUE
    /\ queue' = IF ClearOnResume THEN <<>> ELSE queue

(* Changelog partitions that go on being read after recovery when every    *)
(* record is applied on its own.                                           *)
StillRead == IF BufferSize = 1 THEN activeTps \ standbyTps ELSE {}

AfterActives == IF standbyTps # {} THEN "standbySeek" ELSE "completing"

(* If the actives are behind, read them.                                   *)
AfterSeek == IF NeedRecovery(activeHw, activeOffsets) THEN "recovering"
             ELSE AfterActives

ReadActives ==
    /\ ResumeFlow
    /\ \/ /\ NeedRecovery(activeHw, activeOffsets)
          /\ inRecovery' = TRUE
          /\ clActive' = clActive \cup activeTps
          /\ clPaused' = clPaused \ activeTps
       \/ /\ ~NeedRecovery(activeHw, activeOffsets)
          /\ inRecovery' = FALSE
          /\ clActive' = clActive \cup StillRead
          /\ clPaused' = clPaused \ StillRead
    /\ UNCHANGED <<srcActive, srcPaused, tpVars, offsetVars, hwVars,
                   buffer, store, persisted>>

SeekActives ==
    /\ Step("seek", AfterSeek)
    /\ Known(activeTps, activeOffsets)
    /\ position' = Sought(activeTps, activeOffsets)
    /\ ReadActives

(* The timeout comes before the thread of the consumer has got to seek, or *)
(* while it waits for the new positions.                                   *)
SeekTimeout ==
    /\ Expire("seek", AfterSeek)
    /\ \/ UNCHANGED position
       \/ /\ Known(activeTps, activeOffsets)
          /\ position' = Sought(activeTps, activeOffsets)
    /\ ReadActives

(* The wait for signal_recovery_end is over: because slurp has set it, or  *)
(* with RebalanceAgain, which is caught here.  on_recovery_completed marks *)
(* the recovery as ended before its first await.                           *)
ActivesDone ==
    /\ mainPc = "recovered" \/ (mainPc = "recovering" /\ signalStart)
    /\ clActive' = (clActive \ activeTps) \cup StillRead
    /\ clPaused' = (clPaused \cup activeTps) \ StillRead
    /\ IF StillRead # {} THEN ResumeFlow ELSE UNCHANGED <<flow, queue>>
    /\ mainPc' = AfterActives
    /\ inRecovery' = IF AfterActives = "completing" THEN FALSE ELSE inRecovery
    /\ UNCHANGED <<brokerVars, position, srcActive, srcPaused, tpVars,
                   offsetVars, hwVars, slurpVars, signalStart, recovGen,
                   mainGen, crashes, timeouts>>

SeekStandbys ==
    /\ Step("standbySeek", "standbyHw")
    /\ Known(standbyTps, standbyOffsets)
    /\ position' = Sought(standbyTps, standbyOffsets)
    /\ UNCHANGED <<clActive, clPaused, srcActive, srcPaused, flow, queue,
                   tpVars, offsetVars, hwVars, buffer, store, persisted,
                   inRecovery>>

StandbySeekTimeout ==
    /\ Expire("standbySeek", "standbyHw")
    /\ \/ UNCHANGED position
       \/ /\ Known(standbyTps, standbyOffsets)
          /\ position' = Sought(standbyTps, standbyOffsets)
    /\ UNCHANGED <<clActive, clPaused, srcActive, srcPaused, flow, queue,
                   tpVars, offsetVars, hwVars, buffer, store, persisted,
                   inRecovery>>

ReadStandbys ==
    /\ Consistent(standbyTps, standbyOffsets, standbyHw')
    /\ clActive' = clActive \cup standbyTps
    /\ clPaused' = clPaused \ standbyTps
    /\ ResumeFlow
    /\ inRecovery' = FALSE
    /\ UNCHANGED <<position, srcActive, srcPaused, tpVars, offsetVars,
                   activeHw, buffer, store, persisted>>

StartStandbys ==
    /\ Step("standbyHw", "completing")
    /\ standbyHw' = Highwaters(standbyTps)
    /\ ReadStandbys

StandbyHwTimeout ==
    /\ Expire("standbyHw", "completing")
    /\ UNCHANGED standbyHw
    /\ ReadStandbys

(* Recovery.on_recovery_completed: the callbacks of the tables are done.   *)
(* In a new generation it gives up, else the source partitions are resumed *)
(* and sought.                                                             *)
Complete ==
    /\ \/ /\ gen # mainGen
          /\ Step("completing", "wait")
          /\ UNCHANGED <<srcActive, srcPaused>>
       \/ /\ gen = mainGen
          /\ Step("completing", "seekStreams")
          /\ srcActive' = srcActive \cup With("active")
          /\ srcPaused' = srcPaused \ With("active")
    /\ UNCHANGED <<position, clActive, clPaused, flow, queue, tpVars,
                   offsetVars, hwVars, buffer, store, persisted, inRecovery>>

(* The source partitions are sought, or the timeout is over.               *)
ResumeStreams ==
    /\ Step("seekStreams", "wait")
    /\ ResumeFlow
    /\ UNCHANGED <<position, clActive, clPaused, srcActive, srcPaused,
                   tpVars, offsetVars, hwVars, buffer, store, persisted,
                   inRecovery>>
-----------------------------------------------------------------------------
(* Fetcher and conductor: a record is read and put into the changelog      *)
(* queue.                                                                  *)
Fetch ==
    /\ flow
    /\ Len(queue) < MaxQueue
    /\ \E tp \in clActive :
         /\ position[tp] < logEnd[tp]
         /\ queue' = Append(queue, [tp |-> tp, offset |-> position[tp]])
         /\ position' = [position EXCEPT ![tp] = @ + 1]
    /\ UNCHANGED <<brokerVars, clActive, clPaused, srcActive, srcPaused, flow,
                   tpVars, offsetVars, hwVars, slurpVars, inRecovery,
                   mainVars, crashes, timeouts>>

-----------------------------------------------------------------------------
(* Recovery._slurp_changelogs                                              *)

(* The counter the record is checked against.  For a partition that is     *)
(* neither active nor standby the code uses the one of the last record.    *)
Counter(tp) ==
    IF tp \in activeTps THEN "active"
    ELSE IF tp \in standbyTps THEN "standby" ELSE lastOffsets

(* buffer_sizes is filled when a partition is first seen.                  *)
Size(tp) ==
    IF bufferSizes[tp] # 0 THEN bufferSizes[tp]
    ELSE IF tp \in activeTps THEN BufferSize
    ELSE IF tp \in standbyTps THEN StandbySize ELSE 0

Fresh(r) ==
    LET seen == IF Counter(r.tp) = "active" THEN activeOffsets[r.tp]
                                            ELSE standbyOffsets[r.tp]
    IN  seen \in {Absent, None} \/ r.offset > seen

Seen(r, which, offsets) ==
    IF Fresh(r) /\ Counter(r.tp) = which
      THEN [offsets EXCEPT ![r.tp] = r.offset] ELSE offsets

(* Mutant: the end of the recovery is noted, the waiting task not woken.   *)
SignalEndSilent(done) ==
    /\ inRecovery' = (inRecovery /\ ~done)
    /\ UNCHANGED mainPc

(* _maybe_signal_recovery_end sets the event and the next round clears it  *)
(* before another task runs: it wakes main if main is waiting, else it is  *)
(* lost.                                                                   *)
SignalEnd(done) ==
    /\ inRecovery' = (inRecovery /\ ~done)
    /\ mainPc' = IF done /\ mainPc = "recovering" THEN "recovered" ELSE mainPc

(* Take an event, add it to the buffer if it is new, and apply the buffer  *)
(* when it is full or everything has been read.                            *)
Slurp ==
    /\ queue # <<>>
    /\ queue' = Tail(queue)
    /\ LET r == Head(queue)
           rest == IF Fresh(r) THEN Append(buffer, r) ELSE buffer
           full == Fresh(r) /\ Len(rest) >= Size(r.tp)
           done == inRecovery /\ ~NeedRecovery(activeHw, activeOffsets')
       IN  /\ Counter(r.tp) # "unbound"
           /\ Fresh(r) => Size(r.tp) # 0
           /\ activeOffsets' = Seen(r, "active", activeOffsets)
           /\ standbyOffsets' = Seen(r, "standby", standbyOffsets)
           /\ lastOffsets' = Counter(r.tp)
           /\ bufferSizes' = [bufferSizes EXCEPT ![r.tp] = Size(r.tp)]
           /\ IF full \/ done
                THEN Flush(rest)
                ELSE buffer' = rest /\ UNCHANGED <<store, persisted>>
           /\ SignalEnd(done)
    /\ UNCHANGED <<brokerVars, fetchVars, tpVars, hwVars, signalStart,
                   recovGen, mainGen, crashes, timeouts>>

(* An event of a partition the worker no longer has: the round ends in an  *)
(* exception, for want of a counter or, once the event is in the buffer,   *)
(* of a buffer size.                                                       *)
SlurpFails ==
    /\ queue # <<>>
    /\ queue' = Tail(queue)
    /\ LET r == Head(queue)
       IN  \/ /\ Counter(r.tp) = "unbound"
              /\ UNCHANGED <<offsetVars, buffer>>
           \/ /\ Counter(r.tp) # "unbound"
              /\ Fresh(r) /\ Size(r.tp) = 0
              /\ activeOffsets' = Seen(r, "active", activeOffsets)
              /\ standbyOffsets' = Seen(r, "standby", standbyOffsets)
              /\ buffer' = Append(buffer, r)
    /\ UNCHANGED <<brokerVars, fetchVars, tpVars, hwVars, bufferSizes,
                   lastOffsets, store, persisted, inRecovery, mainVars,
                   crashes, timeouts>>

(* Nothing came for five seconds.                                          *)
SlurpTimeout ==
    /\ queue = <<>>
    /\ inRecovery /\ ~NeedRecovery(activeHw, activeOffsets)
    /\ Flush(buffer)
    /\ SignalEnd(TRUE)
    /\ UNCHANGED <<brokerVars, fetchVars, queue, tpVars, offsetVars,
                   hwVars, bufferSizes, lastOffsets, signalStart, recovGen,
                   mainGen, crashes, timeouts>>

-----------------------------------------------------------------------------
(* The rest of the worker and of the group.                                *)

(* Another worker has the partition and changes the table.                 *)
OtherWrites ==
    /\ \E tp \in TP :
         /\ role[tp] # "active" /\ logEnd[tp] < MaxEnd
         /\ logEnd' = [logEnd EXCEPT ![tp] = @ + 1]
    /\ UNCHANGED <<role, gen, rebal, revoked, fetchVars, queue, tpVars,
                   offsetVars, hwVars, slurpVars, inRecovery, mainVars,
                   crashes, timeouts>>

(* An event of a source partition is processed and changes the table; the  *)
(* offset is persisted when the broker has the change.                     *)
Process ==
    /\ flow
    /\ \E tp \in srcActive :
         /\ logEnd[tp] < MaxEnd
         /\ logEnd' = [logEnd EXCEPT ![tp] = @ + 1]
         /\ store' = [store EXCEPT ![tp] = @ \cup {logEnd[tp]}]
         /\ persisted' = [persisted EXCEPT ![tp] = logEnd[tp]]
    /\ UNCHANGED <<role, gen, rebal, revoked, fetchVars, queue, tpVars,
                   offsetVars, hwVars, buffer, bufferSizes, lastOffsets,
                   inRecovery, mainVars, crashes, timeouts>>

(* The process dies and is started again; its partitions go to others.     *)
Die ==
    /\ gen < MaxGen
    /\ role' = [tp \in TP |-> "none"]
    /\ rebal' = "revoked" /\ revoked' = {}
    /\ clActive' = {} /\ clPaused' = {} /\ srcActive' = {} /\ srcPaused' = {}
    /\ flow' = FALSE
    /\ queue' = <<>>
    /\ activeTps' = {} /\ standbyTps' = {}
    /\ activeOffsets' = NoEntries /\ standbyOffsets' = NoEntries
    /\ activeHw' = NoEntries /\ standbyHw' = NoEntries
    /\ buffer' = <<>>
    /\ inRecovery' = FALSE /\ signalStart' = FALSE
    /\ recovGen' = 0 /\ mainGen' = 0 /\ mainPc' = "wait"
    /\ bufferSizes' = [tp \in TP |-> 0]
    /\ lastOffsets' = "unbound"
    /\ UNCHANGED <<logEnd, gen, position, store, persisted>>

Crash ==
    /\ crashes < MaxCrash
    /\ crashes' = crashes + 1
    /\ Die
    /\ UNCHANGED timeouts

(* An exception in _restart_recovery ends the service and with it the      *)
(* worker: a ConsistencyError, or that the consumer cannot seek to None.   *)
RecoveryFails ==
    /\ ~signalStart
    /\ \/ /\ mainPc = "offsets"
          /\ ~Consistent(activeTps, activeOffsets, activeHw)
       \/ mainPc = "seek" /\ ~Known(activeTps, activeOffsets)
       \/ mainPc = "standbySeek" /\ ~Known(standbyTps, standbyOffsets)
    /\ Die
    /\ UNCHANGED <<crashes, timeouts>>

(* The same for the standbys, when their highwaters were not built.        *)
StandbyHwFails ==
    /\ ~signalStart
    /\ mainPc = "standbyHw" /\ timeouts < MaxTimeouts
    /\ ~Consistent(standbyTps, standbyOffsets, standbyHw)
    /\ timeouts' = timeouts + 1
    /\ Die
    /\ UNCHANGED crashes

Rebalance == Revoke \/ Assign \/ PauseAssigned \/ OnRebalance

Main == \/ Wake \/ Again \/ Delayed \/ BuildHighwaters \/ BuildOffsets
        \/ SeekActives \/ ActivesDone \/ SeekStandbys \/ StartStandbys
        \/ Complete \/ ResumeStreams \/ RecoveryFails

(* Where a wait of recovery with a timeout ends.                           *)
Timeout == \/ HighwatersTimeout \/ OffsetsTimeout \/ SeekTimeout
           \/ StandbySeekTimeout \/ StandbyHwTimeout \/ StandbyHwFails

SlurpChangelogs == Slurp \/ SlurpFails \/ SlurpTimeout

Worker == Main \/ Fetch \/ SlurpChangelogs \/ Process

Quiet == Prompt => rebal \in {"stable", "revoked"}

(* A step of a worker whose requests are answered in time.                 *)
Answered == Rebalance \/ OtherWrites \/ Crash \/ (Quiet /\ Worker)

Next == Answered \/ (Quiet /\ Timeout)

Spec == Init /\ [][Next]_vars

(* The tasks and the fetcher go on; the callbacks of a rebalance run to    *)
(* their end.  Nothing is assumed of rebalances, writes, crashes or        *)
(* timeouts.                                                               *)
Fairness ==
    /\ WF_vars(Quiet /\ Main) /\ WF_vars(Quiet /\ Fetch)
    /\ WF_vars(Quiet /\ SlurpChangelogs)
    /\ WF_vars(Assign) /\ WF_vars(PauseAssigned) /\ WF_vars(OnRebalance)

FairSpec == Spec /\ Fairness

-----------------------------------------------------------------------------
(* A partition whose events are processed has a table with every change in *)
(* its changelog: on_recovery_completed resumes the streams only after the *)
(* highwater has been reached, whatever rebalances, crashes and writes of  *)
(* other workers came in between.  Claimed when no callback is under way.  *)
TablesComplete ==
    (flow /\ rebal = "stable") =>
        \A tp \in srcActive : store[tp] = 0..logEnd[tp] - 1

(* As long as no wait of recovery has timed out.                           *)
ServedComplete == timeouts = 0 => TablesComplete

(* The store of an active partition holds every change up to the persisted *)
(* offset, so that what _seek_offsets skips need not be read again; as     *)
(* long as no wait of recovery has timed out.                              *)
PersistedCovered ==
    timeouts = 0 =>
        \A tp \in With("active") : 0..persisted[tp] \subseteq store[tp]

(* When there are no more rebalances, the partitions assigned in the last  *)
(* one are served in the end and stay so: no signal between the two tasks  *)
(* is lost for good.                                                       *)
Serving == flow /\ srcActive = With("active") /\ mainPc = "wait"
EventuallyServed == <>[]Serving

(* The store of a standby is an exact replica of the changelog up to its   *)
(* persisted offset.  This is what the documentation says of standbys; the *)
(* queue that on_recovery_completed empties when it resumes flow breaks it.*)
StandbyExact ==
    \A tp \in With("standby") : 0..persisted[tp] \subseteq store[tp]
=============================================================================

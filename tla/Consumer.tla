------------------------------- MODULE Consumer -------------------------------
(***************************************************************************)
(* One faust worker reading from Kafka: the fetcher that drains records    *)
(* into the stream queue, the agent tasks that take events off it and ack  *)
(* them, the commit coroutine that turns acks into committed offsets, and  *)
(* the rebalance callbacks with the recovery task that follows them.       *)
(*                                                                         *)
(* All of this runs on one asyncio loop, so a step is the code between two *)
(* awaits that can suspend.  The group coordinator, the aiokafka consumer  *)
(* thread and the other workers of the group are the environment.          *)
(***************************************************************************)
EXTENDS OffsetTracking, Sequences

CONSTANTS
    TP,               \* topic partitions of the subscribed (acking) topics
    Workers,          \* concurrent agent tasks sharing the stream queue
    Log,              \* offsets holding a message; the others are compacted
                      \* away or transaction markers
    Cython,           \* streams are iterated by _cython/streams.pyx
    StreamWaitEmpty,  \* conf.stream_wait_empty
    RebalanceAgain,   \* a rebalance may start while the recovery task of
                      \* the one before has not resumed the streams
    SlowFetcher,      \* streams may be resumed while the fetcher is still in
                      \* a fetch, a commit or a seek from before a rebalance
    MayIdle,          \* the group may leave this worker without partitions
    MaxQueue,         \* bound: events in the stream queue
    MaxPoll,          \* bound: records returned by one fetch
    MaxGen,           \* bound: generations of the consumer group
    MaxCrash          \* bound: crashes of this worker

ASSUME ConsumerAssumption ==
    /\ Log \in [TP -> SUBSET Offset]
    /\ Cython \in BOOLEAN
    /\ StreamWaitEmpty \in BOOLEAN
    /\ RebalanceAgain \in BOOLEAN
    /\ SlowFetcher \in BOOLEAN
    /\ MayIdle \in BOOLEAN
    /\ MaxQueue \in Nat \ {0}
    /\ MaxPoll \in Nat \ {0}
    /\ MaxGen \in Nat
    /\ MaxCrash \in Nat

VARIABLES
    \* The broker and the aiokafka consumer.
    brokerCommitted,  \* committed offset of the group
    position,         \* fetch position of this consumer
    assignment,       \* consumer.assignment()
    generation,       \* app.consumer_generation_id
    \* transport.Consumer
    acked, ackedIndex, gap, readOffset, committedOffset,
    active,           \* _active_partitions
    paused,           \* _paused_partitions
    flowActive,       \* consumer.flow_active and app.flow_control.is_active()
    \* Consumer.commit
    commitPc, commitOwner, commitWaiters, commitOffsets, commitGen,
    \* Fetcher: _drain_messages and getmany
    fetchPc, batch, batchGen, current,
    \* Consumer.perform_seek under way, by caller
    seeking,
    \* Streams and agents
    queue, inflight,
    \* Rebalance callbacks, tables.recovery
    rebalPc, recovPc, recovGen,
    \* History
    processed,        \* messages whose processing has ended, at any worker
    crashes

brokerVars == <<brokerCommitted, position, assignment, generation>>
trackVars  == <<acked, ackedIndex, gap, committedOffset>>
flowVars   == <<active, paused, flowActive>>
commitVars == <<commitPc, commitOwner, commitWaiters, commitOffsets, commitGen>>
fetchVars  == <<fetchPc, batch, batchGen, current>>
streamVars == <<queue, inflight>>
rebalVars  == <<rebalPc, recovPc, recovGen>>
histVars   == <<processed, crashes>>
vars == <<brokerVars, trackVars, readOffset, flowVars, commitVars, fetchVars,
          seeking, streamVars, rebalVars, histVars>>

-----------------------------------------------------------------------------
Message == [tp : TP, offset : Offset, gen : 0..MaxGen]
Callers == {"handler", "fetcher", "rebalance"}   \* of Consumer.commit
Seekers == {"fetcher", "recovery"}               \* of Consumer.perform_seek

Nobody == "nobody"
NotSought == -2       \* partition was not assigned when the seek was done
NoOffsets == [tp \in TP |-> NoOffset]
Empty == [tp \in TP |-> {}]

TypeOK ==
    /\ brokerCommitted \in [TP -> MaybeNext]
    /\ position \in [TP -> NextOffset]
    /\ assignment \in SUBSET TP
    /\ generation \in 0..MaxGen
    /\ acked \in [TP -> [Offset -> Nat]]
    /\ ackedIndex \in [TP -> SUBSET Offset]
    /\ gap \in [TP -> SUBSET Interval]
    /\ readOffset \in [TP -> MaybeNext]
    /\ committedOffset \in [TP -> MaybeNext]
    /\ active \in SUBSET TP
    /\ paused \in SUBSET TP
    /\ flowActive \in BOOLEAN
    /\ commitPc \in {"idle", "attached", "broker"}
    /\ commitOwner \in Callers \cup {Nobody}
    /\ commitWaiters \in SUBSET Callers
    /\ commitOffsets \in [TP -> MaybeNext]
    /\ commitGen \in 0..MaxGen
    /\ fetchPc \in {"off", "idle", "fetching", "seeking", "iterate", "merge",
                    "ready", "committing", "deliver"}
    /\ batch \in [TP -> SUBSET Offset]
    /\ batchGen \in 0..MaxGen
    /\ current \in SUBSET Message
    /\ seeking \in [Seekers -> [TP -> MaybeNext \cup {NotSought}]]
    /\ queue \in Seq(Message)
    /\ inflight \in [Workers -> SUBSET Message]
    /\ rebalPc \in {"stable", "waitEmpty", "loopCommit", "finalCommit",
                    "revoked", "joined", "assigned"}
    /\ recovPc \in {"idle", "start", "seeking"}
    /\ recovGen \in 0..MaxGen
    /\ processed \in [TP -> SUBSET Offset]
    /\ crashes \in 0..MaxCrash

-----------------------------------------------------------------------------
(* A worker process that has just started: not yet a member of the group,  *)
(* the fetcher not started.                                                *)
Init ==
    /\ acked = [tp \in TP |-> EmptyBag]
    /\ ackedIndex = Empty
    /\ gap = Empty
    /\ readOffset = NoOffsets
    /\ committedOffset = NoOffsets
    /\ active = {}
    /\ paused = {}
    /\ flowActive = FALSE
    /\ commitPc = "idle"
    /\ commitOwner = Nobody
    /\ commitWaiters = {}
    /\ commitOffsets = NoOffsets
    /\ commitGen = 0
    /\ fetchPc = "off"
    /\ batch = Empty
    /\ batchGen = 0
    /\ current = {}
    /\ seeking = [c \in Seekers |-> [tp \in TP |-> NotSought]]
    /\ queue = <<>>
    /\ inflight = [w \in Workers |-> {}]
    /\ rebalPc = "revoked"
    /\ recovPc = "idle"
    /\ recovGen = 0
    /\ brokerCommitted = NoOffsets
    /\ position = [tp \in TP |-> 0]
    /\ assignment = {}
    /\ generation = 0
    /\ processed = Empty
    /\ crashes = 0

-----------------------------------------------------------------------------
(* Consumer.commit and the coroutines that call it.                        *)

(* Consumer._filter_committable_offsets: what _new_offset returns for each *)
(* partition, when _should_commit agrees.                                  *)
New(tp) == NewOffset(acked[tp], ackedIndex[tp], gap[tp], committedOffset[tp])

Committable(new) ==
    [tp \in TP |-> IF /\ new[tp].offset # NoOffset
                      /\ ShouldCommit(committedOffset[tp], new[tp].offset)
                   THEN new[tp].offset ELSE NoOffset]

(* commit(): one coroutine commits at a time.  A caller that finds a       *)
(* commit under way waits for it to finish and then returns without        *)
(* committing; otherwise the offsets to commit are computed at once, and   *)
(* the coroutine goes on to _handle_attached unless there are none.        *)
CommitCall(caller) ==
    \/ /\ commitOwner = Nobody
       /\ \E new \in {[tp \in TP |-> New(tp)]} :
             /\ IF Committable(new) = NoOffsets
                THEN UNCHANGED <<commitPc, commitOwner, commitOffsets>>
                ELSE /\ commitPc' = "attached"
                     /\ commitOwner' = caller
                     /\ commitOffsets' = Committable(new)
             /\ acked' = [tp \in TP |-> new[tp].acked]
             /\ ackedIndex' = [tp \in TP |-> new[tp].index]
             /\ gap' = [tp \in TP |-> new[tp].gap]
       /\ UNCHANGED <<commitWaiters, commitGen, committedOffset>>
    \/ /\ commitOwner # Nobody
       /\ commitWaiters' = commitWaiters \cup {caller}
       /\ UNCHANGED <<trackVars, commitPc, commitOwner, commitOffsets,
                      commitGen>>

CommitReturned(caller) == commitOwner # caller /\ caller \notin commitWaiters

(* The end of commit(): the future is dropped and its waiters notified.    *)
CommitEnd ==
    /\ commitPc' = "idle"
    /\ commitOwner' = Nobody
    /\ commitWaiters' = {}
    /\ commitOffsets' = NoOffsets

(* Consumer._commit_handler: every broker_commit_interval seconds.         *)
CommitHandler ==
    /\ CommitReturned("handler")
    /\ CommitCall("handler")
    /\ UNCHANGED <<brokerVars, readOffset, flowVars, fetchVars, seeking,
                   streamVars, rebalVars, histVars>>

(* _handle_attached is done; _commit_offsets keeps the partitions that are *)
(* assigned at this point and sends them to the broker, if there are any.  *)
CommitAttached ==
    /\ commitPc = "attached"
    /\ LET kept == [tp \in TP |-> IF tp \in assignment
                                  THEN commitOffsets[tp] ELSE NoOffset]
       IN  IF kept = NoOffsets
           THEN CommitEnd /\ UNCHANGED commitGen
           ELSE /\ commitPc' = "broker"
                /\ commitOffsets' = kept
                /\ commitGen' = generation
                /\ UNCHANGED <<commitOwner, commitWaiters>>
    /\ UNCHANGED <<brokerVars, trackVars, readOffset, flowVars, fetchVars,
                   seeking, streamVars, rebalVars, histVars>>

(* The answer of the broker: a commit of an older generation is refused    *)
(* ("already rebalanced"), during a rebalance it may be.                   *)
DidCommit ==
    IF commitGen # generation THEN {FALSE}
    ELSE IF rebalPc \in {"stable", "assigned"} THEN {TRUE} ELSE BOOLEAN

(* The end of _commit_offsets.  _committed_offset is updated whether or    *)
(* not the broker took the commit.                                         *)
CommitDone ==
    /\ commitPc = "broker"
    /\ \E did \in DidCommit :
          brokerCommitted' =
            [tp \in TP |-> IF did /\ commitOffsets[tp] # NoOffset
                           THEN commitOffsets[tp] ELSE brokerCommitted[tp]]
    /\ committedOffset' =
         [tp \in TP |-> IF commitOffsets[tp] # NoOffset
                        THEN commitOffsets[tp] ELSE committedOffset[tp]]
    /\ CommitEnd
    /\ UNCHANGED <<position, assignment, generation, acked, ackedIndex, gap,
                   commitGen, readOffset, flowVars, fetchVars, seeking,
                   streamVars, rebalVars, histVars>>

-----------------------------------------------------------------------------
(* Consumer.perform_seek, in two steps: the consumer thread looks the      *)
(* committed offsets up and moves the fetch positions, then the result is  *)
(* taken over into _read_offset and _committed_offset.                     *)

(* Where aiokafka starts to read: at the committed offset, else at the     *)
(* beginning (consumer_auto_offset_reset is "earliest").                   *)
StartPosition(tp) ==
    IF brokerCommitted[tp] = NoOffset THEN 0 ELSE brokerCommitted[tp]

SeekToCommitted(caller) ==
    /\ seeking' = [seeking EXCEPT ![caller] =
                     [tp \in TP |-> IF tp \in assignment
                                    THEN brokerCommitted[tp] ELSE NotSought]]
    /\ position' =
         [tp \in TP |-> IF tp \in assignment
                        THEN StartPosition(tp) ELSE position[tp]]

SeekApply(caller) ==
    LET found == seeking[caller]
    IN  /\ readOffset' =
             [tp \in TP |-> IF found[tp] = NotSought THEN readOffset[tp]
                                                     ELSE found[tp]]
        /\ committedOffset' =
             [tp \in TP |-> IF found[tp] \in {NotSought, NoOffset}
                            THEN committedOffset[tp]
                            ELSE IF found[tp] = 0 THEN NoOffset ELSE found[tp]]
        /\ seeking' = [seeking EXCEPT ![caller] = [tp \in TP |-> NotSought]]

-----------------------------------------------------------------------------
(* The fetcher: Consumer._drain_messages iterating over getmany.           *)

(* _wait_next_records: wait until the flow is resumed, then fetch.         *)
FetchStart ==
    /\ fetchPc = "idle"
    /\ flowActive
    /\ fetchPc' = "fetching"
    /\ UNCHANGED <<brokerVars, trackVars, readOffset, flowVars, commitVars,
                   batch, batchGen, current, seeking, streamVars, rebalVars,
                   histVars>>

(* Records the consumer thread can hand out for a partition, given by the  *)
(* position it leaves behind.                                              *)
NextPositions(tp) ==
    {position[tp]} \cup
        (IF tp \in active \cap assignment
         THEN {o + 1 : o \in {p \in Log[tp] : p >= position[tp]}} ELSE {})

Records(upTo) ==
    [tp \in TP |-> {o \in Log[tp] : position[tp] <= o /\ o < upTo[tp]}]

FetchPositions ==
    {upTo \in [TP -> NextOffset] :
        /\ \A tp \in TP : upTo[tp] \in NextPositions(tp)
        /\ Cardinality(UNION {{tp} \X Records(upTo)[tp] : tp \in TP})
             <= MaxPoll}

(* The fetch returns while the flow is active: getmany iterates over the   *)
(* records under the generation current at this point.                     *)
FetchReturn ==
    /\ fetchPc = "fetching"
    /\ flowActive
    /\ \E upTo \in FetchPositions :
          /\ position' = upTo
          /\ batch' = Records(upTo)
    /\ batchGen' = generation
    /\ fetchPc' = "iterate"
    /\ UNCHANGED <<brokerCommitted, assignment, generation, trackVars,
                   readOffset, flowVars, commitVars, current, seeking,
                   streamVars, rebalVars, histVars>>

(* The fetch returns after the flow was stopped: its records are dropped   *)
(* and the partitions are moved back to the committed offsets.             *)
FetchReturnStopped ==
    /\ fetchPc = "fetching"
    /\ ~flowActive
    /\ SeekToCommitted("fetcher")
    /\ fetchPc' = "seeking"
    /\ UNCHANGED <<brokerCommitted, assignment, generation, trackVars,
                   readOffset, flowVars, commitVars, batch, batchGen, current,
                   streamVars, rebalVars, histVars>>

FetcherSeekDone ==
    /\ fetchPc = "seeking"
    /\ SeekApply("fetcher")
    /\ fetchPc' = "idle"
    /\ UNCHANGED <<brokerVars, acked, ackedIndex, gap, flowVars, commitVars,
                   batch, batchGen, current, streamVars, rebalVars, histVars>>

(* Mutant: the message at the read offset counts as read.                  *)
FreshAfter(tp, o) == readOffset[tp] = NoOffset \/ o > readOffset[tp]

(* _drain_messages: is the message at or after the read offset?            *)
Fresh(tp, o) == readOffset[tp] = NoOffset \/ o >= readOffset[tp]

(* ... and does it leave a hole after it?                                  *)
HasGap(tp, o) == Truthy(readOffset[tp]) /\ o - readOffset[tp] > 1

(* Mutant: holes are not tracked.                                          *)
NoNewGap(tp, o) == {}

NewGap(tp, o) ==
    IF HasGap(tp, o)
    THEN GapInterval(committedOffset[tp], readOffset[tp] + 1, o) ELSE {}

(* getmany skips the records of a partition that is not active any more,   *)
(* and _drain_messages drops those below the read offset; what is left of  *)
(* the batch of a partition, and the records passed over to get there.     *)
Wanted(tp) == {o \in batch[tp] : tp \in active /\ Fresh(tp, o)}
PassedOver(tp) == {o \in batch[tp] : \A p \in Wanted(tp) : o < p}

(* getmany stops iterating: no record is left that is wanted, the flow was *)
(* stopped or the generation changed.                                      *)
FetchBreak ==
    /\ fetchPc = "iterate"
    /\ (\A tp \in TP : Wanted(tp) = {}) \/ ~flowActive \/ batchGen # generation
    /\ fetchPc' = "idle"
    /\ batch' = Empty
    /\ UNCHANGED <<brokerVars, trackVars, readOffset, flowVars, commitVars,
                   batchGen, current, seeking, streamVars, rebalVars, histVars>>

(* The next wanted record becomes a message, and the hole before it is     *)
(* added to the gap.  Records are iterated round-robin over the partitions *)
(* and passing over one does not suspend, so unwanted records of any       *)
(* partition may go with it.                                               *)
FetchNext(tp) ==
    /\ fetchPc = "iterate"
    /\ flowActive
    /\ batchGen = generation
    /\ Wanted(tp) # {}
    /\ LET o == Min(Wanted(tp))
       IN  /\ \E upTo \in [TP \ {tp} -> NextOffset] :
                 batch' = [t \in TP |->
                    IF t = tp THEN batch[t] \ (PassedOver(t) \cup {o})
                    ELSE batch[t] \ {p \in PassedOver(t) : p < upTo[t]}]
           /\ current' = {[tp |-> tp, offset |-> o, gen |-> generation]}
           /\ gap' = [gap EXCEPT ![tp] = @ \cup NewGap(tp, o)]
           /\ fetchPc' \in IF NewGap(tp, o) = {} THEN {"ready", "deliver"}
                                                ELSE {"merge"}
    /\ UNCHANGED <<brokerVars, acked, ackedIndex, committedOffset, readOffset,
                   flowVars, commitVars, batchGen, seeking, streamVars,
                   rebalVars, histVars>>

(* _add_gap after its sleep(0).  In "ready" the fetcher goes on to commit  *)
(* without a chance for other coroutines.                                  *)
GapMerge ==
    /\ fetchPc = "merge"
    /\ \E m \in current : gap' = [gap EXCEPT ![m.tp] = MergeOverlaps(@)]
    /\ fetchPc' \in {"ready", "deliver"}
    /\ UNCHANGED <<brokerVars, acked, ackedIndex, committedOffset, readOffset,
                   flowVars, commitVars, batch, batchGen, current, seeking,
                   streamVars, rebalVars, histVars>>

(* With broker_commit_every set the fetcher commits when enough messages   *)
(* were acked; here, at any message.                                       *)
FetcherCommit ==
    /\ fetchPc = "ready"
    /\ CommitCall("fetcher")
    /\ fetchPc' = "committing"
    /\ UNCHANGED <<brokerVars, readOffset, flowVars, batch, batchGen, current,
                   seeking, streamVars, rebalVars, histVars>>

FetcherCommitReturn ==
    /\ fetchPc = "committing"
    /\ CommitReturned("fetcher")
    /\ fetchPc' = "deliver"
    /\ UNCHANGED <<brokerVars, trackVars, readOffset, flowVars, commitVars,
                   batch, batchGen, current, seeking, streamVars, rebalVars,
                   histVars>>

(* wait_first(callback(message), suspend_flow.wait()): the callback puts   *)
(* the event on the stream queue once there is room.  When the flow is     *)
(* stopped the callback may be cancelled before it did.  The read offset   *)
(* moves in both cases.                                                    *)
Deliver ==
    /\ fetchPc = "deliver"
    /\ \E m \in current :
          /\ \/ Len(queue) < MaxQueue /\ queue' = Append(queue, m)
             \/ ~flowActive /\ queue' = queue
          /\ readOffset' = [readOffset EXCEPT ![m.tp] = m.offset]
    /\ current' = {}
    /\ fetchPc' = "iterate"
    /\ UNCHANGED <<brokerVars, trackVars, flowVars, commitVars, batch, batchGen,
                   seeking, inflight, rebalVars, histVars>>

-----------------------------------------------------------------------------
(* Streams and agents.                                                     *)

(* Consumer.ack of message m by the last stream that holds it.             *)
Ack(m) ==
    LET tp == m.tp
    IN  IF AckCounts(committedOffset[tp], ackedIndex[tp], m.offset)
        THEN /\ ackedIndex' = [ackedIndex EXCEPT ![tp] = @ \cup {m.offset}]
             /\ acked' = [acked EXCEPT ![tp][m.offset] = @ + 1]
        ELSE UNCHANGED <<acked, ackedIndex>>

(* A stream drops an event it takes while the flow is stopped, or that was *)
(* fetched under an older generation.                                      *)
Stale(m) == ~flowActive \/ m.gen # generation

(* Mutant: the event is acked before it is processed.                      *)
StreamTakeAcks(w) ==
    /\ queue # <<>>
    /\ inflight[w] = {}
    /\ ~Stale(Head(queue))
    /\ Ack(Head(queue))
    /\ inflight' = [inflight EXCEPT ![w] = {Head(queue)}]
    /\ queue' = Tail(queue)
    /\ UNCHANGED <<brokerVars, gap, committedOffset, readOffset, flowVars,
                   commitVars, fetchVars, seeking, rebalVars, histVars>>

(* An agent task takes the next event and starts processing it.            *)
StreamTake(w) ==
    /\ queue # <<>>
    /\ inflight[w] = {}
    /\ ~Stale(Head(queue))
    /\ inflight' = [inflight EXCEPT ![w] = {Head(queue)}]
    /\ queue' = Tail(queue)
    /\ UNCHANGED <<brokerVars, trackVars, readOffset, flowVars, commitVars,
                   fetchVars, seeking, rebalVars, histVars>>

(* A stale event is skipped.  The Python iterator acks skipped events, the *)
(* Cython one does not.                                                    *)
StreamSkip(w) ==
    /\ queue # <<>>
    /\ inflight[w] = {}
    /\ Stale(Head(queue))
    /\ queue' = Tail(queue)
    /\ IF Cython THEN UNCHANGED <<acked, ackedIndex>> ELSE Ack(Head(queue))
    /\ UNCHANGED <<brokerVars, gap, committedOffset, readOffset, flowVars,
                   commitVars, fetchVars, seeking, inflight, rebalVars,
                   histVars>>

(* The agent is done with its event: the stream acks it.                   *)
StreamFinish(w) ==
    /\ \E m \in inflight[w] :
          /\ processed' = [processed EXCEPT ![m.tp] = @ \cup {m.offset}]
          /\ Ack(m)
    /\ inflight' = [inflight EXCEPT ![w] = {}]
    /\ UNCHANGED <<brokerVars, gap, committedOffset, readOffset, flowVars,
                   commitVars, fetchVars, seeking, queue, rebalVars, crashes>>

-----------------------------------------------------------------------------
(* Rebalance.                                                              *)

(* Messages Consumer._unacked_messages holds: tracked when a stream takes  *)
(* them, until they are acked.                                             *)
Unacked == UNION {inflight[w] : w \in Workers}

Drop(f, tps, none) == [tp \in TP |-> IF tp \in tps THEN none ELSE f[tp]]

(* Consumer.on_partitions_revoked and App._on_partitions_revoked up to the *)
(* first await.  The coordinator revokes the whole assignment.             *)
Revoke ==
    /\ rebalPc = "stable" /\ fetchPc # "ready"
    /\ 0 < generation /\ generation < MaxGen
    /\ recovPc = "idle" \/ RebalanceAgain
    /\ gap' = Drop(gap, assignment, {})
    /\ acked' = Drop(acked, assignment, EmptyBag)
    /\ ackedIndex' = Drop(ackedIndex, assignment, {})
    /\ readOffset' = Drop(readOffset, assignment, NoOffset)
    /\ committedOffset' = Drop(committedOffset, assignment, NoOffset)
    /\ active' = active \ assignment
    /\ IF assignment # {}
       THEN /\ flowActive' = FALSE
            /\ paused' = paused \cup assignment
            /\ queue' = <<>>
            /\ rebalPc' = IF StreamWaitEmpty THEN "waitEmpty" ELSE "revoked"
       ELSE /\ rebalPc' = "revoked"
            /\ UNCHANGED <<paused, flowActive, queue>>
    /\ UNCHANGED <<brokerVars, commitVars, fetchVars, seeking, inflight,
                   recovPc, recovGen, histVars>>

(* Consumer.wait_empty: commit as long as messages are being processed ... *)
WaitEmptyLoop ==
    /\ \/ /\ rebalPc = "waitEmpty"
          /\ Unacked # {}
          /\ CommitCall("rebalance")
          /\ rebalPc' = "loopCommit"
       \/ /\ rebalPc = "loopCommit"
          /\ CommitReturned("rebalance")
          /\ rebalPc' = "waitEmpty"
          /\ UNCHANGED <<trackVars, commitVars>>
    /\ UNCHANGED <<brokerVars, readOffset, flowVars, fetchVars, seeking,
                   streamVars, recovPc, recovGen, histVars>>

(* Mutant: the last commit does not wait for the agents.                   *)
WaitEmptyDoneEarly ==
    /\ \/ /\ rebalPc = "waitEmpty"
          /\ CommitCall("rebalance")
          /\ rebalPc' = "finalCommit"
       \/ /\ rebalPc = "finalCommit"
          /\ CommitReturned("rebalance")
          /\ rebalPc' = "revoked"
          /\ UNCHANGED <<trackVars, commitVars>>
    /\ UNCHANGED <<brokerVars, readOffset, flowVars, fetchVars, seeking,
                   streamVars, recovPc, recovGen, histVars>>

(* ... and once more when none is.                                         *)
WaitEmptyDone ==
    /\ \/ /\ rebalPc = "waitEmpty"
          /\ Unacked = {}
          /\ CommitCall("rebalance")
          /\ rebalPc' = "finalCommit"
       \/ /\ rebalPc = "finalCommit"
          /\ CommitReturned("rebalance")
          /\ rebalPc' = "revoked"
          /\ UNCHANGED <<trackVars, commitVars>>
    /\ UNCHANGED <<brokerVars, readOffset, flowVars, fetchVars, seeking,
                   streamVars, recovPc, recovGen, histVars>>

(* The fetcher has nothing to run before its next await on I/O.            *)
FetcherParked ==
    /\ fetchPc \notin {"merge", "ready", "deliver"}
    /\ fetchPc = "committing" => ~CommitReturned("fetcher")

(* The worker joins the next generation and aiokafka resets the positions  *)
(* of its partitions.  Joining takes round trips to the broker, in which   *)
(* the loop runs everything that is ready to run.                          *)
Join ==
    /\ rebalPc = "revoked"
    /\ generation < MaxGen
    /\ FetcherParked
    /\ \E tps \in SUBSET TP :
          /\ tps # {} \/ MayIdle
          /\ assignment' = tps
          /\ position' =
               [tp \in TP |-> IF tp \in tps
                              THEN StartPosition(tp) ELSE position[tp]]
    /\ generation' = generation + 1
    /\ rebalPc' = "joined"
    /\ UNCHANGED <<brokerCommitted, trackVars, readOffset, flowVars, commitVars,
                   fetchVars, seeking, streamVars, recovPc, recovGen, histVars>>

(* Mutant: the partitions found paused are kept paused, and no recovery    *)
(* is signalled to resume them.                                            *)
OnAssignedOnly ==
    /\ rebalPc = "joined"
    /\ paused' = paused \cap assignment
    /\ active' = assignment \ paused'
    /\ rebalPc' = "stable"
    /\ UNCHANGED <<brokerVars, trackVars, readOffset, flowActive, commitVars,
                   fetchVars, seeking, streamVars, recovPc, recovGen, histVars>>

(* Consumer.on_partitions_assigned up to the first await in the app.       *)
OnAssigned ==
    /\ rebalPc = "joined"
    /\ paused' = paused \cap assignment
    /\ active' = assignment \ paused'
    /\ rebalPc' = "assigned"
    /\ UNCHANGED <<brokerVars, trackVars, readOffset, flowActive, commitVars,
                   fetchVars, seeking, streamVars, recovPc, recovGen, histVars>>

(* The rest of App._on_partitions_assigned: pause the partitions and let   *)
(* tables.on_rebalance signal the recovery task.                           *)
SignalRecovery ==
    /\ rebalPc = "assigned"
    /\ active' = active \ assignment
    /\ paused' = paused \cup assignment
    /\ recovPc' = "start"
    /\ recovGen' = generation
    /\ rebalPc' = "stable"
    /\ UNCHANGED <<brokerVars, trackVars, readOffset, flowActive, commitVars,
                   fetchVars, seeking, streamVars, histVars>>

(* The fetcher waits for the flow to be resumed, or is about to.           *)
FetcherAtRest == fetchPc \in {"off", "idle", "iterate"}

(* Recovery._resume_streams: nothing to do when there was another          *)
(* rebalance; otherwise partitions are resumed and moved to the committed  *)
(* offsets.                                                                *)
ResumeStreams ==
    /\ recovPc = "start"
    /\ FetcherAtRest \/ SlowFetcher
    /\ IF recovGen = generation /\ assignment # {}
       THEN /\ active' = active \cup assignment
            /\ paused' = paused \ assignment
            /\ SeekToCommitted("recovery")
            /\ recovPc' = "seeking"
            /\ UNCHANGED <<flowActive, fetchPc>>
       ELSE /\ recovPc' = "idle"
            /\ IF recovGen = generation
               THEN /\ flowActive' = TRUE
                    /\ fetchPc' = IF fetchPc = "off" THEN "idle" ELSE fetchPc
               ELSE UNCHANGED <<flowActive, fetchPc>>
            /\ UNCHANGED <<active, paused, seeking, position>>
    /\ UNCHANGED <<brokerCommitted, assignment, generation, trackVars,
                   readOffset, commitVars, batch, batchGen, current, streamVars,
                   rebalPc, recovGen, histVars>>

(* ... and the flow is resumed.                                            *)
ResumeFlow ==
    /\ recovPc = "seeking"
    /\ SeekApply("recovery")
    /\ flowActive' = TRUE
    /\ fetchPc' = IF fetchPc = "off" THEN "idle" ELSE fetchPc
    /\ recovPc' = "idle"
    /\ UNCHANGED <<brokerVars, acked, ackedIndex, gap, active, paused,
                   commitVars, batch, batchGen, current, streamVars, rebalPc,
                   recovGen, histVars>>

-----------------------------------------------------------------------------
(* The environment.                                                        *)

(* Another worker of the group owns the partition, processes its next      *)
(* message and commits.                                                    *)
OtherWorker(tp) ==
    /\ tp \notin assignment
    /\ \E o \in Log[tp] :
          /\ brokerCommitted[tp] <= o
          /\ \A p \in Log[tp] : brokerCommitted[tp] <= p => o <= p
          /\ processed' = [processed EXCEPT ![tp] = @ \cup {o}]
          /\ brokerCommitted' = [brokerCommitted EXCEPT ![tp] = o + 1]
    /\ UNCHANGED <<position, assignment, generation, trackVars, readOffset,
                   flowVars, commitVars, fetchVars, seeking, streamVars,
                   rebalVars, crashes>>

(* This worker dies and is started again; the group takes its partitions.  *)
Crash ==
    /\ crashes < MaxCrash
    /\ generation < MaxGen
    /\ crashes' = crashes + 1
    /\ acked' = [tp \in TP |-> EmptyBag]
    /\ ackedIndex' = Empty
    /\ gap' = Empty
    /\ readOffset' = NoOffsets
    /\ committedOffset' = NoOffsets
    /\ active' = {}
    /\ paused' = {}
    /\ flowActive' = FALSE
    /\ commitPc' = "idle"
    /\ commitOwner' = Nobody
    /\ commitWaiters' = {}
    /\ commitOffsets' = NoOffsets
    /\ commitGen' = 0
    /\ fetchPc' = "off"
    /\ batch' = Empty
    /\ batchGen' = 0
    /\ current' = {}
    /\ seeking' = [c \in Seekers |-> [tp \in TP |-> NotSought]]
    /\ queue' = <<>>
    /\ inflight' = [w \in Workers |-> {}]
    /\ rebalPc' = "revoked"
    /\ recovPc' = "idle"
    /\ recovGen' = 0
    /\ assignment' = {}
    /\ UNCHANGED <<brokerCommitted, position, generation, processed>>

Callbacks ==
    WaitEmptyLoop \/ WaitEmptyDone \/ Join \/ OnAssigned \/ SignalRecovery

Recovery == ResumeStreams \/ ResumeFlow

Fetcher ==
    \/ FetchStart \/ FetchReturn \/ FetchReturnStopped \/ FetcherSeekDone
    \/ FetchBreak \/ (\E tp \in TP : FetchNext(tp)) \/ GapMerge
    \/ FetcherCommitReturn \/ Deliver

Next ==
    \/ CommitHandler \/ CommitAttached \/ CommitDone
    \/ Fetcher \/ FetcherCommit
    \/ \E w \in Workers : StreamTake(w) \/ StreamSkip(w) \/ StreamFinish(w)
    \/ Revoke \/ Callbacks \/ Recovery
    \/ \E tp \in TP : OtherWorker(tp)
    \/ Crash

Spec == Init /\ [][Next]_vars

-----------------------------------------------------------------------------
(* At-least-once: a message the group will not read again was processed.   *)
(* Committing is what makes a message disappear, so every message below    *)
(* the committed offset of its partition has been through an agent.        *)
AtLeastOnce ==
    \A tp \in TP : \A o \in Log[tp] :
        o < brokerCommitted[tp] => o \in processed[tp]

(* Consumer.wait_empty, "Wait for all messages that started processing to  *)
(* be acked": when the worker is in a new generation, none of its agents   *)
(* is still busy with a message of an older one, whose partition another   *)
(* worker may own by then.                                                 *)
DrainedBeforeJoin ==
    \A w \in Workers : \A m \in inflight[w] : m.gen = generation

(* The index that makes ack() ignore a repeated offset never names an      *)
(* offset that is not waiting in the acked list: such an offset could      *)
(* never be acked, hence never be committed, again.                        *)
IndexMirrorsAcked ==
    \A tp \in TP : ackedIndex[tp] \subseteq OffsetsIn(acked[tp])

-----------------------------------------------------------------------------
(* Every coroutine that can run does, calls to the broker are answered,    *)
(* agents finish their events, a started rebalance completes, and the      *)
(* other workers make progress.  Rebalances, crashes and broker_commit_every *)
(* commits need not happen.  A fetch that keeps coming back eventually     *)
(* brings records if there are any.                                        *)
FetchSome == FetchReturn /\ batch' # Empty

Fairness ==
    /\ WF_vars(CommitHandler)
    /\ WF_vars(CommitAttached \/ CommitDone)
    /\ WF_vars(Fetcher \/ FetcherCommit)
    /\ SF_vars(FetchSome)
    /\ \A w \in Workers :
          WF_vars(StreamTake(w) \/ StreamSkip(w) \/ StreamFinish(w))
    /\ WF_vars(Callbacks)
    /\ WF_vars(Recovery)
    /\ \A tp \in TP : WF_vars(OtherWorker(tp))

FairSpec == Spec /\ Fairness

(* Every message is eventually processed.                                  *)
EventuallyProcessed ==
    \A tp \in TP : \A o \in Log[tp] : <>(o \in processed[tp])

(* Once all its messages are processed, the whole partition is eventually  *)
(* committed for good: no lag stays behind.                                *)
EventuallyCommitted ==
    \A tp \in TP : <>[](\A o \in Log[tp] : o < brokerCommitted[tp])

=============================================================================

# Faust: a TLA+ verification project

Faust is a stream-processing library for Python: a *worker* joins a Kafka
consumer group, reads topic partitions, hands every message to *agents* (async
generators over a stream), keeps *tables* backed by changelog topics, and
commits the offsets of the messages it is done with. This directory holds a
TLA+ model of the parts of a worker that decide which messages count as done,
which worker has which partition, and what a table holds; the TLC
configurations that check it on small instances, and theorems about it with
proofs checked by TLAPS. Paths below are relative to `src/`.

`PROJECT.json` is the index: components, runs, mutants, the map from
definitions to source lines, findings, hazards and theorems.

To check: `tlc -config ConsumerRebalance.cfg MCConsumer` (and so on for each
run) and `tlapm ConsumerProofs.tla` in this directory.

## 1. Inventory

A worker is one asyncio event loop. Code between two awaits that can suspend is
atomic; everything else interleaves. The aiokafka consumer runs in a second
thread with its own loop (`ThreadDelegateConsumer`) and is reached by
`call_thread`, which is always a suspension point. Group coordinator, brokers
and the other workers of the group are the environment.

| Component | State | Operations | Talks to |
|---|---|---|---|
| Consumer (`faust/transport/consumer.py`) | `_acked`, `_acked_index`, `_gap`, `_read_offset`, `_committed_offset`, `_unacked_messages`, active/paused/buffered partitions, `flow_active` | `ack`, `commit` and its helpers, `_drain_messages`, `getmany`, `perform_seek`, `wait_empty`, pause/resume, `on_partitions_revoked/assigned`, `on_buffer_full/drop` | driver (thread), conductor callback, streams (ack), app (callbacks), attachments |
| Conductor, channels, topics (`transport/conductor.py`, `channels.py`, `topics.py`) | topic to channels index, queue of each channel, reference count of a message | fan-out of a message, decode errors, pressure callbacks, resubscription | consumer, streams |
| Streams and events (`streams.py`, `_cython/streams.pyx`, `events.py`) | the event being processed, `_on_message` / ack state | iterate, skip stale events, ack on `finally`, `take`, `group_by` | queue, consumer, agents |
| Agents (`agents/*.py`) | actors, supervisors, assigned partitions | start/stop/restart, isolated partitions, reply to | streams, producer |
| Agent replies (`agents/replies.py`) | `BarrierState`, reply promises by correlation id | ask, map, join, fulfil | topics |
| App rebalance callbacks (`app/base.py`) | `rebalancing`, `consumer_generation_id`, flow control | `_on_partitions_revoked`, `_on_partitions_assigned` | consumer, agents, tables, conductor, producer |
| Table recovery (`tables/recovery.py`) | signals, highwaters, offsets of active and standby partitions, buffers | rebalance signal, restart, build highwaters/offsets, slurp, resume streams | tables, consumer, app |
| Tables and changelogs (`tables/*.py`), stores (`stores/*.py`), windows (`windows.py`) | key/value store, persisted offset, changelog, window expiry heaps | set/del, changelog on commit, apply batch, window delete | producer, recovery, streams |
| Assignor (`assignor/*.py`) | none between calls | copartitioned assignment of actives and standbys, leader assignment, cluster metadata | coordinator |
| Attachments (`app/_attached.py`) | heap of pending sends per partition | put, publish up to an offset | streams, `Consumer.commit`, producer |
| Producer and buffer (`transport/producer.py`, driver) | pending queue, in-flight count | send, flush, wait until ebb | topics, attachments |
| Transactions (`TransactionManager` in `transport/consumer.py`) | one transactional producer per partition group | begin, commit, abort, sync with assignment | consumer, producer |
| aiokafka driver (`transport/drivers/aiokafka.py`) | `AIOKafkaConsumer`, livelock timestamps per partition | fetch, seek, commit, `verify_event_path` | Kafka |
| LiveCheck, web, sensors, models/serializers, CLI, settings | – | – | – |

What is hard about it, and what correctness means for each part:

* **Consumer.** Acks arrive in any order, with holes in the log (compaction,
  transaction markers); five coroutines (fetcher, commit handler, rebalance
  callback, recovery task, agent tasks) share the bookkeeping and suspend in
  the middle of using it. Correct: nothing is committed before it is processed;
  everything processed is eventually committed; a new generation starts with no
  message of the last one in an agent.
* **Attachments.** The producer must have been told of what was sent for a
  message, written or given up, before the message is committed, over refused
  commits, rebalances, crashes.
* **Conductor and channels.** One message goes to several channels with one
  reference count; puts to full queues run concurrently; back pressure takes a
  partition out of the fetcher and must bring it back. Correct: a message is
  acked to the consumer only when the last channel is done with it, and always
  then.
* **Recovery.** A new rebalance can arrive at any await of the recovery task,
  and requests to the broker may time out. Correct: streams only resume when
  every active table has the changelog up to its highwater, and always
  eventually do.
* **Assignor.** Correct: copartitioned topics get the same partitions, capacity
  is respected, no standby shares a worker with its active, assignments stick.
* **Tables and stores.** Correct: what the store holds is what replaying the
  changelog up to the persisted offset gives.
* **Transactions and producer buffer.** Correct: offsets and sends of a
  partition group are committed together; no event is skipped; the buffer drains.
* **Agents and replies.** Correct: a crashed agent is restarted with its
  partitions; a barrier is fulfilled once, when all replies are in.

The main hazards, at the line where they bite, are listed in `PROJECT.json`
under `hazards` with the property that would catch each.

## 2. Modules

```
OffsetTracking          pure bookkeeping of one partition (operators)
   |
Consumer                the worker: fetcher, streams, commit, rebalance
   |
Attachments             Consumer + sends held back until commit
Delivery                conductor fan-out to several channels
Take                    batches: Stream.take and noack_take
Recovery                tables after a rebalance, standbys
Windows                 hopping windows (operators)
   |__ Table            table, changelog, producer buffer, stores
Assignor                the leader's assignment, round after round
AtomicCommit            what exactly_once promises (abstract)
   |__ Transactions     workers with transactional producers, refines it
Agents                  actors of isolated partitions, conductor index
Replies                 ask/join/map and their barrier
```

Modules whose constants take more than values of a configuration have a module
`MC...` with instances for TLC; the others are run themselves. The lemmas about
`OffsetTracking` and the theorems about `Consumer` and `Attachments` are in
`ConsumerProofs`; those about `Agents` and `Replies` in `AgentsProofs` (the
definitions of `Replies` carry `Ask` in their names, so that one module can extend
both); those about `Delivery`, `Take`, `Recovery`, `Table`, `Assignor` and
`Transactions` in modules of the same name with `Proofs` after it.

### OffsetTracking — `transport/consumer.py`, one partition

`_acked` is a Python list that is sorted before each use and may hold an offset
several times, so it is a bag `[Offset -> Nat]`; `_acked_index` is a set; `_gap`
is an `IntervalTree`, modelled as a set of half-open intervals with the three
operations the consumer uses (`Overlap`, `Chop`, `MergeOverlaps`, external).
`NewOffset` is the whole of `_new_offset` including what it changes when it
returns `None`; `AckCounts`, `GapInterval`, `ConsecutiveRun` and `ShouldCommit`
are `ack`, `_add_gap`, `consecutive_numbers` and `_should_commit`. `NoOffset`
stands for `None`; `Truthy` keeps Python's confusion of `None` and `0`.

### Consumer — the worker

| Model | Code |
|---|---|
| `CommitCall`, `CommitAttached`, `CommitDone`, `CommitHandler` | `Consumer.commit`, `maybe_wait_for_commit_to_finish`, `_commit_tps`, `_commit_offsets`, `_commit_handler` |
| `FetchStart` ... `Deliver` | `_wait_next_records`, `getmany`, `_drain_messages`, `_add_gap`, the conductor callback |
| `SeekToCommitted`, `SeekApply` | `perform_seek` (the lookup in the thread, then the update in the main loop) |
| `StreamTake`, `StreamSkip`, `StreamFinish` | `_c_aiter`/`_py_aiter`, `Message.ack`, `Consumer.ack` |
| `Revoke`, `WaitEmptyLoop`, `WaitEmptyDone` | `Consumer.on_partitions_revoked`, `App._on_partitions_revoked`, `wait_empty` |
| `Join` | the coordinator and aiokafka (external) |
| `OnAssigned`, `SignalRecovery` | `Consumer.on_partitions_assigned`, `App._on_partitions_assigned`, `Recovery.on_rebalance` |
| `ResumeStreams`, `ResumeFlow` | `Recovery._resume_streams` |
| `OtherWorker`, `Crash` | the rest of the group; death and restart of the process |

Decisions worth knowing when reading it:

* The assignment is revoked as a whole (eager rebalancing, the only protocol the
  assignor offers). Fetch positions go back to the committed offset, or to the
  beginning, on `Join` and on a seek.
* `flowActive` stands for `consumer.flow_active` and `app.flow_control`, which
  the callbacks stop and resume together.
* The fetch in the consumer thread and the resumption of the main loop are one
  step (`FetchReturn`, `FetchReturnStopped`): the flow test comes after both.
* Records that `getmany` or `_drain_messages` pass over do not suspend, so they
  go together with the next wanted record.
* `Join` waits until the fetcher has no step ready to run (`FetcherParked`):
  joining takes round trips to the broker, during which the loop runs every
  ready callback.
* With `SlowFetcher = FALSE` the recovery task resumes the streams when the
  fetcher has finished the seek it makes on finding the flow stopped
  (`FetcherAtRest`). Nothing in the code makes it wait for that.
* `broker_commit_every` commits are allowed at any message. The commit handler
  may run at any time.
* `perform_seek` is answered: that `on_recovery_completed` gives up on it after
  `broker_request_timeout` is left out here (in `Recovery` the resumption of the
  streams does not wait for it).
* A broker refuses a commit of an older generation; while the group rebalances
  it may take or refuse one of the current generation.
* `_unacked_messages` (a WeakSet) is the set of messages held by agent tasks.
* The tables are empty: the recovery task goes straight to `_resume_streams`.
* The conductor has one channel for each topic; several channels and back
  pressure are the subject of `Delivery`.

### Attachments — `app/_attached.py`

Extends Consumer with `stream_publish_on_commit`: `Put` is a send by an agent
while it processes an event; `HandleAttached` and `PublishNext` are
`_handle_attached` going through the partitions of a commit, one
`publish_for_tp_offset` after another, waiting for the producer in between;
`Confirmed` and `SendError` are `Topic._on_published`. A delivery the producer
gives up on is logged and sets an exception on its promise; `wait_many` does not
raise, so the commit goes on. So the model keeps two histories, what the
producer was told of (`reported`) and what was written (`written`). Every agent
sends one message for each event. A revoke leaves `_pending` alone, as in the
code.

### Delivery — `transport/conductor.py`, `_cython/conductor.pyx`

What happens between the fetcher and the acks when several channels subscribe to
a topic. `OnMessage` is the message callback: the loop over the channels does
not suspend (decoding has no real await), so it is one step that counts the
references, fills the queues with room, and then either throws a decode error
into all channels not served yet and drops their references, or starts a task
for every full queue (`HandleFull`) and waits for all of them. `StreamTake`,
`StreamSkip` and `StreamFinish` are the Cython iterator with its inlined
`Message.ack`; `StreamError` is a thrown decode error, after which the supervisor
starts the agent again on the same channel. `PressureHigh` and `OnPressureDrop`
are the two callbacks handed to the queue, which end in
`Consumer.on_buffer_full` and `on_buffer_drop`. A callback is built anew for
each assignment, so pending drops are named by partition and generation.
`Revoke` and `Resume` stand for a whole rebalance: the queues are cleared, the
callback is cancelled but not its tasks, `wait_empty` waits until no tracked
message is held by anyone (a WeakSet), and reading starts again at the first
message that is not acked. The order in which Python iterates over the set of
channels is arbitrary but fixed (`order`).

The queue is part of the `mode` library and modelled from its use: it reports
high pressure once, until it has drained to the low mark, and a put goes on as
soon as there is room. Whether clearing a queue wakes a waiting put is not
visible in this repository; if it did not, a rebalance could wait for a message
that such a put keeps alive (recorded as a hazard).

### Take — `streams.py`

`take`, `take_events`, `take_with_timestamp` and `noack_take` are one algorithm
(the variable `manual` tells the last from the others, `within` whether there is
a timeout). Two tasks share a buffer: the *drainer* (`_passive_drainer` over the
stream's iterator: `Start`, `Get`, `Process`, `After`) and the generator the agent
iterates over (`Yield`, `Finish`). The model keeps the future `buffer_consuming`
and the two events apart, the list of processors with the place of the loop in
it, and `enable_acks`, which the iterator reads before it waits for an event.
Between two awaits the drainer is not interrupted (`Suspended`). When the agent
raises (`Error`), `aclose()` of the generator (`Close`) and the supervisor's
restart (`Restart`) come in either order.

### Recovery — `tables/recovery.py`

The main task (`_restart_recovery`) and the slurp task (`_slurp_changelogs`)
share signals, highwaters, offsets and buffers, and rebalance callbacks cut in
at every await. A partition of the table stands for its changelog partition and
for the source partition; the store is the set of changelog offsets it holds.
RocksDB, so store and persisted offset survive a crash. Other workers write to
the changelog while this one does not have the partition active. Two constants
widen the interleavings: with `Prompt = FALSE` the tasks run in the middle of the
assigned callback, before `on_rebalance` has told them of it; with
`LateResume = TRUE` recovery may resume the flow while the group rejoins.

Each wait of `_restart_recovery` goes through `_wait`: it ends with the answer
(`Step`), with a new rebalance (`Again`) or, when `broker_request_timeout` is
over, without either (`Expire`), and then the task goes on as if it had been
answered. The actions `...Timeout` say what each wait leaves undone: highwaters of
an earlier round or none, offsets that are still `None`, a position that was not
sought. What follows from that is in the code: `need_recovery` compares what it
finds, the consistency check (on by default) raises and ends the worker, and so
does a seek to `None` (`RecoveryFails`, `StandbyHwFails`). Two waits lose nothing by a
timeout: the flush of the producer and the last seek of the source partitions. A
request is cancelled when its wait is over; an effect it has in the consumer
thread later still is left out.

### Windows and Table — `windows.py`, `tables/base.py`, `tables/table.py`, `transport/producer.py`, `stores/`

One partition of a table with hopping windows: an event sets or deletes an entry
in all windows of its timestamp, each with a changelog record that goes through
`ProducerBuffer`, the Kafka producer and the answer that updates the persisted
offset (`OnChangelogSent`). Expiry pops entries off a heap of timestamps, the oldest window first, one at a
time: `on_window_close` is awaited after each, and a late event can come in
between.
Commits flush as the code does: buffer first, then producer. After a crash,
recovery applies the changelog from the persisted offset in batches, as the
memory store (updates, then deletions) or RocksDB (in order).

### Assignor — `assignor/`

One group of copartitioned topics, step by step as in `CopartitionedAssignor`:
unassign what is over capacity, resolve claims to one partition, then hand out
the rest round robin, standbys of a partition first for actives. What a member
claims is what it got last, which for a restarted one is nothing and for one
that missed an answer is old; it is read from the first topic of the group that
has partitions, for actives and for standbys, so that with a global table a
member with none of a kind claims all. What Python does with `sorted()` and with a nested
comprehension, `Sorted` states without recursion: the i-th of a set is the one
with i - 1 members before it.

### Transactions and AtomicCommit — `transport/consumer.py`, `transport/drivers/aiokafka.py`

Workers of one group with `exactly_once`: transactional producers by partition,
epochs and fencing (external), records sent directly and through the producer
buffer, commits of offset and records together, crashes, and members the group
has given up without their knowing. A rebalance is as long as in the code.
`Revoke` forgets `_acked` and `_committed_offset`; agents then finish, and their acks
land in fresh state; `EndTransactions` is `commit_and_end_transactions`, which
ends the transactions it has something to commit in, or does nothing if another
commit is under way; `Drained` is the flush, which may give up. So a transaction
may be open when the worker joins, is gone on with by `Begin`, and after `Seek` gets
the records of the same events again. The log is a sequence, so that a record
that is there twice shows.

`AtomicCommit` is what is left of the promise: offset and records of a partition
move in one step, and the offset never to where the record of an event before it
is missing. `CommitsAtomically` is the refinement (`INSTANCE AtomicCommit WITH`
`written`, the events whose agents send records themselves, read off the
committed log). A record twice, and an offset that is moved back, are allowed.
With `Leftovers = TRUE` a worker may be given a partition back while it still has
acks, a commit or a committed offset from before; the run and two of the theorems
assume that it is not.

### Agents — `agents/`, `transport/conductor.py`

An agent with isolated partitions: the actor started at boot takes the first
partition, others get one of their own, a revoked one is stopped, a crashed one
replaced by the supervisor on the same stream. The replacement is not entered in
`_actor_by_partition`; the entry of the dead actor stays, because the beacon tree
of the `mode` library keeps it alive (an assumption about that library). So a
revocation waits for and cancels the dead actor. It reaches the replacement by
what it throws into the channel they share: one that waits for an event ends, one
that is busy goes on to the end of its event (`Stopped`, `Finish`). `UpdateTpIndex` is the conductor's index
of channels; its assertion fails whenever an isolated partition was revoked and
others are left (see section 3), which crashes and restarts the worker.

### Replies — `agents/replies.py`, `agents/agent.py`

`join` and `map` over N requests: the caller sends, registers and waits or
iterates, the agent replies in any order, `_drain_replies` fulfils the barrier.
Request, correlation id and result are one number.

## 3. Runs

All runs check deadlock off: a worker with nothing to read and no rebalance left
within the bounds really is at rest.

| Run | Instance | Shows |
|---|---|---|
| `consumer_rebalance` | 1 partition with offsets 0, 1, 4 (2 and 3 compacted away), 1 agent task, 3 generations, 1 crash, fairness | `TypeOK`, `AtLeastOnce`, `DrainedBeforeJoin`, `IndexMirrorsAcked`, `EventuallyProcessed` |
| `consumer_steady` | 2 agent tasks, a hole, no rebalance, fairness | `EventuallyCommitted` |
| `attach_partitions` | 2 partitions of different length moving between workers and committed together, 2 generations, 1 crash | `AtLeastOnce`, `ReportedBeforeCommitted` |
| `delivery` | 2 channels with queues of 2, 2 partitions, one message one channel cannot decode, 2 generations, fairness | `TypeOK`, `AckedAfterAll`, `ReferencePerHolder`, `EventuallyAcked`, `FetchedAgain` |
| `take` | 7 events, one filtered, batches of 2, 2 errors, fairness | `TypeOK` (with the size of a batch), `InOrder`, `AckedAfterDone`, `EventuallyAcked` |
| `recovery` | an active partition that comes and goes beside a standby, 2 records each, 3 generations, 1 crash, 1 timeout, the flow resumed at any time, fairness | `TypeOK`, `ServedComplete`, `PersistedCovered`, `EventuallyServed` |
| `table` | memory and RocksDB, windows of 2 with step 1, 2 events, 1 fault, fairness | `TypeOK`, `TableIsLog`, `KeptUntilExpired`, `EventuallyCommitted` |
| `assignor` | 3 clients, 3 partitions, 1 standby each, a global table, 2 rounds, 1 missed answer, fairness | `TypeOK`, `NeverFails`, `Balanced`, `Sticky`, `PromotesStandby`, `Terminates` |
| `transactions` | 2 workers, 1 partition, 2 events (one in a table), 1 fault, fairness | `TypeOK`, `OwnerKnows`, `CommitsAtomically`, `EventuallyCommitted` |
| `agents` | 3 isolated partitions, 4 rebalances, 2 errors, fairness | `OneActor`, `StoppedForGood`, `EventuallyRead` |
| `replies` | 4 requests, queue of 5, fairness | `Answered`, `EventuallyReturned` |

`consumer_concurrency` is expected to violate `AtLeastOnce`: with two agent tasks
a message acked out of order is committed together with the one before it
(`PROJECT.json` quotes what the documentation says).

`RecoveryServed.cfg` checks `ServedComplete` and `PersistedCovered` once more, in the
circumstances of the theorems about `Recovery`: an active partition and a standby
that both come and go, also together.

Further configurations reproduce other places where the code departs from what
the repository says of it. They are kept beside the runs, and each violates its
property:

| Configuration | Module, property | What happens |
|---|---|---|
| `ConsumerPython.cfg` | MCConsumer, `AtLeastOnce` | The pure Python iterator acks the events it skips (`streams.py:1231`), and they are committed unprocessed. |
| `ConsumerRebalanceAgain.cfg` | MCConsumer, `AtLeastOnce` | The recovery task of one rebalance resumes the flow in the middle of the next (`tables/recovery.py:325`). |
| `ConsumerIdle.cfg` | MCConsumer, `AtLeastOnce` | The flow of a worker without partitions is not stopped in a rebalance (`app/base.py:1688`); messages below a stale read offset are dropped. |
| `ConsumerZeroHole.cfg` | MCConsumer, `EventuallyCommitted` | A hole after offset 0 is not tracked (`transport/consumer.py:1199`), and the partition is not committed any more. |
| `ConsumerRefused.cfg` | MCConsumer, `EventuallyCommitted` | A refused commit is recorded as committed (`transport/consumer.py:1068`); redelivered messages are acked to no effect. |
| `ConsumerSlowFetcher.cfg` | MCConsumer, `AtLeastOnce` | The fetcher looks up committed offsets for a seek (`transport/consumer.py:768`), a commit is made, and the answer is applied after the streams were resumed: read and committed offsets move back, and the next record seems to follow a hole. |
| `AttachEarly.cfg` | MCAttachments, `PublishedWhenAcked` | Attachments of the next, unprocessed message are published with a commit (`app/_attached.py:213`). |
| `AttachLost.cfg` | MCAttachments, `WrittenBeforeCommitted` | A delivery that failed is logged (`topics.py:462`), and the offset is committed all the same (`transport/consumer.py:1025`): what the agent sent for the event is lost. |
| `TakeError.cfg` | Take, `OnlyAfterConsumed` | When the agent raises, closing its `take()` turns acks on again while the drainer goes on (`streams.py:391`): events are acked that no agent has seen. |
| `RecoveryStandby.cfg` | MCRecovery, `StandbyExact` | `flow_control.resume()` (`tables/recovery.py:645`) empties the changelog queue with records of standbys in it, which are never applied. |
| `RecoveryTimeout.cfg` | MCRecovery, `TablesComplete` | The request for the highwaters times out (`tables/recovery.py:600`): recovery goes on with none, takes the tables for complete and serves the streams from them. |
| `RecoveryLateResume.cfg` | MCRecovery, `PersistedCovered` | A revoke during the seek of the actives goes unnoticed (`tables/recovery.py:442`), the flow is resumed while the group rejoins, and changelog records of the old generation are applied in the new one: the persisted offset passes over a record. |
| `TableCommit.cfg` | Table, `CommittedLogged` | The flush before a commit gives up after 0.1 seconds (`transport/producer.py:67`): a crash then loses table changes of committed events. |
| `Assignor.cfg` with `Replicas = 0` | MCAssignor, `Sticky` | "Maintain existing assignments as long as within max_capacity for each client" (`assignor/copartitioned_assignor.py:20`) is not kept without standbys: `get_assignment` cuts every client down to `min_capacity` (line 76), and the round robin need not give the partition back to the one it was taken from. |
| `TransactionsOnce.cfg` | Transactions, `WrittenOnce` | A rebalance forgets acks before it waits for the agents (`transport/consumer.py:645`), and the transaction stays open over it: the event is processed again and its record written twice, without a crash. |
| `TransactionsLeft.cfg` | Transactions, `CommitsAtomically` | Acks of a partition that was taken away are kept, and are committed when the worker gets it back, after its transaction was aborted. |
| `TransactionsCount.cfg` | Transactions, `CountsConsistent` | A transactional commit does not flush the buffer (`transport/consumer.py:1055`): the count of a committed event may get lost. |
| `AgentsBusy.cfg` | Agents, `RevokedStopped` | "for isolated_partitions agents we stop agents for revoked partitions" (`agents/manager.py:117`): a replacement that is busy is neither waited for nor cancelled (`agents/agent.py:294`). |
| `AgentsIndex.cfg` | Agents, `IndexAssertion` | Nothing takes the channel of a revoked isolated partition out of the conductor: `assert topic.active_partitions.issubset(assigned)` (`transport/conductor.py:380`) fails and the worker crashes. |
| `RepliesFull.cfg` | Replies, `EventuallyReturned` | `join` with as many requests as the barrier's queue holds (1000) never continues (`agents/replies.py:118`), and the reply task ends. |

So the passing runs state the circumstances in which the promises hold. For the
consumer: one agent task per topic, the Cython iterator, rebalances that do not
overlap with recovery, a fetcher that is done seeking when the streams are
resumed, and a non-empty assignment (`Workers`, `Cython`, `RebalanceAgain`,
`SlowFetcher`, `MayIdle`). For recovery: the flow is not resumed while the group
rejoins (`LateResume`; with one active partition, as in the run, it may be); no
await between the start of the assigned callback and `Recovery.on_rebalance` lets
the tasks in, or no assignment is empty (`Prompt`, `Assignments`); and no
partition is active here at one time and a standby at another (`Assignments`; a
standby may have holes, see `RecoveryStandby.cfg`, and keeps them when it is
promoted). `ServedComplete` and `PersistedCovered` are claimed until a wait of
recovery times out; `TypeOK` and `EventuallyServed` also after that. For
transactions: a worker has nothing left of a partition that it is given back
(`Leftovers`). For tables: no values that Python takes for false (`Falsy`; the memory
store drops them in recovery). For `take`: acks are claimed up to the first error.
For the assignor, and only for what clients keep: there are standbys (`Replicas`).
For replies: no reply comes twice, or
before the barrier is registered for it (`MaxDup`, `EarlyReply`). For agents: no
assignment without partitions (`MayIdle`; a stale channel would be indexed
beside the new one). Each is one constant, and TLC refutes a property when it
has another value.

**Bounds.** Two or three generations are enough for a message fetched under one
to be acked, committed or delivered under the next and for a refused commit to
meet the seek of the generation after it; three messages (before, at and after a
hole) for every order of acks around a gap; a queue of one or two for the
fetcher to block on it; one crash because a crash resets everything but the
broker. `MaxPoll` of two makes a batch span a rebalance. None of the named
bounds is in the code, apart from `MaxQueue` and `MaxSize`
(`stream_buffer_maxsize`). In `delivery` three messages fill a queue of two and
leave one to wait, in either order of the channels; with the undecodable one
among them, a decode error meets a full queue; the second generation refetches
what the first left in queues, tasks and streams. In `take`, batches of two make
full and partial buffers, and seven events leave some after each of two errors.
In the recovery runs two records and buffers of one and two make a partition stop
in the middle of a buffer; three generations let a record that was read in the
first be applied in the second and served in the third. In `table` two events
reach every combination of set and delete in overlapping windows and `BatchMax` of
two batches of several kinds. In `assignor` three clients with three partitions have capacities that differ for
two members and not for three, and the second round meets claims of all kinds.
In `recovery` one timeout meets any of the waits in any of the generations; the
last generation takes none after which the worker would die, for there is no
further one to join. In `transactions` one fault is a crash, a late member or a
flush that gives up, among the rebalances of workers that join, go and come back;
two partitions are out of TLC's reach with two workers.

**Fairness.** Weak fairness for each coroutine (asyncio runs ready callbacks in
FIFO order), for answers of the broker and for agents that finish their events;
strong fairness for a fetch that returns records, since a fetch that is
repeated often enough finds what is in the log, and in `Take` for the tasks that
run whenever the drainer waits. Rebalances, crashes and `broker_commit_every`
commits need not happen. A started rebalance is completed, a crashed worker
restarted and a failed agent replaced (by the default `OneForOneSupervisor`).
In `Recovery` the tasks are only promised to run while no callback does.
`EventuallyCommitted` of `Consumer` does not hold with rebalances because of
`ConsumerRefused.cfg`.

Not stated as a property: that the committed offset of a partition never moves
back at the broker. `on_partitions_revoked` forgets `_committed_offset` before
`wait_empty` commits, so that those commits are not compared with earlier ones,
with transactions or without. Nor that with transactions a record is written
once, see `TransactionsOnce.cfg`.

**Mutants.** Each property of each passing run has a mutant, a definition next
to the one it changes (marked "Mutant"), which makes TLC report the property.

## 4. Proofs

`ConsumerProofs` begins with what the rest needs of the operators of
`OffsetTracking`: `NewOffset` returns well-typed bookkeeping (so a batch never
removes an offset the acked list does not hold, and the offset returned is at
most one past the last), its index stays below its acked list, and an offset it
returns only passes over acked offsets and over gaps.

It then proves, for any set of partitions, any number of agent tasks,
any log, any order of events and all bounds:

* `TypeCorrect`: `Spec => []TypeOK`. `TypeOK` is inductive.
* `IndexCorrect`: `Spec => []IndexMirrorsAcked`. Inductive together with
  `TypeOK`; the substance is in `NewOffset`, where a gap that overlaps acked
  offsets puts a second copy into the list, and a run takes one copy out.
* `DrainCorrect`: with `StreamWaitEmpty`, `~RebalanceAgain` and `~MayIdle`,
  `Spec => []DrainedBeforeJoin`. The invariant is not inductive: a step into a
  new generation preserves it only if no agent is busy, which follows from
  `wait_empty` having seen that and from the flow being stopped since.
  `DrainInv` adds that: between the last commit of `wait_empty` and the new
  assignment all agents are idle; the flow is stopped whenever the group is not
  stable; the recovery task only runs in a stable group; and a member's
  assignment is not empty. The three assumptions are used for exactly these
  conjuncts.
* `AtLeastOnceCorrect`: with `Orderly` (one agent task, the Cython iterator,
  `StreamWaitEmpty`, `~RebalanceAgain`, `~SlowFetcher`, `~MayIdle`),
  `Spec => []AtLeastOnce`. The invariant `PipeInv` is about the *order* of the
  pipeline: a message on its way is in the batch, with the fetcher, in the queue
  or in the agent, and whatever comes before it in the log is settled or further
  ahead (`OrderInv`). So the messages before one that is acked are settled, and
  so are those below any offset that is acked, committed or sought
  (`SettledInv`). A gap ends with the message that showed the hole and contains
  no message but, possibly, its first, and no acked offset lies inside it
  (`GapInv`); with that, a run of acked offsets and gaps reaches no message that
  is not settled. `FetchInv`, `PhaseInv` and `ReadInv` say what the fetcher holds
  and what a rebalance leaves of the generation before it. The settled offsets
  are a parameter `H`, here those processed.
* `ReportedBeforeCommittedCorrect`: under the same hypothesis,
  `AttachSpec => []ReportedBeforeCommitted`. A behaviour of `Attachments` is one of
  `Consumer` (`AttachRefines`, a step at a time), which gives `TypeOK` and what
  does not depend on `H`; `PipeInv` is then proved again with `H` the offsets
  whose answers are attached, published or reported. `AttachInv` adds what a
  commit has published so far, that what is committed was reported, and that an
  agent which has sent is still at its event.

For the other modules the invariant a theorem needs was first checked by TLC on
the configuration of the run, and is stated, part by part, at the head of the
proof module. No bound of section 3 matters to the proofs: partitions, channels,
workers, messages, sizes and the number of rebalances, crashes and errors are
arbitrary.

`DeliveryProofs`: `TypeCorrect`, `ReferenceCorrect` (`ReferencePerHolder`),
`AckedCorrect` (`AckedAfterAll`). `DeliveryInv` says that a channel has a message at
one place only; that a message is fetched once in a generation; and, the heart of
it, that for each message there is a set of channels with as many elements as the
message has references, which includes all that hold it, is equal to them for
current messages, and outside of which every channel has served the message. A
rebalance that clears queues takes channels from the holders and not from the
set, which is why equality is lost there, and why a message that was cleared is
never acked too early.

`TakeProofs`: `TypeCorrect` (with the size of a batch), `InOrderCorrect`,
`AckedCorrect`. `TakeInv` follows the two tasks: only the newest generator is read;
after an error there are at most two processors, the one that was left first, so
that the drainer waits for its buffer and never reaches the second with the same
event; a full buffer keeps the drainer waiting until it has been consumed; and all
that was delivered or buffered is older than the event at hand.

`RecoveryProofs`: `TypeCorrect`, without any hypothesis and for timeouts at any
wait, and with `Undisturbed` (the circumstances of section 3)
`PersistedCoveredCorrect` (`PersistedCovered`) and `ServedCompleteCorrect`
(`ServedComplete`). Both speak of the time before the first timeout, and so is the
invariant: `timeouts = 0 => RecoveryInv`, kept by every step that is answered
(`Answered`) and trivially by the others. `RecoveryInv` has `KnownInv`, that
whatever `_seek_offsets` uses has an offset, although `_add` starts with `None` and
signals drop out of the sequence at every await (after a timeout this fails, and
the worker dies of it). It adds `BoundInv` (nothing goes beyond the end of the changelog),
`RoleInv` and `PhaseInv` (what a rebalance leaves of the last generation),
`CoverInv` (an active partition is read without a hole: what lies below the
persisted offset is in the store, what lies below the offset in memory in the
store or the buffer, what lies below the position or below a queued record there
or in the queue), `BufferInv` (where the buffer can be left with records in it)
and `RoundInv` (a round that no rebalance has overtaken has the store complete
from the end of the reading to the resumption of the streams). Of the hypotheses,
`~LateResume` keeps records of one generation from being applied in the next,
`Prompt` (or a non-empty assignment) keeps the tasks from acting on the
partitions of the last generation, and the constancy of roles is what holes in
standbys require.

`TableProofs`: `TypeCorrect`, `KeptCorrect` (`KeptUntilExpired`) and, when events
write no false values or the store is RocksDB, `TableIsLogCorrect` (`TableIsLog`).
The argument is an algebra of `LastVal`: records applied one sequence after the
other (`LastValConcat`), applied twice (`LastValTwice`) or overridden
(`LastValHas`). A record that moves on towards the changelog changes no replay.
`RecoveryInv` says that the rest of the changelog, applied to the entries as they
are, gives what the whole of it gives. A crash establishes it for any persisted
offset, since applying a suffix again is idempotent, and each batch keeps it.
`KeptCorrect` rests on floor division: the current window never starts after the
time it is asked for (`CurrentStarted`).

`AssignorProofs`: `TypeCorrect`, `NeverFailsCorrect` (`NeverFails`),
`BalancedCorrect` (`Balanced`), `PromotesStandbyCorrect` (`PromotesStandby`) and, with
`Replicas # 0`, `StickyCorrect` (`Sticky`), for any clients, partitions, standbys and
claims. The members of a finite set have different ranks in an order, so that
`Sorted` has each of them once (`SortedFacts`), the candidates are the members, and
the list of missing copies has each partition as often as it is missing. `TypeOK`
needs `LoopInv` (the cycle of candidates comes by every member). `AssignInv` adds
`ShareInv` (nobody is over its share, or has a partition as both kinds) and
`CountInv`: the clients that have a partition and its occurrences in the list are
together what there has to be, which every step of the round robin keeps, also the
swap. From it follows what the comment "should never throw error" claims. When an
active is missing, all clients at `max_capacity` would have at least as many
partitions as there are, and not the missing one (`RoomForActive`, a one-to-one map
from clients and places to partitions); when a standby is missing, fewer clients
have the partition than there are (`RoomForStandby`). `ClaimInv` says that before
anything is given out nobody has more than it claimed; with it, `StickyInv` and
`PromoteInv` follow a claim and a standby through the steps. A standby that waits
for its promotion is passed over only while its client is full.

`TransactionsProofs`: `TypeCorrect` and, with `~Leftovers`, `OwnerCorrect`
(`OwnerKnows`) and `AtomicCorrect`, the refinement: initial states map to initial
states of `AtomicCommit`, a commit of the current epoch to `Commit`, everything else
to a stutter. `TransactionsInv` says that epochs are handed out once (`FenceInv`),
that a worker runs only with producers started (`StartedInv`), that events are in
agents only within transactions (`TxnInv`), that a commit which ends transactions
is waited for (`CommitInv`); that a worker that is not fenced off knows the
committed offset or, in a rebalance, none (`OwnerInv`); and that the records of
every event before one it is through with, has acked or is committing are in the
log or in the open transaction (`OpenInv`), in whatever generation they were put
there. The last is what a transaction carried over a rebalance needs. Fencing
enters where a late worker tries to commit.

`AgentsProofs`: `StoppedCorrect` (`StoppedForGood`) and, with `~MayIdle`,
`OneActorCorrect` (`OneActor`). `ActorInv` ties the entries of
`_actor_by_partition`, the streams and the index together; a stopped stream, a busy
replacement on it or not, survives only until `_update_tp_index`, whose assertion it fails.

`AgentsProofs` also has, for `Replies` with `MaxDup = 0`, `AnsweredCorrect`
(`Answered`). A request, its
reply and its result are at one place at a time, and the barrier's count is the
number of results the caller has or can get.

Assumptions on constants, beyond their types: the log of a partition in `Delivery`
has a last message, the workers in `Transactions` are finitely many. The
hypotheses on flags (`Orderly`, `Undisturbed`, `~Leftovers`, `~MayIdle`, `MaxDup = 0`,
`Replicas # 0`, no false values) are the circumstances of section 3 without which TLC refutes the
property.

Only model-checked: everything under fairness, since liveness and ENABLED are
beyond the prover. These are eleven of the properties in section 3: the ones
named `Eventually...`, `FetchedAgain` and `Terminates`.

`consecutive_numbers` and the interval library are modelled by what they return,
without recursion, and so is the order of windows (`Ascending`): that it exists and
has each window once is proved from the well-foundedness of the natural numbers.

## 5. Plan

Done: the modules of section 2 and the theorems of section 4. Every safety
property of a passing run, and the refinement, has a theorem. Should the code
change, the parts of section 6 that carry state (the subscription task, `group_by`,
set and object tables) are the next to model.

## 6. Not modelled

`PROJECT.json` lists every component with its status.

* Conductor: the subscription task. A change that is flagged during a rebalance
  may be cleared without being acted upon (`transport/conductor.py:318`).
* Transactions: a producer that cannot be started (only logged,
  `transport/drivers/aiokafka.py:1139`), and records for another partition, which
  join that partition's transaction (`transport/consumer.py:289`).
* Recovery: what a request does in the consumer thread after its wait has timed
  out and was cancelled, and the timeout of `perform_seek` in `Consumer`.
* Tables: set and object tables, views relative to a time, global tables. The
  heap of expiry times is not rebuilt by recovery (`tables/base.py:389`), so an
  expired entry may come back for good; `TableIsLog` leaves expired entries out.
* Queues: whether clearing one wakes a waiting put is up to the `mode` library; if
  it did not, `wait_empty` could wait for a message that such a put keeps alive
  (`_cython/conductor.pyx:96`).
* Streams: `group_by`, `through`, joins, and processors other than those of `take`
  (transformations of values without state of their own).
* The driver's livelock detector (it only logs), its scheduling strategy and topic
  creation; the threaded producer; start-up and shutdown of the app.
* LiveCheck (a tool for tests).
* Models, serializers and codecs (pure conversion of payloads, no protocol), the
  web server and views, sensors and monitors, command line, settings and fixups
  (configuration and I/O), and the type declarations under `faust/types`. These
  are most of the repository's lines.

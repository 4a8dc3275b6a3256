-------------------------------- MODULE Table --------------------------------
(***************************************************************************)
(* A windowed table of one partition: what an agent writes to its store    *)
(* and sends to its changelog (tables/base.py, tables/table.py), the way   *)
(* of the records through ProducerBuffer and the Kafka producer            *)
(* (transport/producer.py, topics.py), the commit of the source topic      *)
(* (transport/consumer.py), and what the stores make of the changelog      *)
(* after a crash (stores/memory.py, stores/rocksdb.py).                    *)
(*                                                                         *)
(* The key of an entry is its window.  The value of an entry is the number *)
(* of the source event that wrote it; zero stands for no value.            *)
(***************************************************************************)
EXTENDS Windows, Sequences, SequencesExt

CONSTANTS
    Stores,      \* the store drivers: a subset of {"memory", "rocksdb"}
    Falsy,       \* events may write values that are false: 0, "", []
    SlowSend,    \* sending a record may take longer than a flush waits
    BatchMax,    \* records the recovery applies in one batch
    MaxEvents,   \* bound: events of the source topic
    MaxTime,     \* bound: seconds the clock goes on
    MaxFaults    \* bound: crashes, and records the Kafka producer gives up

ASSUME TableAssumption ==
    /\ Stores \subseteq {"memory", "rocksdb"}
    /\ Falsy \in BOOLEAN /\ SlowSend \in BOOLEAN
    /\ BatchMax \in Nat \ {0}
    /\ MaxEvents \in Nat /\ MaxTime \in Nat /\ MaxFaults \in Nat

Keys == UNION {Ranges(t) : t \in 0..MaxTime}
Ops == {"set", "del"} \cup (IF Falsy THEN {"zero"} ELSE {})
Event == [op : Ops, ts : 0..MaxTime]
Record == [key : Keys, val : 0..MaxEvents]

VARIABLES
    driver,     \* the store driver
    now,        \* the clock
    source,     \* the source topic
    next,       \* events of it that are processed
    committed,  \* events of it that are committed
    store,      \* the entries
    ttl,        \* _partition_timestamp_keys: windows to be expired
    pending,    \* ProducerBuffer.pending
    sending,    \* the record _handle_pending is busy with, if any
    accum,      \* records the Kafka producer has taken
    changelog,  \* the changelog topic
    unacked,    \* records of it the producer has no answer for yet
    persisted,  \* persisted_offset: records of it the store knows it has
    phase,      \* "running" or "recovering"
    cursor,     \* records of it recovery has applied
    pc,         \* where a commit is
    target,     \* what it commits
    waitFor,    \* records its flush still waits for
    faults,     \* crashes and failed sends so far
    unlogged    \* history: entries whose last change is not in the changelog

producerVars == <<pending, sending, accum>>
kafkaVars == <<changelog, unacked>>
commitVars == <<pc, target, waitFor>>
vars == <<driver, now, source, next, committed, store, ttl, producerVars,
          kafkaVars, persisted, phase, cursor, commitVars, faults, unlogged>>

TypeOK ==
    /\ driver \in Stores
    /\ now \in 0..MaxTime
    /\ source \in Seq(Event) /\ Len(source) <= MaxEvents
    /\ next \in 0..Len(source)
    /\ committed \in 0..next
    /\ store \in [Keys -> 0..MaxEvents]
    /\ ttl \subseteq Keys
    /\ pending \in Seq(Record) /\ sending \in Seq(Record) /\ accum \in Seq(Record)
    /\ changelog \in Seq(Record)
    /\ unacked \in 0..Len(changelog)
    /\ persisted \in 0..Len(changelog)
    /\ phase \in {"running", "recovering"}
    /\ cursor \in 0..Len(changelog)
    /\ pc \in {"idle", "buffer", "producer", "commit"}
    /\ target \in 0..MaxEvents
    /\ waitFor \in 0..(unacked + Len(accum))
    /\ faults \in 0..MaxFaults
    /\ unlogged \subseteq Keys

Empty == [k \in Keys |-> 0]

Init ==
    /\ driver \in Stores
    /\ now = 0
    /\ source = <<>> /\ next = 0 /\ committed = 0
    /\ store = Empty /\ ttl = {}
    /\ pending = <<>> /\ sending = <<>> /\ accum = <<>>
    /\ changelog = <<>> /\ unacked = 0
    /\ persisted = 0 /\ phase = "running" /\ cursor = 0
    /\ pc = "idle" /\ target = 0 /\ waitFor = 0
    /\ faults = 0
    /\ unlogged = {}

(* Time goes by.                                                           *)
Tick ==
    /\ now < MaxTime
    /\ now' = now + 1
    /\ UNCHANGED <<driver, source, next, committed, store, ttl, producerVars,
                   kafkaVars, persisted, phase, cursor, commitVars, faults,
                   unlogged>>

-----------------------------------------------------------------------------
(* Collection._set_windowed and _del_windowed                              *)

(* The windows an event changes; the agent deletes what there is.          *)
Touched(e) ==
    IF e.op = "del" THEN {k \in Ranges(e.ts) : store[k] # 0} ELSE Ranges(e.ts)

(* The order window.ranges gives them in.                                  *)
Ascending(keys) ==
    CHOOSE ks \in [1..Cardinality(keys) -> keys] :
        \A i, j \in 1..Cardinality(keys) : i < j => ks[i] < ks[j]

(* send_changelog: one record per window, in the order of the windows.     *)
Records(e, i) ==
    [j \in 1..Cardinality(Touched(e)) |->
        [key |-> Ascending(Touched(e))[j], val |-> IF e.op = "del" THEN 0 ELSE i]]

(* on_key_set and on_key_del: the record goes into the buffer, the entry   *)
(* into the store, and its end into the heap of timestamps.                *)
Write(e, i) ==
    /\ pending' = pending \o Records(e, i)
    /\ store' = [k \in Keys |-> IF k \notin Touched(e) THEN store[k]
                                ELSE IF e.op = "del" THEN 0 ELSE i]
    /\ ttl' = IF e.op = "del" THEN ttl \ Touched(e) ELSE ttl \cup Touched(e)
    /\ unlogged' = unlogged \ Touched(e)

(* An agent takes a new event of the source topic.                         *)
ProcessNew ==
    /\ phase = "running"
    /\ next = Len(source) /\ next < MaxEvents
    /\ \E e \in Event :
         /\ e.ts <= now
         /\ source' = Append(source, e)
         /\ Write(e, next + 1)
    /\ next' = next + 1
    /\ UNCHANGED <<driver, now, committed, sending, accum, kafkaVars, persisted,
                   phase, cursor, commitVars, faults>>

(* After a crash, the events that were not committed come again.           *)
ProcessAgain ==
    /\ phase = "running"
    /\ next < Len(source)
    /\ Write(source[next + 1], next + 1)
    /\ next' = next + 1
    /\ UNCHANGED <<driver, now, source, committed, sending, accum, kafkaVars,
                   persisted, phase, cursor, commitVars, faults>>

(* Collection._del_old_keys: entries are popped from the store itself, so  *)
(* that nothing is sent; the oldest window first, and with an await of     *)
(* on_window_close before the next.                                        *)
DelOldKeys ==
    \E k \in ttl :
        /\ phase = "running"
        /\ Stale(k, now)
        /\ \A other \in ttl : k <= other
        /\ store' = [store EXCEPT ![k] = 0]
        /\ ttl' = ttl \ {k}
        /\ unlogged' = unlogged \cup {o \in {k} : store[o] # 0}
        /\ UNCHANGED <<driver, now, source, next, committed, producerVars,
                       kafkaVars, persisted, phase, cursor, commitVars, faults>>

-----------------------------------------------------------------------------
(* ProducerBuffer._handle_pending takes a record ...                       *)
HandlePending ==
    /\ pending # <<>> /\ sending = <<>>
    /\ pending' = Tail(pending)
    /\ IF SlowSend
         THEN sending' = <<Head(pending)>> /\ UNCHANGED accum
         ELSE accum' = Append(accum, Head(pending)) /\ UNCHANGED sending
    /\ UNCHANGED <<driver, now, source, next, committed, store, ttl, kafkaVars,
                   persisted, phase, cursor, commitVars, faults, unlogged>>

(* ... and waits until Topic.publish_message has given it to the producer. *)
PublishMessage ==
    /\ sending # <<>>
    /\ accum' = accum \o sending
    /\ sending' = <<>>
    /\ UNCHANGED <<driver, now, source, next, committed, store, ttl, pending,
                   kafkaVars, persisted, phase, cursor, commitVars, faults,
                   unlogged>>

(* The broker appends the record.                                          *)
Deliver ==
    /\ accum # <<>>
    /\ changelog' = Append(changelog, Head(accum))
    /\ accum' = Tail(accum)
    /\ unacked' = unacked + 1
    /\ UNCHANGED <<driver, now, source, next, committed, store, ttl, pending,
                   sending, persisted, phase, cursor, commitVars, faults,
                   unlogged>>

(* Topic._on_published with an error: the future is done, and the failure  *)
(* is logged.                                                              *)
SendError ==
    /\ faults < MaxFaults
    /\ faults' = faults + 1
    /\ accum # <<>>
    /\ accum' = Tail(accum)
    /\ waitFor' = IF unacked < waitFor THEN waitFor - 1 ELSE waitFor
    /\ unlogged' = unlogged \cup {Head(accum).key}
    /\ UNCHANGED <<driver, now, source, next, committed, store, ttl, pending,
                   sending, kafkaVars, persisted, phase, cursor, pc, target>>

(* Mutant: the offset after it.                                            *)
OffsetNext == Len(changelog) - unacked + 2

(* The offset of the oldest record without an answer.                      *)
Offset == Len(changelog) - unacked + 1

(* Mutant: the future of the record is never done.                         *)
OnChangelogSentOnly ==
    /\ unacked > 0
    /\ unacked' = unacked - 1
    /\ persisted' = IF driver = "rocksdb" THEN Offset ELSE persisted
    /\ UNCHANGED <<driver, now, source, next, committed, store, ttl,
                   producerVars, changelog, phase, cursor, commitVars, faults,
                   unlogged>>

(* Topic._on_published calls Collection._on_changelog_sent; a store in     *)
(* memory persists nothing.                                                *)
OnChangelogSent ==
    /\ unacked > 0
    /\ unacked' = unacked - 1
    /\ persisted' = IF driver = "rocksdb" THEN Offset ELSE persisted
    /\ waitFor' = IF waitFor = 0 THEN 0 ELSE waitFor - 1
    /\ UNCHANGED <<driver, now, source, next, committed, store, ttl,
                   producerVars, changelog, phase, cursor, pc, target, faults,
                   unlogged>>

-----------------------------------------------------------------------------
(* Consumer._commit_offsets, outside of transactions                       *)

CommitStart ==
    /\ phase = "running" /\ pc = "idle" /\ next > committed
    /\ target' = next
    /\ pc' = "buffer"
    /\ UNCHANGED <<driver, now, source, next, committed, store, ttl,
                   producerVars, kafkaVars, persisted, phase, cursor, waitFor,
                   faults, unlogged>>

(* ProducerBuffer.flush gives up when no record is sent for 0.1 seconds;   *)
(* what _handle_pending is busy with does not count.                       *)
FlushBuffer ==
    /\ pc = "buffer"
    /\ pending = <<>> \/ sending # <<>>
    /\ pc' = "producer"
    /\ waitFor' = unacked + Len(accum)
    /\ UNCHANGED <<driver, now, source, next, committed, store, ttl,
                   producerVars, kafkaVars, persisted, phase, cursor, target,
                   faults, unlogged>>

(* The flush of the Kafka producer waits for what it had.                  *)
FlushProducer ==
    /\ pc = "producer" /\ waitFor = 0
    /\ pc' = "commit"
    /\ UNCHANGED <<driver, now, source, next, committed, store, ttl,
                   producerVars, kafkaVars, persisted, phase, cursor, target,
                   waitFor, faults, unlogged>>

Commit ==
    /\ pc = "commit"
    /\ committed' = target
    /\ pc' = "idle"
    /\ UNCHANGED <<driver, now, source, next, store, ttl, producerVars,
                   kafkaVars, persisted, phase, cursor, target, waitFor, faults,
                   unlogged>>

-----------------------------------------------------------------------------
(* The worker ends.  The partition comes back to it, or to a worker that   *)
(* has no data (kept = FALSE), and is recovered from the offset persisted. *)
Crash(kept) ==
    /\ faults < MaxFaults
    /\ faults' = faults + 1
    /\ next' = committed
    /\ store' = IF kept THEN store ELSE Empty
    /\ persisted' = IF kept THEN persisted ELSE 0
    /\ cursor' = persisted'
    /\ ttl' = {}
    /\ unlogged' =
         IF kept THEN unlogged \cup {r.key : r \in Range(pending \o sending \o accum)}
         ELSE {}
    /\ pending' = <<>> /\ sending' = <<>> /\ accum' = <<>>
    /\ unacked' = 0
    /\ phase' = "recovering"
    /\ pc' = "idle" /\ target' = 0 /\ waitFor' = 0
    /\ UNCHANGED <<driver, now, source, committed, changelog>>

(* The entries after the records of a batch.                               *)
LastVal(batch, k, old) ==
    LET at == {j \in 1..Len(batch) : batch[j].key = k}
    IN  IF at = {} THEN old ELSE batch[Max(at)].val

(* Mutant: the first record of a key in the batch counts.                  *)
AppliedFirst(batch) ==
    [k \in Keys |->
        LET at == {j \in 1..Len(batch) : batch[j].key = k}
        IN  IF at = {} THEN store[k] ELSE batch[Min(at)].val]

(* memory.Store.apply_changelog_batch: a key that some record of the batch *)
(* deletes is dropped unless its value at the end is true.                 *)
Truthy(v) == v # 0 /\ source[v].op # "zero"
AppliedMemory(batch) ==
    [k \in Keys |->
        LET v == LastVal(batch, k, store[k])
        IN  IF [key |-> k, val |-> 0] \in Range(batch) /\ ~Truthy(v) THEN 0 ELSE v]

(* rocksdb.Store.apply_changelog_batch: a WriteBatch, in order.            *)
Applied(batch) == [k \in Keys |-> LastVal(batch, k, store[k])]

(* Recovery applies the changelog in batches; what they are made of is in  *)
(* module Recovery.                                                        *)
ApplyChangelogBatch(n) ==
    LET batch == SubSeq(changelog, cursor + 1, cursor + n)
    IN  /\ phase = "recovering"
        /\ n >= 1 /\ cursor + n <= Len(changelog)
        /\ store' = IF driver = "memory" THEN AppliedMemory(batch)
                    ELSE Applied(batch)
        /\ cursor' = cursor + n
        /\ persisted' = IF driver = "rocksdb" THEN cursor + n ELSE persisted
        /\ unlogged' = unlogged \ {r.key : r \in Range(batch)}
        /\ UNCHANGED <<driver, now, source, next, committed, ttl, producerVars,
                       kafkaVars, phase, commitVars, faults>>

OnRecoveryCompleted ==
    /\ phase = "recovering" /\ cursor = Len(changelog)
    /\ phase' = "running"
    /\ UNCHANGED <<driver, now, source, next, committed, store, ttl,
                   producerVars, kafkaVars, persisted, cursor, commitVars,
                   faults, unlogged>>

Next ==
    \/ Tick \/ ProcessNew \/ ProcessAgain \/ DelOldKeys
    \/ HandlePending \/ PublishMessage \/ Deliver \/ SendError
    \/ OnChangelogSent
    \/ CommitStart \/ FlushBuffer \/ FlushProducer \/ Commit
    \/ \E kept \in {FALSE, driver = "rocksdb"} : Crash(kept)
    \/ \E n \in 1..BatchMax : ApplyChangelogBatch(n)
    \/ OnRecoveryCompleted

Spec == Init /\ [][Next]_vars

(* Events there are get processed, the tasks of producer, commit and       *)
(* recovery run, the broker answers.                                       *)
Fairness ==
    /\ WF_vars(ProcessAgain)
    /\ WF_vars(HandlePending) /\ WF_vars(PublishMessage)
    /\ WF_vars(Deliver) /\ WF_vars(OnChangelogSent)
    /\ WF_vars(CommitStart) /\ WF_vars(FlushBuffer)
    /\ WF_vars(FlushProducer) /\ WF_vars(Commit)
    /\ WF_vars(\E n \in 1..BatchMax : ApplyChangelogBatch(n))
    /\ WF_vars(OnRecoveryCompleted)
FairSpec == Spec /\ Fairness

-----------------------------------------------------------------------------
(* What a replay of the changelog, with all that is on its way to it,      *)
(* would make of the table.                                                *)
Replay ==
    [k \in Keys |-> LastVal(changelog \o accum \o sending \o pending, k, 0)]

(* The entries of a running table are those its changelog stands for, but  *)
(* for the ones that were expired, or whose record was given up or went    *)
(* with a crash.  Recovery restores the table whatever the offset that was *)
(* persisted with it.                                                      *)
TableIsLog ==
    phase = "running" =>
        \A k \in Keys \ unlogged : store[k] = Replay[k]

(* Consumer._commit_offsets flushes the producer first: when the source    *)
(* events are committed, the changelog has what they have written.         *)
CommittedLogged ==
    \A i \in 1..committed :
        source[i].op # "del" =>
            \A k \in Ranges(source[i].ts) :
                \E r \in Range(changelog) : r.key = k /\ r.val = i

(* An entry goes by itself only when its window has been over for as long  *)
(* as `expires` says.                                                      *)
KeptUntilExpired ==
    [][\A k \in Keys :
          (store[k] # 0 /\ store'[k] = 0 /\ phase' = "running" /\ next' = next)
             => k + size <= now - expires]_vars

(* After the last crash, all events are processed and committed.           *)
EventuallyCommitted ==
    <>[](phase = "running" /\ committed = Len(source))
=============================================================================

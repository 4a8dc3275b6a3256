----------------------------- MODULE Transactions -----------------------------
(***************************************************************************)
(* processing_guarantee = "exactly_once": the TransactionManager of        *)
(* transport/consumer.py and the transactional producers of                *)
(* transport/drivers/aiokafka.py, in the workers of one consumer group.    *)
(*                                                                         *)
(* There is one topic, and a transactional id for each of its partitions.  *)
(* For every event an agent writes one record to the same partition of     *)
(* another topic: with `await topic.send()`, or, for the events in         *)
(* TableEvents, by counting in a table, whose changelog goes through the   *)
(* ProducerBuffer.  stream_wait_empty is on, as it is by default.  The     *)
(* transaction coordinator of Kafka and the group coordinator are external.*)
(***************************************************************************)
EXTENDS Integers, Sequences, FiniteSets, SequencesExt

CONSTANTS
    Workers, Partitions,
    Events,       \* events in each partition
    TableEvents,  \* those that count in a table
    Leftovers,    \* a worker may be given a partition back while it has acks,
                  \* a commit or a committed offset of it from before
    MaxFaults     \* bound: crashes, workers the group gives up, and flushes
                  \* that time out

ASSUME TransactionsAssumption ==
    /\ IsFiniteSet(Workers)
    /\ Events \in Nat
    /\ TableEvents \subseteq 1..Events
    /\ Leftovers \in BOOLEAN
    /\ MaxFaults \in Nat

VARIABLES
    \* the brokers
    members,    \* workers in the group
    joining,    \* the group waits for its members
    epoch,      \* epoch of the producer of a transactional id
    open,       \* its records that are not committed
    log,        \* records that are committed
    offset,     \* events that are committed
    \* each worker
    phase,      \* where it is in a rebalance, or "down"
    mine,       \* app._assignment
    assigned,   \* partitions of the assignment whose producer is not started yet
    producer,   \* _transaction_producers: the epoch, zero if there is none
    inTxn,      \* it is in a transaction
    count,      \* the table
    taken, finished,   \* events the agent has begun, and is through with
    sent,       \* the record of the event in the agent is sent
    acked,      \* _acked
    done,       \* _committed_offset, zero for none
    commit,     \* offsets of the commit under way that are still to be sent
    ending,     \* the commit does not begin new transactions
    buffer,     \* ProducerBuffer.pending
    faults

brokerVars == <<members, joining, epoch, open, log, offset>>
agentVars == <<count, taken, finished, sent>>
commitVars == <<acked, done, commit, ending>>
vars == <<brokerVars, phase, mine, assigned, producer, inTxn, agentVars,
          commitVars, buffer, faults>>

Record == [ev : 1..Events, cnt : Nat]
PerWorker(S) == [Workers -> [Partitions -> S]]

TypeOK ==
    /\ members \subseteq Workers
    /\ joining \in BOOLEAN
    /\ epoch \in [Partitions -> Nat]
    /\ open \in [Partitions -> Seq(Record)] /\ log \in [Partitions -> Seq(Record)]
    /\ offset \in [Partitions -> 0..Events]
    /\ phase \in [Workers -> {"running", "draining", "ended", "joined", "starting",
                             "down"}]
    /\ mine \in [Workers -> SUBSET Partitions]
    /\ assigned \in [Workers -> SUBSET Partitions]
    /\ producer \in PerWorker(Nat)
    /\ inTxn \in PerWorker(BOOLEAN)
    /\ count \in PerWorker(Nat)
    /\ taken \in PerWorker(0..Events) /\ finished \in PerWorker(0..Events)
    /\ \A w \in Workers, p \in Partitions : taken[w][p] - finished[w][p] \in 0..1
    /\ sent \in PerWorker(BOOLEAN)
    /\ acked \in PerWorker(SUBSET (1..Events))
    /\ done \in PerWorker(0..Events)
    /\ commit \in PerWorker(0..Events)
    /\ ending \in [Workers -> BOOLEAN]
    /\ buffer \in [Workers -> Seq(Partitions \X Record)]
    /\ faults \in 0..MaxFaults

All(v) == [w \in Workers |-> [p \in Partitions |-> v]]

Init ==
    /\ members = {} /\ joining = FALSE
    /\ epoch = [p \in Partitions |-> 0]
    /\ open = [p \in Partitions |-> <<>>] /\ log = [p \in Partitions |-> <<>>]
    /\ offset = [p \in Partitions |-> 0]
    /\ phase = [w \in Workers |-> "running"]
    /\ mine = [w \in Workers |-> {}] /\ assigned = [w \in Workers |-> {}]
    /\ producer = All(0) /\ inTxn = All(FALSE)
    /\ count = All(0) /\ taken = All(0) /\ finished = All(0) /\ sent = All(FALSE)
    /\ acked = All({}) /\ done = All(0) /\ commit = All(0)
    /\ ending = [w \in Workers |-> FALSE]
    /\ buffer = [w \in Workers |-> <<>>]
    /\ faults = 0

-----------------------------------------------------------------------------
(* The worker ends: App.crash, a failed service, or a kill.  It comes up   *)
(* again without anything; its transactions stay open.                     *)
Ends(w) ==
    /\ phase' = [phase EXCEPT ![w] = "down"]
    /\ mine' = [mine EXCEPT ![w] = {}]
    /\ assigned' = [assigned EXCEPT ![w] = {}]
    /\ producer' = [producer EXCEPT ![w] = All(0)[w]]
    /\ inTxn' = [inTxn EXCEPT ![w] = All(FALSE)[w]]
    /\ count' = [count EXCEPT ![w] = All(0)[w]]
    /\ taken' = [taken EXCEPT ![w] = All(0)[w]]
    /\ finished' = [finished EXCEPT ![w] = All(0)[w]]
    /\ sent' = [sent EXCEPT ![w] = All(FALSE)[w]]
    /\ acked' = [acked EXCEPT ![w] = All({})[w]]
    /\ done' = [done EXCEPT ![w] = All(0)[w]]
    /\ commit' = [commit EXCEPT ![w] = All(0)[w]]
    /\ ending' = [ending EXCEPT ![w] = FALSE]
    /\ buffer' = [buffer EXCEPT ![w] = <<>>]

Crash(w) ==
    /\ faults < MaxFaults /\ phase[w] # "down"
    /\ faults' = faults + 1
    /\ Ends(w)
    /\ UNCHANGED brokerVars

Restart(w) ==
    /\ phase[w] = "down" /\ w \notin members
    /\ phase' = [phase EXCEPT ![w] = "running"]
    /\ UNCHANGED <<brokerVars, mine, assigned, producer, inTxn, agentVars,
                   commitVars, buffer, faults>>

-----------------------------------------------------------------------------
(* The records of an agent                                                 *)

Idle(w) == \A p \in Partitions : commit[w][p] = 0
Busy(w, p) == taken[w][p] > finished[w][p]

Take(w, p) ==
    /\ phase[w] = "running" /\ p \in mine[w]
    /\ ~Busy(w, p) /\ taken[w][p] < Events
    /\ taken' = [taken EXCEPT ![w][p] = @ + 1]
    /\ sent' = [sent EXCEPT ![w][p] = FALSE]
    /\ UNCHANGED <<brokerVars, phase, mine, assigned, producer, inTxn, count,
                   finished, commitVars, buffer, faults>>

(* TransactionManager.send and Producer.send: the record joins the         *)
(* transaction of its partition.  A producer that is fenced learns of it   *)
(* later, when the record is lost.                                         *)
Produce(w, p, r) ==
    open' = IF producer[w][p] = epoch[p] THEN [open EXCEPT ![p] = Append(@, r)]
            ELSE open

(* A send without a producer, or outside of a transaction, raises          *)
(* ProducerSendError.                                                      *)
CanSend(w, p) == producer[w][p] # 0 /\ inTxn[w][p]

(* topic.send in an agent; an agent that raises has its event finished.      *)
Send(w, p) ==
    /\ Busy(w, p) /\ ~sent[w][p] /\ taken[w][p] \notin TableEvents
    /\ IF CanSend(w, p)
         THEN Produce(w, p, [ev |-> taken[w][p], cnt |-> 0])
         ELSE UNCHANGED open
    /\ sent' = [sent EXCEPT ![w][p] = TRUE]
    /\ UNCHANGED <<members, joining, epoch, log, offset, phase, mine, assigned,
                   producer, inTxn, count, taken, finished, commitVars, buffer,
                   faults>>

(* table[key] += 1                                                         *)
Count(w, p) ==
    /\ Busy(w, p) /\ ~sent[w][p] /\ taken[w][p] \in TableEvents
    /\ count' = [count EXCEPT ![w][p] = @ + 1]
    /\ buffer' = [buffer EXCEPT ![w] =
                    Append(@, <<p, [ev |-> taken[w][p], cnt |-> count'[w][p]]>>)]
    /\ sent' = [sent EXCEPT ![w][p] = TRUE]
    /\ UNCHANGED <<brokerVars, phase, mine, assigned, producer, inTxn, taken,
                   finished, commitVars, faults>>

(* Mutant: an event is dropped when the flow has stopped.                  *)
AckRunning(w, p) ==
    /\ Busy(w, p) /\ sent[w][p] /\ phase[w] = "running"
    /\ finished' = [finished EXCEPT ![w][p] = @ + 1]
    /\ acked' = [acked EXCEPT ![w][p] = @ \cup {taken[w][p]}]
    /\ UNCHANGED <<brokerVars, phase, mine, assigned, producer, inTxn, count,
                   taken, sent, done, commit, ending, buffer, faults>>

(* Consumer.ack: an event that is committed is not tracked again.          *)
Ack(w, p) ==
    /\ Busy(w, p) /\ sent[w][p]
    /\ finished' = [finished EXCEPT ![w][p] = @ + 1]
    /\ acked' = IF taken[w][p] > done[w][p]
                THEN [acked EXCEPT ![w][p] = @ \cup {taken[w][p]}] ELSE acked
    /\ UNCHANGED <<brokerVars, phase, mine, assigned, producer, inTxn, count,
                   taken, sent, done, commit, ending, buffer, faults>>

(* ProducerBuffer._handle_pending: an error ends the task, and so the      *)
(* worker.                                                                 *)
HandlePending(w) ==
    /\ buffer[w] # <<>>
    /\ LET p == Head(buffer[w])[1]
       IN  \/ /\ CanSend(w, p)
              /\ Produce(w, p, Head(buffer[w])[2])
              /\ buffer' = [buffer EXCEPT ![w] = Tail(@)]
              /\ UNCHANGED <<phase, mine, assigned, producer, inTxn, agentVars,
                             commitVars>>
           \/ /\ ~CanSend(w, p)
              /\ Ends(w)
              /\ UNCHANGED open
    /\ UNCHANGED <<members, joining, epoch, log, offset, faults>>

-----------------------------------------------------------------------------
(* Commits                                                                 *)

(* _new_offset takes the events off _acked that are in a row, unless there *)
(* is a hole before them.                                                  *)
Batch(w, p) ==
    LET first == Min(acked[w][p])
    IN  IF acked[w][p] = {} \/ (done[w][p] # 0 /\ first > done[w][p] + 2) THEN {}
        ELSE {e \in acked[w][p] : first..e \subseteq acked[w][p]}

(* _filter_committable_offsets and _commit_offsets, for what is new and in *)
(* the assignment.                                                         *)
ToCommit(w, p) ==
    IF p \in mine[w] /\ \E e \in Batch(w, p) : e > done[w][p]
    THEN Max(Batch(w, p)) ELSE 0

(* Consumer.commit when no other is under way.                             *)
Commit(w, end) ==
    /\ commit' = [commit EXCEPT ![w] = [p \in Partitions |-> ToCommit(w, p)]]
    /\ acked' = [acked EXCEPT ![w] =
                    [p \in Partitions |-> acked[w][p] \ Batch(w, p)]]
    /\ ending' = [ending EXCEPT ![w] = end]

(* The commit handler, at any time, and wait_empty while it waits.         *)
CommitStart(w) ==
    /\ phase[w] # "down" /\ Idle(w)
    /\ \E p \in Partitions : Batch(w, p) # {}
    /\ Commit(w, FALSE)
    /\ UNCHANGED <<brokerVars, phase, mine, assigned, producer, inTxn, agentVars,
                   done, buffer, faults>>

(* Producer.commit_transactions for one transactional id, whose lock keeps *)
(* sends out: the offset joins the transaction, which is committed and,    *)
(* but for the end of a rebalance, followed by the next.  Without a        *)
(* producer there is only a warning.                                       *)
CommitTransactions(w, p) ==
    /\ commit[w][p] # 0
    /\ \/ /\ producer[w][p] # 0 /\ producer[w][p] = epoch[p]
          /\ offset' = [offset EXCEPT ![p] = commit[w][p]]
          /\ log' = [log EXCEPT ![p] = @ \o open[p]]
          /\ open' = [open EXCEPT ![p] = <<>>]
          /\ inTxn' = [inTxn EXCEPT ![w][p] = ~ending[w]]
          /\ done' = [done EXCEPT ![w][p] = commit[w][p]]
          /\ commit' = [commit EXCEPT ![w][p] = 0]
          /\ UNCHANGED <<phase, mine, assigned, producer, agentVars, acked, ending,
                         buffer>>
       \/ /\ producer[w][p] \notin {0, epoch[p]}    \* ProducerFenced: App.crash
          /\ Ends(w)
          /\ UNCHANGED <<open, log, offset>>
       \/ /\ producer[w][p] = 0
          /\ done' = [done EXCEPT ![w][p] = commit[w][p]]
          /\ commit' = [commit EXCEPT ![w][p] = 0]
          /\ UNCHANGED <<open, log, offset, phase, mine, assigned, producer, inTxn,
                         agentVars, acked, ending, buffer>>
    /\ UNCHANGED <<members, joining, epoch, faults>>

-----------------------------------------------------------------------------
(* Rebalances                                                              *)

(* The group starts a rebalance: for a member that is gone, a worker that  *)
(* comes, or a member whose heartbeats are late, which goes on unaware.    *)
Rebalance(S) ==
    /\ \A w \in S : phase[w] # "down"
    /\ LET late == {w \in members \ S : phase[w] # "down"}
       IN  /\ S # members
           /\ faults + Cardinality(late) <= MaxFaults
           /\ faults' = faults + Cardinality(late)
    /\ members' = S
    /\ joining' = TRUE
    /\ UNCHANGED <<epoch, open, log, offset, phase, mine, assigned, producer,
                   inTxn, agentVars, commitVars, buffer>>

(* Consumer.on_partitions_revoked forgets acks and committed offsets;      *)
(* App._on_partitions_revoked stops the flow, if there is an assignment,   *)
Revoke(w) ==
    /\ joining /\ w \in members /\ phase[w] = "running"
    /\ phase' = [phase EXCEPT ![w] = IF mine[w] = {} THEN "joined" ELSE "draining"]
    /\ acked' = [acked EXCEPT ![w] =
                    [p \in Partitions |-> IF p \in mine[w] THEN {} ELSE @[p]]]
    /\ done' = [done EXCEPT ![w] =
                    [p \in Partitions |-> IF p \in mine[w] THEN 0 ELSE @[p]]]
    /\ UNCHANGED <<brokerVars, mine, assigned, producer, inTxn, agentVars, commit,
                   ending, buffer, faults>>

(* and waits until the agents are through.  wait_empty then calls          *)
(* commit_and_end_transactions: what is acked since is committed, and its  *)
(* transactions end, unless a commit is under way, which is waited for     *)
(* instead.  Other transactions stay open.                                 *)
EndTransactions(w) ==
    /\ phase[w] = "draining" /\ \A p \in mine[w] : ~Busy(w, p)
    /\ phase' = [phase EXCEPT ![w] = "ended"]
    /\ \/ Idle(w) /\ Commit(w, TRUE)
       \/ ~Idle(w) /\ UNCHANGED <<acked, commit, ending>>
    /\ UNCHANGED <<brokerVars, mine, assigned, producer, inTxn, agentVars, done,
                   buffer, faults>>

(* The commit is done.  Producer.flush then waits for the buffer to empty, *)
(* and gives up when nothing is sent for a while.                          *)
Drained(w) ==
    /\ phase[w] = "ended" /\ Idle(w)
    /\ buffer[w] = <<>> \/ faults < MaxFaults
    /\ faults' = IF buffer[w] = <<>> THEN faults ELSE faults + 1
    /\ phase' = [phase EXCEPT ![w] = "joined"]
    /\ UNCHANGED <<brokerVars, mine, assigned, producer, inTxn, agentVars,
                   commitVars, buffer>>

(* A worker has nothing left of a partition.                               *)
NothingLeft(w, p) == acked[w][p] = {} /\ commit[w][p] = 0 /\ done[w][p] = 0

(* The group hands out the partitions; App._update_assignment and          *)
(* TransactionManager._stop_transactions for the revoked ones.             *)
Assign(owner) ==
    /\ joining /\ \A w \in members : phase[w] = "joined"
    /\ \A p \in Partitions :
          Leftovers \/ p \in mine[owner[p]] \/ NothingLeft(owner[p], p)
    /\ joining' = FALSE
    /\ phase' = [w \in Workers |-> IF w \in members THEN "starting" ELSE phase[w]]
    /\ mine' = [w \in Workers |->
                  IF w \in members THEN {p \in Partitions : owner[p] = w} ELSE mine[w]]
    /\ assigned' = [w \in Workers |-> IF w \in members THEN mine'[w] ELSE assigned[w]]
    /\ producer' = [w \in Workers |-> [p \in Partitions |->
                      IF w \in members /\ p \notin mine'[w] THEN 0
                      ELSE producer[w][p]]]
    /\ inTxn' = [w \in Workers |-> [p \in Partitions |->
                   inTxn[w][p] /\ producer'[w][p] # 0]]
    /\ UNCHANGED <<members, epoch, open, log, offset, agentVars, commitVars,
                   buffer, faults>>

(* Mutant: a new producer aborts the transaction, but fences nobody off.   *)
BeginUnfenced(w, p) ==
    /\ phase[w] = "starting" /\ p \in assigned[w]
    /\ assigned' = [assigned EXCEPT ![w] = @ \ {p}]
    /\ producer' = [producer EXCEPT ![w][p] = 1]
    /\ epoch' = [epoch EXCEPT ![p] = 1]
    /\ open' = IF producer[w][p] = 0 THEN [open EXCEPT ![p] = <<>>] ELSE open
    /\ inTxn' = [inTxn EXCEPT ![w][p] = TRUE]
    /\ UNCHANGED <<members, joining, log, offset, phase, mine, agentVars,
                   commitVars, buffer, faults>>

(* Producer.begin_transaction: a producer that is new fences off the one   *)
(* before and aborts its transaction; one that is there just begins, and   *)
(* fails without a consequence when it already has.                        *)
Begin(w, p) ==
    /\ phase[w] = "starting" /\ p \in assigned[w]
    /\ assigned' = [assigned EXCEPT ![w] = @ \ {p}]
    /\ \/ /\ producer[w][p] = 0
          /\ epoch' = [epoch EXCEPT ![p] = @ + 1]
          /\ open' = [open EXCEPT ![p] = <<>>]
          /\ producer' = [producer EXCEPT ![w][p] = epoch'[p]]
       \/ /\ producer[w][p] # 0
          /\ UNCHANGED <<epoch, open, producer>>
    /\ inTxn' = [inTxn EXCEPT ![w][p] = TRUE]
    /\ UNCHANGED <<members, joining, log, offset, phase, mine, agentVars,
                   commitVars, buffer, faults>>

(* What a table is recovered to.                                           *)
Recovered(p) ==
    LET counts == {j \in 1..Len(log[p]) : log[p][j].cnt # 0}
    IN  IF counts = {} THEN 0 ELSE log[p][Max(counts)].cnt

(* Mutant: the position is left where the worker has been.                 *)
SeekNowhere(w) ==
    /\ phase[w] = "starting" /\ assigned[w] = {}
    /\ phase' = [phase EXCEPT ![w] = "running"]
    /\ count' = [count EXCEPT ![w] = [p \in Partitions |-> Recovered(p)]]
    /\ UNCHANGED <<brokerVars, mine, assigned, producer, inTxn, taken, finished, sent,
                   commitVars, buffer, faults>>

(* Mutant: only the fetcher is moved, acks are kept.                       *)
SeekTaken(w) ==
    /\ phase[w] = "starting" /\ assigned[w] = {}
    /\ phase' = [phase EXCEPT ![w] = "running"]
    /\ taken' = [taken EXCEPT ![w] =
                   [p \in Partitions |-> IF p \in mine[w] THEN offset[p] ELSE 0]]
    /\ UNCHANGED <<brokerVars, mine, assigned, producer, inTxn, count, finished, sent,
                   commitVars, buffer, faults>>

(* Recovery of the tables, and Consumer.perform_seek                       *)
Seek(w) ==
    /\ phase[w] = "starting" /\ assigned[w] = {}
    /\ phase' = [phase EXCEPT ![w] = "running"]
    /\ taken' = [taken EXCEPT ![w] =
                   [p \in Partitions |-> IF p \in mine[w] THEN offset[p] ELSE 0]]
    /\ finished' = [finished EXCEPT ![w] = taken'[w]]
    /\ done' = [done EXCEPT ![w] =
                   [p \in Partitions |->
                      IF p \in mine[w] /\ offset[p] # 0 THEN offset[p] ELSE @[p]]]
    /\ count' = [count EXCEPT ![w] =
                   [p \in Partitions |-> IF p \in mine[w] THEN Recovered(p) ELSE 0]]
    /\ UNCHANGED <<brokerVars, mine, assigned, producer, inTxn, sent, acked, commit,
                   ending, buffer, faults>>

Work(w) ==
    \/ \E p \in Partitions : Take(w, p) \/ Send(w, p) \/ Count(w, p) \/ Ack(w, p)
    \/ HandlePending(w)
Committing(w) ==
    \/ CommitStart(w)
    \/ \E p \in Partitions : CommitTransactions(w, p)
Rebalancing(w) ==
    \/ Revoke(w) \/ EndTransactions(w) \/ Drained(w) \/ Seek(w)
    \/ \E p \in Partitions : Begin(w, p)

Next ==
    \/ \E w \in Workers : Work(w) \/ Committing(w) \/ Rebalancing(w)
    \/ \E w \in Workers : Crash(w) \/ Restart(w)
    \/ \E S \in SUBSET Workers : Rebalance(S)
    \/ \E owner \in [Partitions -> members] : Assign(owner)

Spec == Init /\ [][Next]_vars

(* The tasks of a worker run, it is restarted, and the group goes on.      *)
Fairness ==
    /\ \A w \in Workers :
         WF_vars(Work(w)) /\ WF_vars(Committing(w)) /\ WF_vars(Rebalancing(w))
         /\ WF_vars(Restart(w))
    /\ WF_vars(\E S \in SUBSET Workers : Rebalance(S) /\ faults' = faults)
    /\ WF_vars(\E owner \in [Partitions -> members] : Assign(owner))
FairSpec == Spec /\ Fairness

-----------------------------------------------------------------------------
(* Nobody commits behind the back of a worker that has the partition: the  *)
(* producers are started, and others fenced off, before the offset is read.*)
OwnerKnows ==
    \A w \in Workers : \A p \in mine[w] :
        (phase[w] = "running" /\ producer[w][p] = epoch[p])
            => done[w][p] = offset[p]

(* The workers together are one that commits offset and records in a       *)
(* single step: no commit, however late, moves the offset past an event    *)
(* whose record is not there, and none adds records that others have       *)
(* aborted or gone on without.                                             *)
Direct == 1..Events \ TableEvents
Evs(s) == {r.ev : r \in Range(s)}
written == [p \in Partitions |-> Evs(log[p]) \cap Direct]
Abstract == INSTANCE AtomicCommit WITH written <- written
CommitsAtomically == Abstract!Spec

(* "exactly_once": the record of an event is written once.  A transaction  *)
(* that is still open after a rebalance is gone on with, and the events    *)
(* whose acks were forgotten are processed again within it.                *)
WrittenOnce ==
    \A p \in Partitions : \A i, j \in 1..Len(log[p]) :
        log[p][i].ev = log[p][j].ev /\ log[p][i].ev \in Direct => i = j

(* Every event is committed in the end, with workers that crash because    *)
(* they are fenced or because a record comes after the last transaction.   *)
EventuallyCommitted == <>[](\A p \in Partitions : offset[p] = Events)

(* "This mode ensures tables and counts in tables/windows are consistent   *)
(* even as nodes in the cluster are abruptly terminated.": the count a     *)
(* table is recovered to is the number of events that are committed.       *)
CountsConsistent ==
    \A p \in Partitions :
        Recovered(p) = Cardinality(TableEvents \cap 1..offset[p])
=============================================================================

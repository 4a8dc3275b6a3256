------------------------------ MODULE Attachments ------------------------------
(***************************************************************************)
(* faust/app/_attached.py together with the consumer: what an agent sends  *)
(* while it processes an event is held back until the offset of the event  *)
(* is committed (conf.stream_publish_on_commit).  Consumer.commit          *)
(* publishes the attached messages and waits for the producer before it    *)
(* sends the offsets to the broker.                                        *)
(*                                                                         *)
(* Each agent sends one message for each event, so a message is named by   *)
(* the partition and the offset of its event.                              *)
(***************************************************************************)
EXTENDS Consumer

VARIABLES
    attached,   \* Attachments._pending, the heap of each partition
    toPublish,  \* partitions _handle_attached has still to go through
    outbox,     \* published, and not confirmed by the producer yet
    answered,   \* agent tasks that have sent for the event they process
    reported,   \* history: the producer was told how the delivery ended
    written     \* history: ... and that it was written; for any worker

attachVars == <<attached, toPublish, outbox, answered, reported, written>>
allVars == <<vars, attachVars>>

AttachTypeOK ==
    /\ attached \in [TP -> SUBSET Offset]
    /\ toPublish \in SUBSET TP
    /\ outbox \in [TP -> SUBSET Offset]
    /\ answered \in SUBSET Workers
    /\ reported \in [TP -> SUBSET Offset]
    /\ written \in [TP -> SUBSET Offset]

AttachInit ==
    /\ Init
    /\ attached = Empty
    /\ toPublish = {}
    /\ outbox = Empty
    /\ answered = {}
    /\ reported = Empty
    /\ written = Empty

-----------------------------------------------------------------------------
(* Attachments.put: a send while an event is processed.                    *)
Put(w) ==
    /\ w \notin answered
    /\ \E m \in inflight[w] :
          attached' = [attached EXCEPT ![m.tp] = @ \cup {m.offset}]
    /\ answered' = answered \cup {w}
    /\ UNCHANGED <<vars, toPublish, outbox, reported, written>>

(* The agent has sent its message before it is done with the event.        *)
AgentFinish(w) ==
    /\ w \in answered
    /\ StreamFinish(w)
    /\ answered' = answered \ {w}
    /\ UNCHANGED <<attached, toPublish, outbox, reported, written>>

(* Attachments._attachments_for: entries are popped off the heap up to and *)
(* including the offset that is committed.                                 *)
AttachmentsFor(tp, commitOffset) == {o \in attached[tp] : o <= commitOffset}

(* Attachments.publish_for_tp_offset                                       *)
PublishForTpOffset(tp, commitOffset) ==
    /\ outbox' = [outbox EXCEPT ![tp] = AttachmentsFor(tp, commitOffset)]
    /\ attached' = [attached EXCEPT ![tp] = @ \ AttachmentsFor(tp, commitOffset)]

(* commit() goes into _handle_attached at once when there is something to  *)
(* commit, and publishes for the first partition before it can suspend.    *)
HandleAttached ==
    IF commitPc = "idle" /\ commitPc' = "attached"
    THEN LET tps == {tp \in TP : commitOffsets'[tp] # NoOffset}
         IN  /\ \E tp \in tps : /\ PublishForTpOffset(tp, commitOffsets'[tp])
                                /\ toPublish' = tps \ {tp}
             /\ UNCHANGED <<answered, reported, written>>
    ELSE UNCHANGED attachVars

Commit ==
    /\ CommitHandler \/ FetcherCommit \/ WaitEmptyLoop \/ WaitEmptyDone
    /\ HandleAttached

(* producer.wait_many returned: on to the next partition.                  *)
PublishNext(tp) ==
    /\ commitPc = "attached"
    /\ outbox = Empty
    /\ tp \in toPublish
    /\ PublishForTpOffset(tp, commitOffsets[tp])
    /\ toPublish' = toPublish \ {tp}
    /\ UNCHANGED <<vars, answered, reported, written>>

(* Mutant: the offsets are sent without waiting for the producer.          *)
CommitOffsetsNoWait ==
    /\ toPublish = {}
    /\ CommitAttached
    /\ UNCHANGED attachVars

(* ... and _commit_offsets after the last one.                             *)
CommitOffsets ==
    /\ toPublish = {}
    /\ outbox = Empty
    /\ CommitAttached
    /\ UNCHANGED attachVars

(* Topic._on_published: the producer is told that a message was written... *)
Confirmed(tp) ==
    /\ \E o \in outbox[tp] :
          /\ outbox' = [outbox EXCEPT ![tp] = @ \ {o}]
          /\ reported' = [reported EXCEPT ![tp] = @ \cup {o}]
          /\ written' = [written EXCEPT ![tp] = @ \cup {o}]
    /\ UNCHANGED <<vars, attached, toPublish, answered>>

(* ... or that it was given up, which sets the exception on the promise    *)
(* and is logged: wait_many returns without raising when every promise is  *)
(* done, or when the producer has crashed, and the commit goes on.         *)
SendError(tp) ==
    /\ \E o \in outbox[tp] :
          /\ outbox' = [outbox EXCEPT ![tp] = @ \ {o}]
          /\ reported' = [reported EXCEPT ![tp] = @ \cup {o}]
    /\ UNCHANGED <<vars, attached, toPublish, answered, written>>

(* Another worker publishes for the messages it processes and commits; the *)
(* deliveries that fail are this worker's.                                 *)
OtherWorkerSends(tp) ==
    /\ OtherWorker(tp)
    /\ LET o == brokerCommitted'[tp] - 1
       IN  /\ reported' = [reported EXCEPT ![tp] = @ \cup {o}]
           /\ written' = [written EXCEPT ![tp] = @ \cup {o}]
    /\ UNCHANGED <<attached, toPublish, outbox, answered>>

CrashAll ==
    /\ Crash
    /\ attached' = Empty
    /\ toPublish' = {}
    /\ outbox' = Empty
    /\ answered' = {}
    /\ UNCHANGED <<reported, written>>

(* Everything else in the consumer leaves the attachments alone; a revoke  *)
(* does, too.                                                              *)
ConsumerStep ==
    /\ \/ CommitDone \/ Fetcher \/ Revoke \/ Join \/ OnAssigned
       \/ SignalRecovery \/ Recovery
       \/ \E w \in Workers : StreamTake(w) \/ StreamSkip(w)
    /\ UNCHANGED attachVars

AttachNext ==
    \/ \E w \in Workers : Put(w) \/ AgentFinish(w)
    \/ Commit \/ CommitOffsets
    \/ \E tp \in TP : PublishNext(tp) \/ Confirmed(tp) \/ SendError(tp)
                     \/ OtherWorkerSends(tp)
    \/ CrashAll
    \/ ConsumerStep

AttachSpec == AttachInit /\ [][AttachNext]_allVars

-----------------------------------------------------------------------------
(* No commit overtakes what was sent for it: when a message is committed,  *)
(* and so will not be processed again, the producer has been told of every *)
(* message the agent sent for it, that it was written or that it was given *)
(* up, whatever commits were refused, however partitions moved and         *)
(* whenever the worker died.  What is lost is lost to a delivery that was  *)
(* reported as failed, never to a message that is still on its way.        *)
ReportedBeforeCommitted ==
    \A tp \in TP : \A o \in Log[tp] :
        o < brokerCommitted[tp] => o \in reported[tp]

(* "conforms to at-least-once semantics": what was sent for a message that *)
(* is committed has been written.  It does not hold, a delivery that was   *)
(* given up does not keep _handle_attached from committing.                *)
WrittenBeforeCommitted ==
    \A tp \in TP : \A o \in Log[tp] :
        o < brokerCommitted[tp] => o \in written[tp]

(* "only when the source message is acked, only then do we publish its     *)
(* attached messages": nothing is published for a message that is not      *)
(* processed to the end.                                                   *)
PublishedWhenAcked == \A tp \in TP : outbox[tp] \subseteq processed[tp]

=============================================================================

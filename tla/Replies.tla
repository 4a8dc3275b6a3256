------------------------------- MODULE Replies -------------------------------
(***************************************************************************)
(* faust/agents/replies.py and the RPC operations of faust/agents/agent.py *)
(* (kvjoin, kvmap): a caller sends requests to an agent and waits on a     *)
(* BarrierState, which the task of the ReplyConsumer fulfills as replies   *)
(* come in.  The agent may be anywhere in the cluster; it processes a      *)
(* request at least once, so that a reply may come twice.                  *)
(*                                                                         *)
(* A request, its correlation id and its result are one number.            *)
(***************************************************************************)
EXTENDS Integers, Sequences, FiniteSets, SequencesExt

CONSTANTS
    N,          \* requests of the operation
    QueueMax,   \* maxsize of BarrierState._results
    MaxDup,     \* bound: replies sent once more
    EarlyReply  \* a reply may come before the barrier is registered for it

ASSUME RepliesAssumption ==
    N \in Nat /\ QueueMax \in Nat \ {0} /\ MaxDup \in Nat /\ EarlyReply \in BOOLEAN

Ids == 1..N
Sentinel == 0       \* the None that wakes up iterate

VARIABLES
    op,         \* "join" or "map"
    pc,         \* where the caller is
    sent,       \* requests sent so far
    requests,   \* requests the agent has not finished
    replies,    \* records of the reply topic not read yet
    waiting,    \* correlation ids ReplyConsumer._waiting has the barrier for
    size, total, fulfilled, done, results,  \* the barrier
    got,        \* results the caller has, in the order they came
    alive,      \* the task _drain_replies runs
    dups

barrier == <<size, total, fulfilled, done, results>>
askVars == <<op, pc, sent, requests, replies, waiting, barrier, got, alive, dups>>

AskTypeOK ==
    /\ op \in {"join", "map"}
    /\ pc \in {"send", "register", "wait", "iterate", "returned", "raised"}
    /\ sent \in 0..N
    /\ requests \in SUBSET Ids
    /\ replies \in Seq(Ids)
    /\ waiting \in SUBSET Ids
    /\ size \in 0..N /\ total \in 0..N /\ fulfilled \in Nat /\ done \in BOOLEAN
    /\ results \in Seq(Ids \cup {Sentinel}) /\ Len(results) <= QueueMax
    /\ got \in Seq(Ids)
    /\ alive \in BOOLEAN
    /\ dups \in 0..MaxDup

AskInit ==
    /\ op \in {"join", "map"}
    /\ pc = "send"
    /\ sent = 0
    /\ requests = {} /\ replies = <<>> /\ waiting = {}
    /\ size = 0 /\ total = 0 /\ fulfilled = 0 /\ done = FALSE
    /\ results = <<>>
    /\ got = <<>>
    /\ alive = TRUE
    /\ dups = 0

-----------------------------------------------------------------------------
(* Agent._barrier_send                                                     *)

AskNowait ==
    /\ pc = "send" /\ sent < N
    /\ sent' = sent + 1
    /\ requests' = requests \cup {sent + 1}
    /\ pc' = "register"
    /\ UNCHANGED <<op, replies, waiting, barrier, got, alive, dups>>

(* BarrierState.add and ReplyConsumer.add; kvmap then hands on a result if *)
(* there is one (get_nowait).                                              *)
Register ==
    /\ pc = "register"
    /\ size' = size + 1
    /\ waiting' = waiting \cup {sent}
    /\ IF op = "map" /\ results # <<>>
         THEN got' = Append(got, Head(results)) /\ results' = Tail(results)
         ELSE UNCHANGED <<got, results>>
    /\ pc' = "send"
    /\ UNCHANGED <<op, sent, requests, replies, total, fulfilled, done, alive,
                   dups>>

-----------------------------------------------------------------------------
(* BarrierState: set_result and the sentinel.  A full queue raises.        *)
Done == done' = TRUE /\ results' = Append(results, Sentinel)

(* Mutant: replies that came before finalize are not counted.              *)
FilledNever == FALSE

(* finalize: the barrier may have been filled up already.                  *)
Filled == fulfilled >= total'

Finalize ==
    /\ pc = "send" /\ sent = N
    /\ total' = size
    /\ \/ /\ Filled /\ Len(results) < QueueMax
          /\ Done
          /\ pc' = "wait"
       \/ /\ Filled /\ Len(results) = QueueMax
          /\ done' = TRUE /\ pc' = "raised"
          /\ UNCHANGED results
       \/ /\ ~Filled
          /\ pc' = "wait"
          /\ UNCHANGED <<done, results>>
    /\ UNCHANGED <<op, sent, requests, replies, waiting, size, fulfilled, got,
                   alive, dups>>

(* `await barrier` in kvjoin; kvmap goes on to iterate at once.            *)
Await ==
    /\ pc = "wait"
    /\ op = "join" => done
    /\ pc' = "iterate"
    /\ UNCHANGED <<op, sent, requests, replies, waiting, barrier, got, alive,
                   dups>>

(* BarrierState.iterate: take results as they come, sentinels left out.    *)
Iterate ==
    /\ pc = "iterate" /\ results # <<>>
    /\ results' = Tail(results)
    /\ got' = IF Head(results) = Sentinel THEN got ELSE Append(got, Head(results))
    /\ UNCHANGED <<op, pc, sent, requests, replies, waiting, size, total,
                   fulfilled, done, alive, dups>>

(* Mutant: iterate ends as soon as the barrier is done.                    *)
ReturnEarly ==
    /\ pc = "iterate" /\ done
    /\ pc' = "returned"
    /\ waiting' = {}
    /\ UNCHANGED <<op, sent, requests, replies, barrier, got, alive, dups>>

(* Nothing is left.  The barrier is freed, and with it its entries in the  *)
(* WeakSets of ReplyConsumer._waiting.                                     *)
Return ==
    /\ pc = "iterate" /\ done /\ results = <<>>
    /\ pc' = "returned"
    /\ waiting' = {}
    /\ UNCHANGED <<op, sent, requests, replies, barrier, got, alive, dups>>

Caller == AskNowait \/ Register \/ Finalize \/ Await \/ Iterate \/ Return

-----------------------------------------------------------------------------
(* Agent._slurp and _reply: the result of a request goes to the reply      *)
(* topic.  A worker that fails before the commit, or an agent that yields  *)
(* more than once, sends it again.                                         *)
Reply(i) ==
    /\ i \in requests
    /\ i \in waiting \/ EarlyReply \/ pc \in {"returned", "raised"}
    /\ replies' = Append(replies, i)
    /\ \/ requests' = requests \ {i} /\ UNCHANGED dups
       \/ /\ dups < MaxDup
          /\ dups' = dups + 1
          /\ UNCHANGED requests
    /\ UNCHANGED <<op, pc, sent, waiting, barrier, got, alive>>

(* BarrierState.fulfill: all replies are in.                               *)
Ready == total # 0 /\ fulfilled' >= total

(* BarrierState.fulfill.  A full queue, or a second set_result, raises in  *)
(* the task that reads the reply topic.                                    *)
Fulfill(i) ==
    IF Len(results) = QueueMax
      THEN alive' = FALSE /\ UNCHANGED <<fulfilled, done, results>>
      ELSE /\ fulfilled' = fulfilled + 1
           /\ done' = (done \/ Ready)
           /\ IF Ready /\ ~done /\ Len(results) + 1 < QueueMax
                THEN results' = results \o <<i, Sentinel>> /\ UNCHANGED alive
                ELSE /\ results' = Append(results, i)
                     /\ alive' = ~Ready

(* ReplyConsumer._drain_replies                                            *)
DrainReplies ==
    /\ alive /\ replies # <<>>
    /\ replies' = Tail(replies)
    /\ IF Head(replies) \in waiting
         THEN Fulfill(Head(replies))
         ELSE UNCHANGED <<fulfilled, done, results, alive>>
    /\ UNCHANGED <<op, pc, sent, requests, waiting, size, total, got, dups>>

AskNext == Caller \/ (\E i \in Ids : Reply(i)) \/ DrainReplies

AskSpec == AskInit /\ [][AskNext]_askVars

(* The tasks run, and the agent answers every request.                     *)
AskFairness ==
    /\ WF_askVars(Caller) /\ WF_askVars(DrainReplies)
    /\ \A i \in Ids : WF_askVars(Reply(i))
FairAskSpec == AskSpec /\ AskFairness

-----------------------------------------------------------------------------
(* join and map return every result, and each of them once.                *)
Answered ==
    pc = "returned" => Len(got) = N /\ Range(got) = Ids

(* The operation comes to an end: the caller is woken up whether the last  *)
(* reply comes before the barrier is finalized or after it.                *)
EventuallyReturned == <>(pc = "returned")
=============================================================================

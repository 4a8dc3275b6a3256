------------------------------- MODULE Delivery -------------------------------
(***************************************************************************)
(* faust/transport/conductor.py: how a message the consumer has read       *)
(* reaches the streams of all channels that subscribe to its topic, and    *)
(* when it counts as acked.  The channels share one Message object with a  *)
(* reference count; a channel whose queue is full is given the event by a  *)
(* task of its own; a channel under pressure takes the partition out of    *)
(* the fetcher until its queue has drained.                                *)
(*                                                                         *)
(* Offsets, commits and the order of the rebalance callbacks are those of  *)
(* module Consumer, which has a single channel; here a rebalance revokes   *)
(* all partitions, waits for the streams and assigns all of them again.    *)
(* The worker has no tables to recover and its producer buffer has room.   *)
(***************************************************************************)
EXTENDS Integers, Sequences, FiniteSets, FiniteSetsExt

CONSTANTS
    TP,         \* the partitions of the topic
    Channels,   \* channels subscribed to it, each read by one stream
    Log,        \* Log[tp]: offsets of the messages of a partition
    BadFor,     \* BadFor[tp]: channel c fails to decode <<offset, c>>
    MaxSize,    \* stream_buffer_maxsize
    High,       \* a queue of this many events is under high pressure ...
    Low,        \* ... until it is down to this many
    MaxPoll,    \* bound: records of a partition returned by one fetch
    MaxGen      \* bound: generations of the consumer group

ASSUME DeliveryAssumption ==
    /\ IsFiniteSet(Channels) /\ Channels # {}
    /\ Log \in [TP -> SUBSET Nat]
    /\ \A tp \in TP : Log[tp] # {} => \E last \in Log[tp] : \A o \in Log[tp] : o <= last
    /\ BadFor \in [TP -> SUBSET (Nat \X Channels)]
    /\ MaxSize \in Nat \ {0} /\ High \in Nat /\ Low \in Nat
    /\ MaxPoll \in Nat \ {0}
    /\ MaxGen \in Nat \ {0}

(* A Message is made anew each time its record is fetched.                 *)
Message ==
    UNION {[tp : {tp}, offset : Log[tp], gen : 1..MaxGen] : tp \in TP}

VARIABLES
    generation,  \* app.consumer_generation_id
    flow,        \* flow control is active
    order,       \* order in which a set of channels is iterated
    position,    \* position[tp]: where the next fetch starts
    batch,       \* messages fetched and not yet given to the conductor
    waiting,     \* message the callback under way waits with, if any
    puts,        \* <<c, m>>: task that waits for room in the queue of c
    queue,       \* events in the queue of each channel
    errors,      \* decode errors thrown into the queue of each channel
    refcount,    \* Message.refcount
    acked,       \* messages with acked set: handed to Consumer.ack
    tracked,     \* messages with tracked set
    busy,        \* event each stream is processing
    active,      \* Consumer._active_partitions
    buffered,    \* Consumer._buffered_partitions
    pending,     \* <<tp, gen>>: on_pressure_drop of a conductor callback, in
                 \* the queue of each channel
    seen         \* history: messages each channel's stream has processed, or
                 \* was told it cannot decode

fetchVars == <<position, batch>>
countVars == <<refcount, acked, tracked>>
pressureVars == <<active, buffered, pending>>
vars == <<generation, flow, order, fetchVars, waiting, puts, queue, errors,
          countVars, busy, pressureVars, seen>>

TypeOK ==
    /\ generation \in 1..MaxGen
    /\ flow \in BOOLEAN
    /\ order \in [Channels -> 1..Cardinality(Channels)]
    /\ position \in [TP -> Nat]
    /\ batch \in SUBSET Message
    /\ waiting \in SUBSET Message /\ \A m, n \in waiting : m = n
    /\ puts \in SUBSET (Channels \X Message)
    /\ queue \in [Channels -> Seq(Message)]
    /\ errors \in [Channels -> SUBSET Message]
    /\ refcount \in [Message -> 0..Cardinality(Channels)]
    /\ acked \in SUBSET Message
    /\ tracked \in SUBSET Message
    /\ busy \in [Channels -> SUBSET Message]
    /\ active \in SUBSET TP
    /\ buffered \in SUBSET TP
    /\ pending \in [Channels -> SUBSET (TP \X (1..MaxGen))]
    /\ seen \in [Channels -> SUBSET (TP \X Nat)]

(* A worker that has just been assigned its partitions.                    *)
Init ==
    /\ generation = 1
    /\ flow = TRUE
    /\ order \in {f \in [Channels -> 1..Cardinality(Channels)] :
                    \A c, d \in Channels : f[c] = f[d] => c = d}
    /\ position = [tp \in TP |-> 0]
    /\ batch = {}
    /\ waiting = {}
    /\ puts = {}
    /\ queue = [c \in Channels |-> <<>>]
    /\ errors = [c \in Channels |-> {}]
    /\ refcount = [m \in Message |-> 0]
    /\ acked = {}
    /\ tracked = {}
    /\ busy = [c \in Channels |-> {}]
    /\ active = TP
    /\ buffered = {}
    /\ pending = [c \in Channels |-> {}]
    /\ seen = [c \in Channels |-> {}]

Id(m) == <<m.tp, m.offset>>

-----------------------------------------------------------------------------
(* The fetcher.                                                            *)

(* getmany goes on with records of partitions that were taken out of the   *)
(* fetcher because of pressure.                                            *)
Wanted == {m \in batch : m.tp \in active \cup buffered}

(* Consumer._wait_next_records: fetch from the active partitions.          *)
Fetch ==
    /\ flow
    /\ waiting = {}
    /\ Wanted = {}
    /\ active # {}
    /\ \E upTo \in [TP -> UNION {Log[tp] : tp \in TP}] :
          LET new == {m \in Message : /\ m.gen = generation
                                      /\ m.tp \in active
                                      /\ position[m.tp] <= m.offset
                                      /\ m.offset <= upTo[m.tp]}
          IN  /\ new # {}
              /\ \A tp \in TP : Cardinality({m \in new : m.tp = tp}) <= MaxPoll
              /\ batch' = new
              /\ position' = [tp \in TP |->
                    Max({position[tp]} \cup {m.offset + 1 : m \in
                                               {n \in new : n.tp = tp}})]
    /\ UNCHANGED <<generation, flow, order, waiting, puts, queue, errors,
                   countVars, busy, pressureVars, seen>>

-----------------------------------------------------------------------------
(* ConductorHandler.__call__ / ConductorCompiler.build.on_message.         *)

(* Channels the loop gets to before one of them cannot decode the message, *)
(* and those of them whose queue takes it at once.                         *)
Reached(m) ==
    {c \in Channels : \A d \in Channels :
        <<m.offset, d>> \in BadFor[m.tp] => order[c] < order[d]}

Delivered(m) == {c \in Reached(m) : Len(queue[c]) < MaxSize}

(* put_nowait_enhanced finds the queue under high pressure.  It says so    *)
(* once, until the pressure has dropped.                                   *)
PressureHigh(m) ==
    {c \in Delivered(m) : /\ Len(queue[c]) >= High
                          /\ <<m.tp, m.gen>> \notin pending[c]}

(* Mutant: only the channels that were given the event are counted.        *)
StartCountDelivered(m) == Cardinality(Delivered(m))

(* Mutant: each channel is counted once more when it gets the event.       *)
StartCountTwice(m) == Cardinality(Channels) + Cardinality(Delivered(m))

(* message.incref(channels_n)                                              *)
StartCount(m) == Cardinality(Channels)

(* Mutant: the references of the other channels are kept.                  *)
FailedCountKept(m, remaining) == StartCount(m)

(* message.ack(consumer, n=len(remaining)) after a decode error            *)
FailedCount(m, remaining) ==
    Max({StartCount(m) - Cardinality(remaining), 0})

(* The loop over the channels does not suspend.  When one of them cannot   *)
(* decode the message, all channels it was not put to yet are told so, and *)
(* their references are dropped; otherwise the callback waits for those    *)
(* whose queue is full.                                                    *)
OnMessage(m) ==
    LET remaining == Channels \ Delivered(m)
        failed == Reached(m) # Channels
        count == IF failed THEN FailedCount(m, remaining)
                           ELSE StartCount(m)
    IN  /\ flow
        /\ waiting = {}
        /\ m \in Wanted
        /\ \A n \in batch : n.tp = m.tp => m.offset <= n.offset
        /\ batch' = batch \ {m}
        /\ refcount' = [refcount EXCEPT ![m] = count]
        /\ acked' = IF failed /\ count = 0 THEN acked \cup {m} ELSE acked
        /\ queue' = [c \in Channels |->
             IF c \in Delivered(m) THEN Append(queue[c], m) ELSE queue[c]]
        /\ IF failed
           THEN /\ errors' = [c \in Channels |->
                     IF c \in remaining THEN errors[c] \cup {m} ELSE errors[c]]
                /\ UNCHANGED <<puts, waiting>>
           ELSE /\ puts' = puts \cup {<<c, m>> : c \in remaining}
                /\ waiting' = IF remaining = {} THEN {} ELSE {m}
                /\ UNCHANGED errors
        /\ pending' = [c \in Channels |->
             IF c \in PressureHigh(m)
             THEN pending[c] \cup {<<m.tp, m.gen>>} ELSE pending[c]]
        /\ IF PressureHigh(m) # {}
           THEN active' = active \ {m.tp} /\ buffered' = buffered \cup {m.tp}
           ELSE UNCHANGED <<active, buffered>>
        /\ UNCHANGED <<generation, flow, order, position, tracked, busy, seen>>

(* A task of the callback finds room in the queue.  The last one lets the  *)
(* callback return; it goes on when the callback was cancelled.            *)
HandleFull(c, m) ==
    /\ <<c, m>> \in puts
    /\ Len(queue[c]) < MaxSize
    /\ queue' = [queue EXCEPT ![c] = Append(@, m)]
    /\ puts' = puts \ {<<c, m>>}
    /\ waiting' = IF \E d \in Channels : <<d, m>> \in puts'
                  THEN waiting ELSE waiting \ {m}
    /\ UNCHANGED <<generation, flow, order, fetchVars, errors, countVars, busy,
                   pressureVars, seen>>

-----------------------------------------------------------------------------
(* Streams.                                                                *)

(* Mutant: on_buffer_drop forgets to enable the partition again.           *)
OnPressureDropKeeps(c, tps) ==
    /\ pending' = [pending EXCEPT ![c] = {}]
    /\ buffered' = buffered \ tps
    /\ UNCHANGED active

(* The queue of c has drained: its pending on_pressure_drop callbacks call *)
(* Consumer.on_buffer_drop, which leaves partitions alone that are not     *)
(* buffered (any more).                                                    *)
OnPressureDrop(c, tps) ==
    /\ pending' = [pending EXCEPT ![c] = {}]
    /\ active' = active \cup (buffered \cap tps)
    /\ buffered' = buffered \ tps

Get(c) ==
    /\ queue[c] # <<>>
    /\ busy[c] = {}
    /\ errors[c] = {}
    /\ queue' = [queue EXCEPT ![c] = Tail(@)]
    /\ IF Len(queue[c]) - 1 <= Low
       THEN OnPressureDrop(c, {p[1] : p \in pending[c]})
       ELSE UNCHANGED pressureVars
    /\ UNCHANGED <<generation, flow, order, fetchVars, waiting, puts, errors,
                   refcount, acked, seen>>

Stale(m) == ~flow \/ m.gen # generation

(* The stream of c takes an event and tracks its message ...               *)
StreamTake(c) ==
    /\ Get(c)
    /\ ~Stale(Head(queue[c]))
    /\ busy' = [busy EXCEPT ![c] = {Head(queue[c])}]
    /\ tracked' = tracked \cup {Head(queue[c])}

(* ... or skips it, without an ack, in a rebalance.                        *)
StreamSkip(c) ==
    /\ Get(c)
    /\ Stale(Head(queue[c]))
    /\ UNCHANGED <<busy, tracked>>

(* StreamIterator.after: the last stream acks the message.                 *)
StreamFinish(c) ==
    /\ \E m \in busy[c] :
          /\ seen' = [seen EXCEPT ![c] = @ \cup {Id(m)}]
          /\ IF m \in acked
             THEN UNCHANGED <<refcount, acked>>
             ELSE /\ refcount' = [refcount EXCEPT ![m] = Max({@ - 1, 0})]
                  /\ acked' = IF refcount'[m] = 0 THEN acked \cup {m} ELSE acked
    /\ busy' = [busy EXCEPT ![c] = {}]
    /\ UNCHANGED <<generation, flow, order, fetchVars, waiting, puts, queue,
                   errors, tracked, pressureVars>>

(* A decode error is raised in the stream before it takes another event;   *)
(* the agent is started again on the same channel.                         *)
StreamError(c) ==
    /\ busy[c] = {}
    /\ \E m \in errors[c] :
          /\ errors' = [errors EXCEPT ![c] = @ \ {m}]
          /\ seen' = [seen EXCEPT ![c] = @ \cup {Id(m)}]
    /\ UNCHANGED <<generation, flow, order, fetchVars, waiting, puts, queue,
                   countVars, busy, pressureVars>>

-----------------------------------------------------------------------------
(* Rebalance, in two steps.                                                *)

(* All partitions are revoked: the callback under way is cancelled, but    *)
(* not the tasks it has started.  _buffered_partitions is left alone.      *)
Revoke ==
    /\ flow
    /\ generation < MaxGen
    /\ flow' = FALSE
    /\ queue' = [c \in Channels |-> <<>>]
    /\ batch' = {}
    /\ waiting' = {}
    /\ active' = {}
    /\ UNCHANGED <<generation, order, position, puts, errors, countVars, busy,
                   buffered, pending, seen>>

(* Consumer._unacked_messages is a WeakSet: a tracked message nobody holds *)
(* any more drops out of it.                                               *)
Holders(m) ==
    {c \in Channels : \/ m \in busy[c]
                      \/ <<c, m>> \in puts
                      \/ \E i \in DOMAIN queue[c] : queue[c][i] = m}

Unacked == {m \in tracked \ acked : Holders(m) # {}}

(* Messages below this offset are acked, and committed by wait_empty.      *)
Committed(tp) ==
    {o \in Log[tp] : \A p \in Log[tp] :
        p <= o => <<tp, p>> \in {Id(m) : m \in acked}}

(* wait_empty is done, the partitions are assigned and read from the       *)
(* committed offsets on.                                                   *)
Resume ==
    /\ ~flow
    /\ Unacked = {}
    /\ generation' = generation + 1
    /\ flow' = TRUE
    /\ active' = TP
    /\ position' = [tp \in TP |-> IF Committed(tp) = {} THEN 0
                                  ELSE Max(Committed(tp)) + 1]
    /\ UNCHANGED <<order, batch, waiting, puts, queue, errors, countVars, busy,
                   buffered, pending, seen>>

-----------------------------------------------------------------------------
Fetcher == Fetch \/ \E m \in batch : OnMessage(m)

Stream(c) == StreamTake(c) \/ StreamSkip(c) \/ StreamFinish(c) \/ StreamError(c)

Next ==
    \/ Fetcher
    \/ \E p \in puts : HandleFull(p[1], p[2])
    \/ \E c \in Channels : Stream(c)
    \/ Revoke \/ Resume

Spec == Init /\ [][Next]_vars

-----------------------------------------------------------------------------
(* "nothing will get a chance to decref to zero before we've had the       *)
(* chance to pass it to all channels": a message is handed to Consumer.ack *)
(* only when every channel has either processed it or been thrown the      *)
(* decode error.                                                           *)
AckedAfterAll ==
    \A m \in acked : \A c \in Channels :
        Id(m) \in seen[c] \/ m \in errors[c]

(* As long as a channel holds a message of the current generation, the     *)
(* message keeps a reference for it, so that the last one acks it.         *)
ReferencePerHolder ==
    \A m \in Message :
        IF flow /\ m.gen = generation
        THEN refcount[m] = Cardinality(Holders(m))
        ELSE refcount[m] >= Cardinality(Holders(m))

(* Each coroutine that can run does, agents finish their events and a      *)
(* rebalance that has started is completed.                                *)
Fairness ==
    /\ WF_vars(Fetcher)
    /\ \A c \in Channels : WF_vars(\E m \in Message : HandleFull(c, m))
    /\ \A c \in Channels : WF_vars(Stream(c))
    /\ WF_vars(Resume)

FairSpec == Spec /\ Fairness

(* No message is stuck, whatever is full, cannot be decoded or is cut off  *)
(* by a rebalance: in the end all are acked.                               *)
EventuallyAcked ==
    \A tp \in TP : \A o \in Log[tp] : <>(\E m \in acked : Id(m) = <<tp, o>>)

(* Back pressure is released: a partition taken out of the fetcher is put  *)
(* back.                                                                   *)
FetchedAgain == \A tp \in TP : []<>(tp \in active)

=============================================================================

--------------------------------- MODULE Take ---------------------------------
(***************************************************************************)
(* Stream.take and noack_take (streams.py): an agent reads its stream in   *)
(* batches.  A task of the stream, the drainer, iterates over the channel  *)
(* and runs each event through the processors of the stream, one of which  *)
(* the generator behind take() has added to fill its buffer; the generator *)
(* gives the buffer to the agent when it is full or after a timeout.       *)
(*                                                                         *)
(* When the agent raises, its generator is left to the asynchronous        *)
(* generator hooks of asyncio, and the supervisor starts the agent again   *)
(* with the same stream: generators are numbered in the order they begin.  *)
(***************************************************************************)
EXTENDS Integers, Sequences, FiniteSets, SequencesExt

CONSTANTS
    Events,     \* bound: events 1, 2, ... in the channel
    Filtered,   \* those that a processor before take() skips
    MaxBatch,   \* max_
    MaxErrors   \* bound: exceptions in the agent

ASSUME TakeAssumption ==
    /\ Events \in Nat /\ Filtered \subseteq 1..Events
    /\ MaxBatch \in Nat \ {0} /\ MaxErrors \in Nat

VARIABLES
    manual,      \* noack_take: the agent acks
    within,      \* there is a timeout
    enableAcks,  \* Stream.enable_acks
    processors,  \* the add_to_buffer of generators in Stream._processors
    takes,       \* the generators
    phase,       \* where the drainer is
    event,       \* the event it has, zero if none
    index,       \* how many processors it has come to for this event
    at,          \* the generator whose add_to_buffer it has come to
    doAck,       \* the drainer acks this event
    next,        \* first event in the queue of the channel
    acked,
    done,        \* history: events of batches the agent is done with
    errors

options == <<manual, within>>
drainer == <<phase, event, index, at, doAck, next>>
vars == <<options, enableAcks, processors, takes, drainer, acked, done, errors>>

Generator == [state : {"waiting", "yielded", "left", "closed"},
              buffer : Seq(1..Events),
              full : BOOLEAN,         \* buffer_full
              consumed : BOOLEAN,     \* buffer_consumed
              consuming : {"none", "pending", "done"},  \* buffer_consuming
              saved : BOOLEAN]        \* stream_enable_acks

(* A batch has no more than max_ values: "If max is 1000, we are not       *)
(* allowed to return 1001 values."                                         *)
TypeOK ==
    /\ manual \in BOOLEAN /\ within \in BOOLEAN /\ enableAcks \in BOOLEAN
    /\ processors \in Seq(DOMAIN takes)
    /\ takes \in Seq(Generator)
    /\ \A g \in DOMAIN takes : Len(takes[g].buffer) <= MaxBatch
    /\ phase \in {"start", "get", "process", "consuming", "consumed"}
    /\ event \in 0..Events /\ index \in Nat /\ at \in 0..Len(takes)
    /\ doAck \in BOOLEAN
    /\ next \in 1..Events + 1
    /\ acked \subseteq 1..Events /\ done \subseteq 1..Events
    /\ errors \in 0..MaxErrors

NewTake(saved) ==
    [state |-> "waiting", buffer |-> <<>>, full |-> FALSE, consumed |-> FALSE,
     consuming |-> "none", saved |-> saved]

Init ==
    /\ manual \in BOOLEAN /\ within \in BOOLEAN
    /\ enableAcks = FALSE
    /\ processors = <<1>> /\ takes = <<NewTake(TRUE)>>
    /\ phase = "start" /\ event = 0 /\ index = 0 /\ at = 0 /\ doAck = FALSE
    /\ next = 1
    /\ acked = {} /\ done = {} /\ errors = 0

-----------------------------------------------------------------------------
(* The drainer                                                             *)

(* A new round of the stream's iterator, which looks at enable_acks before *)
(* it waits for an event.                                                  *)
Start ==
    /\ phase = "start"
    /\ doAck' = enableAcks
    /\ phase' = "get"
    /\ UNCHANGED <<options, enableAcks, processors, takes, event, index, at, next,
                   acked, done, errors>>

(* An event that is skipped is acked whatever enable_acks says.            *)
Get ==
    /\ phase = "get" /\ next <= Events
    /\ next' = next + 1
    /\ IF next \in Filtered
         THEN /\ phase' = "start"
              /\ acked' = acked \cup {next}
              /\ UNCHANGED <<event, index>>
         ELSE /\ phase' = "process"
              /\ event' = next /\ index' = 0
              /\ UNCHANGED acked
    /\ UNCHANGED <<options, enableAcks, processors, takes, at, doAck, done,
                   errors>>

(* Mutant: the drainer does not wait for a full buffer to be consumed.     *)
AddToBufferOnly(g) ==
    /\ takes' = [takes EXCEPT ![g].consuming = "none",
                              ![g].buffer = Append(@, event),
                              ![g].full = Len(takes[g].buffer) + 1 >= MaxBatch,
                              ![g].consumed = FALSE]
    /\ phase' = "process"

(* add_to_buffer, once the buffer is not being consumed.                   *)
AddToBuffer(g) ==
    LET buffer == Append(takes[g].buffer, event)
        full == Len(buffer) >= MaxBatch
    IN  /\ takes' = [takes EXCEPT ![g].consuming = "none",
                                  ![g].buffer = buffer,
                                  ![g].full = @ \/ full,
                                  ![g].consumed = @ /\ ~full]
        /\ phase' = IF full THEN "consumed" ELSE "process"

(* "for processor in processors": the list may change under the loop.      *)
Process ==
    /\ phase = "process" /\ index < Len(processors)
    /\ index' = index + 1
    /\ at' = processors[index']
    /\ IF takes[at'].consuming = "pending"
         THEN phase' = "consuming" /\ UNCHANGED takes
         ELSE AddToBuffer(at')
    /\ UNCHANGED <<options, enableAcks, processors, event, doAck, next, acked,
                   done, errors>>

(* "await buffer_consuming"                                                *)
BufferConsumingDone ==
    /\ phase = "consuming" /\ takes[at].consuming = "done"
    /\ AddToBuffer(at)
    /\ UNCHANGED <<options, enableAcks, processors, event, index, at, doAck, next,
                   acked, done, errors>>

(* "await self.wait(buffer_consumed)"                                      *)
BufferConsumed ==
    /\ phase = "consumed" /\ takes[at].consumed
    /\ phase' = "process"
    /\ UNCHANGED <<options, enableAcks, processors, takes, event, index, at, doAck,
                   next, acked, done, errors>>

(* Mutant: the drainer acks as if the stream was read by the agent itself. *)
AfterAcks ==
    /\ phase = "process" /\ index >= Len(processors)
    /\ acked' = acked \cup {event}
    /\ phase' = "start"
    /\ UNCHANGED <<options, enableAcks, processors, takes, event, index, at, doAck,
                   next, done, errors>>

(* The value has been through all processors, and the drainer is done with *)
(* it.                                                                     *)
After ==
    /\ phase = "process" /\ index >= Len(processors)
    /\ acked' = IF doAck THEN acked \cup {event} ELSE acked
    /\ phase' = "start"
    /\ UNCHANGED <<options, enableAcks, processors, takes, event, index, at, doAck,
                   next, done, errors>>

(* There is no other await that the drainer can be suspended in.           *)
Suspended == phase \in {"get", "consuming", "consumed"}

Drain == Start \/ Get \/ Process \/ BufferConsumingDone \/ BufferConsumed \/ After

-----------------------------------------------------------------------------
(* The generators, and the agent                                           *)

(* The buffer is full, or the time is up.                                  *)
Yield(g) ==
    /\ takes[g].state = "waiting" /\ takes[g].buffer # <<>>
    /\ takes[g].full \/ within
    /\ takes' = [takes EXCEPT ![g].state = "yielded", ![g].consuming = "pending"]
    /\ UNCHANGED <<options, enableAcks, processors, drainer, acked, done, errors>>

(* Mutant: the buffer is not cleared.                                      *)
ConsumedKeeps(g, state) ==
    takes' = [takes EXCEPT ![g].state = state, ![g].consuming = "done",
                           ![g].full = FALSE, ![g].consumed = TRUE]

(* Mutant: the drainer is let go on by one of two ways only.               *)
ConsumedOnly(g, state) ==
    takes' = [takes EXCEPT ![g].state = state, ![g].buffer = <<>>,
                           ![g].consuming = "done", ![g].full = FALSE]

(* The finally block after the yield.                                      *)
Consumed(g, state) ==
    takes' = [takes EXCEPT ![g].state = state, ![g].buffer = <<>>,
                           ![g].consuming = "done", ![g].full = FALSE,
                           ![g].consumed = TRUE]

(* The agent asks for the next batch; one that uses noack_take has acked   *)
(* the events itself.                                                      *)
Finish(g) ==
    /\ takes[g].state = "yielded"
    /\ Consumed(g, "waiting")
    /\ done' = done \cup ToSet(takes[g].buffer)
    /\ acked' = acked \cup ToSet(takes[g].buffer)
    /\ UNCHANGED <<options, enableAcks, processors, drainer, errors>>

(* The agent raises.                                                       *)
Error(g) ==
    /\ takes[g].state = "yielded"
    /\ errors < MaxErrors
    /\ errors' = errors + 1
    /\ takes' = [takes EXCEPT ![g].state = "left"]
    /\ done' = done \cup ToSet(takes[g].buffer)
    /\ UNCHANGED <<options, enableAcks, processors, drainer, acked>>

(* aclose() of the generator the agent has left: both finally blocks.      *)
Close(g) ==
    /\ takes[g].state = "left"
    /\ Consumed(g, "closed")
    /\ acked' = IF manual THEN acked ELSE acked \cup ToSet(takes[g].buffer)
    /\ enableAcks' = takes[g].saved
    /\ processors' = RemoveFirst(processors, g)
    /\ UNCHANGED <<options, drainer, done, errors>>

(* Agent._replace_actor: the new actor calls take() on the same stream.    *)
Restart ==
    /\ \A g \in DOMAIN takes : takes[g].state \in {"left", "closed"}
    /\ takes' = Append(takes, NewTake(enableAcks))
    /\ enableAcks' = FALSE
    /\ processors' = Append(processors, Len(takes'))
    /\ UNCHANGED <<options, drainer, acked, done, errors>>

Next ==
    \/ Drain
    \/ \E g \in DOMAIN takes :
         Suspended /\ (Yield(g) \/ Finish(g) \/ Error(g) \/ Close(g))
    \/ Suspended /\ Restart

Spec == Init /\ [][Next]_vars

(* The drainer always comes back to an await, so the event loop gets to    *)
(* the other tasks; events and timeouts come, and agents get done.         *)
Fairness ==
    /\ WF_vars(Drain) /\ SF_vars(Suspended /\ Restart)
    /\ SF_vars(\E g \in DOMAIN takes : Suspended /\ (Yield(g) \/ Finish(g)))
    /\ SF_vars(\E g \in DOMAIN takes : Suspended /\ Close(g))
FairSpec == Spec /\ Fairness

-----------------------------------------------------------------------------
(* Events get to the agent in the order of the channel and once, whichever *)
(* generator they go through, and after errors too.                        *)
InOrder ==
    \A g \in DOMAIN takes : takes[g].state \in {"waiting", "yielded"} =>
        \A i \in DOMAIN takes[g].buffer :
            \A e \in done \cup ToSet(SubSeq(takes[g].buffer, 1, i - 1)) :
                takes[g].buffer[i] > e

(* As long as the agent does not fail, an event is acked when the agent is *)
(* done with it, or was skipped.                                           *)
AckedAfterDone == errors = 0 => acked \subseteq done \cup Filtered

(* As long as the agent does not fail, every event gets to it and is acked *)
(* in the end; without a timeout, the last few wait for a full buffer.     *)
EventuallyAcked ==
    [](errors = 0) =>
        <>(Cardinality(1..Events \ acked) < (IF within THEN 1 ELSE MaxBatch))

(* "Disable acks to ensure this method acks manually events only after     *)
(* they are consumed by the user", also when the agent is restarted.       *)
OnlyAfterConsumed == acked \subseteq done \cup Filtered
=============================================================================

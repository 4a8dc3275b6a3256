-------------------------------- MODULE Agents --------------------------------
(***************************************************************************)
(* An agent with isolated partitions (agents/agent.py, agents/actor.py):   *)
(* one actor for each partition the worker is assigned, started and        *)
(* stopped by AgentManager.on_rebalance, replaced by the supervisor when   *)
(* it fails; and the index by which the conductor (transport/conductor.py) *)
(* finds the channels of a partition afterwards.                           *)
(*                                                                         *)
(* An actor that is replaced leaves its stream, and so its channel, to the *)
(* next: streams are numbered in the order they are made, and each has the *)
(* state of the actor that reads it.  What _actor_by_partition refers to   *)
(* is the first actor of a stream, dead or not; the services of the mode   *)
(* library, which keep it, and its supervisor are external.                *)
(***************************************************************************)
EXTENDS Integers, Sequences, FiniteSets, FiniteSetsExt

CONSTANTS
    Partitions,     \* numbers
    MayIdle,        \* the worker may have no partitions in between
    MaxRebalance,   \* bound: rebalances
    MaxErrors       \* bound: exceptions in the agent

ASSUME AgentsAssumption ==
    /\ Partitions \subseteq Nat
    /\ MayIdle \in BOOLEAN
    /\ MaxRebalance \in Nat /\ MaxErrors \in Nat

VARIABLES
    up,           \* the worker runs
    assigned,     \* App._assignment
    stage,        \* where _on_partitions_assigned is
    revoke, assign,  \* partitions it still has to see to
    streams,      \* the streams of the actors
    byPartition,  \* _actor_by_partition: a stream, zero if there is none
    firstDone,    \* _first_assignment_done
    index,        \* Conductor._tp_index
    rebalances, errors

callback == <<stage, revoke, assign>>
vars == <<up, assigned, callback, streams, byPartition, firstDone, index,
          rebalances, errors>>

Stream == [tps : SUBSET Partitions,
           state : {"waiting", "busy", "crashed", "ended"},
           replaced : BOOLEAN,  \* the actor is not the first one
           thrown : BOOLEAN]  \* StopAsyncIteration waits in its channel

TypeOK ==
    /\ up \in BOOLEAN
    /\ assigned \subseteq Partitions
    /\ stage \in {"idle", "revoke", "assign"}
    /\ revoke \subseteq Partitions /\ assign \subseteq assigned
    /\ streams \in Seq(Stream)
    /\ byPartition \in [Partitions -> 0..Len(streams)]
    /\ firstDone \in BOOLEAN
    /\ index \in [Partitions -> SUBSET (1..Len(streams))]
    /\ rebalances \in 0..MaxRebalance /\ errors \in 0..MaxErrors

Started(tps) ==
    [tps |-> tps, state |-> "waiting", replaced |-> FALSE, thrown |-> FALSE]

(* Agent._on_start_supervisor: the first actor has no partition yet.       *)
Boot ==
    /\ up = TRUE
    /\ assigned = {} /\ stage = "idle" /\ revoke = {} /\ assign = {}
    /\ streams = <<Started({})>>
    /\ byPartition = [tp \in Partitions |-> 0]
    /\ firstDone = FALSE
    /\ index = [tp \in Partitions |-> {}]

Init == Boot /\ rebalances = 0 /\ errors = 0

-----------------------------------------------------------------------------
(* App._on_partitions_assigned                                             *)

Rebalance(new) ==
    /\ up /\ stage = "idle"
    /\ rebalances < MaxRebalance
    /\ rebalances' = rebalances + 1
    /\ new # assigned /\ (MayIdle \/ new # {})
    /\ assigned' = new
    /\ revoke' = assigned \ new /\ assign' = new \ assigned
    /\ stage' = "revoke"
    /\ UNCHANGED <<up, streams, byPartition, firstDone, index, errors>>

(* Actor.on_isolated_partition_revoked throws into the channel, twice with *)
(* Actor.on_stop, so that an actor that waits for an event ends, and waits *)
(* for the task of the first actor.  If that does not end in time, it is   *)
(* cancelled, which _execute_actor takes for a crash.  A replacement that  *)
(* has an event is left alone.                                             *)
Stopped(s, inTime) ==
    [s EXCEPT !.thrown = TRUE,
              !.state = CASE @ = "busy" /\ s.replaced -> "busy"
                          [] @ = "busy" /\ ~s.replaced /\ ~inTime -> "crashed"
                          [] @ = "crashed" -> "crashed"
                          [] OTHER -> "ended"]

OnIsolatedPartitionRevoked(tp, inTime) ==
    /\ up /\ stage = "revoke" /\ tp \in revoke
    /\ revoke' = revoke \ {tp}
    /\ byPartition' = [byPartition EXCEPT ![tp] = 0]
    /\ streams' = [c \in DOMAIN streams |->
                     IF c = byPartition[tp] THEN Stopped(streams[c], inTime)
                     ELSE streams[c]]
    /\ UNCHANGED <<up, assigned, stage, assign, firstDone, index, rebalances,
                   errors>>

AllRevoked ==
    /\ up /\ stage = "revoke" /\ revoke = {}
    /\ stage' = "assign"
    /\ UNCHANGED <<up, assigned, revoke, assign, streams, byPartition, firstDone,
                   index, rebalances, errors>>

First == ~firstDone /\ \A tp \in Partitions : byPartition[tp] = 0

(* Mutant: the partition given to the first actor is not registered.       *)
AssignTwice(tp) ==
    /\ firstDone' = TRUE
    /\ streams' = Append(IF First THEN [streams EXCEPT ![1].tps = {tp}]
                         ELSE streams, Started({tp}))
    /\ byPartition' = [byPartition EXCEPT ![tp] = Len(streams) + 1]

(* _assign_isolated_partition: the first partition goes to the actor       *)
(* started at boot, others get an actor of their own.                      *)
AssignIsolatedPartition(tp) ==
    \/ /\ First
       /\ firstDone' = TRUE
       /\ streams' = [streams EXCEPT ![1].tps = @ \cup {tp}]
       /\ byPartition' = [byPartition EXCEPT ![tp] = 1]
    \/ /\ ~First /\ byPartition[tp] = 0
       /\ streams' = Append(streams, Started({tp}))
       /\ byPartition' = [byPartition EXCEPT ![tp] = Len(streams) + 1]
       /\ UNCHANGED firstDone

(* on_isolated_partitions_assigned, in the order of the partitions.        *)
OnIsolatedPartitionAssigned ==
    /\ up /\ stage = "assign" /\ assign # {}
    /\ AssignIsolatedPartition(Min(assign))
    /\ assign' = assign \ {Min(assign)}
    /\ UNCHANGED <<up, assigned, stage, revoke, index, rebalances, errors>>

(* "assert topic.active_partitions.issubset(assigned)" in                  *)
(* Conductor._update_tp_index, which goes through the channels of all      *)
(* streams there ever were.                                                *)
ActiveAssigned ==
    assigned = {} \/ \A c \in DOMAIN streams : streams[c].tps \subseteq assigned

(* Conductor.on_partitions_assigned                                        *)
UpdateTpIndex ==
    /\ up /\ stage = "assign" /\ assign = {}
    /\ ActiveAssigned
    /\ index' = [tp \in Partitions |-> {c \in DOMAIN streams : tp \in streams[c].tps}]
    /\ stage' = "idle"
    /\ UNCHANGED <<up, assigned, revoke, assign, streams, byPartition, firstDone,
                   rebalances, errors>>

(* The assertion fails, and the callback calls App.crash.                  *)
UpdateTpIndexFails ==
    /\ up /\ stage = "assign" /\ assign = {}
    /\ ~ActiveAssigned
    /\ up' = FALSE
    /\ UNCHANGED <<assigned, callback, streams, byPartition, firstDone, index,
                   rebalances, errors>>

Restart ==
    /\ ~up
    /\ up' = TRUE
    /\ assigned' = {} /\ stage' = "idle" /\ revoke' = {} /\ assign' = {}
    /\ streams' = <<Started({})>>
    /\ byPartition' = [tp \in Partitions |-> 0]
    /\ firstDone' = FALSE
    /\ index' = [tp \in Partitions |-> {}]
    /\ UNCHANGED <<rebalances, errors>>

-----------------------------------------------------------------------------
(* The actors                                                              *)

(* An actor that follows on a crash is a replacement.                      *)
Step(c, from, to) ==
    /\ up /\ streams[c].state = from
    /\ streams' = [streams EXCEPT ![c].state = to,
                                  ![c].replaced = @ \/ from = "crashed"]
    /\ UNCHANGED <<up, assigned, callback, byPartition, firstDone, index,
                   rebalances>>

(* An event comes through the index.                                       *)
Take(c) ==
    /\ stage = "idle" /\ \E tp \in assigned : c \in index[tp]
    /\ Step(c, "waiting", "busy")
    /\ UNCHANGED errors

(* The next read of a channel that was thrown into ends the actor.         *)
Finish(c) ==
    /\ Step(c, "busy", IF streams[c].thrown THEN "ended" ELSE "waiting")
    /\ UNCHANGED errors

(* Agent._execute_actor: the actor is marked as crashed.                   *)
Error(c) ==
    /\ errors < MaxErrors
    /\ Step(c, "busy", "crashed")
    /\ errors' = errors + 1

(* Mutant: only the actor started at boot is supervised.                   *)
ReplaceFirst(c) ==
    /\ c = 1
    /\ Step(c, "crashed", IF streams[c].thrown THEN "ended" ELSE "waiting")
    /\ UNCHANGED errors

(* Mutant: the next actor reads the partitions in a stream of its own.     *)
ReplaceAnew(c) ==
    /\ Step(c, "crashed", "waiting")
    /\ UNCHANGED errors

(* Agent._replace_actor: the next actor reads the same stream, and ends    *)
(* at once if the partition has been revoked.                              *)
ReplaceActor(c) ==
    /\ Step(c, "crashed", IF streams[c].thrown THEN "ended" ELSE "waiting")
    /\ UNCHANGED errors

Next ==
    \/ \E new \in SUBSET Partitions : Rebalance(new)
    \/ \E tp \in Partitions, inTime \in BOOLEAN : OnIsolatedPartitionRevoked(tp, inTime)
    \/ AllRevoked \/ OnIsolatedPartitionAssigned
    \/ UpdateTpIndex \/ UpdateTpIndexFails \/ Restart
    \/ \E c \in DOMAIN streams : Take(c) \/ Finish(c) \/ Error(c) \/ ReplaceActor(c)

Spec == Init /\ [][Next]_vars

(* The callback goes on, agents get done with their events, and the        *)
(* supervisor and the operator look after what has failed.                 *)
Fairness ==
    /\ WF_vars(\E tp \in Partitions, inTime \in BOOLEAN :
                 OnIsolatedPartitionRevoked(tp, inTime))
    /\ WF_vars(AllRevoked) /\ WF_vars(OnIsolatedPartitionAssigned)
    /\ WF_vars(UpdateTpIndex \/ UpdateTpIndexFails) /\ WF_vars(Restart)
    /\ WF_vars(\E c \in DOMAIN streams : ReplaceActor(c))
FairSpec == Spec /\ Fairness

-----------------------------------------------------------------------------
(* After a rebalance, whatever actors have crashed or were cancelled in    *)
(* it, the events of a partition go to one actor: the one that the next    *)
(* revocation will find.                                                   *)
OneActor ==
    (up /\ stage = "idle") =>
        \A tp \in assigned :
            /\ index[tp] = {byPartition[tp]}
            /\ streams[byPartition[tp]].state # "ended"

(* After its partition was revoked, no actor of a stream begins another    *)
(* event: neither the one that was stopped nor those that replace it.  But *)
(* for a replacement, which may still be at its last one, they have none.  *)
StoppedForGood ==
    [][\A c \in DOMAIN streams : (up' /\ up /\ streams[c].thrown) =>
          /\ streams'[c].state # "waiting"
          /\ streams'[c].state = "busy"
                => streams[c].state = "busy" /\ streams[c].replaced]_vars

(* "for isolated_partitions agents we stop agents for revoked partitions": *)
(* no agent is busy with an event of a revoked partition when the          *)
(* callback gets to the new ones.                                          *)
RevokedStopped ==
    (up /\ stage = "assign") =>
        \A c \in DOMAIN streams : streams[c].thrown => streams[c].state # "busy"

(* Partitions the worker keeps get an actor that reads them, after any     *)
(* number of errors.                                                       *)
EventuallyRead ==
    <>[](up /\ \A tp \in assigned : \E c \in index[tp] :
            streams[c].state \in {"waiting", "busy"})

(* The assertion of Conductor._update_tp_index holds when it is evaluated. *)
IndexAssertion == (up /\ stage = "assign" /\ assign = {}) => ActiveAssigned
=============================================================================

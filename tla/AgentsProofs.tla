----------------------------- MODULE AgentsProofs -----------------------------
(***************************************************************************)
(* Theorems about the agents: about their actors (Agents) for every set of *)
(* partitions and all bounds, and about the requests to them (Replies) for *)
(* any number of requests and size of the queue.                           *)
(***************************************************************************)
EXTENDS Agents, Replies, SequenceTheorems, FiniteSetTheorems, WellFoundedInduction,
        TLAPS

-----------------------------------------------------------------------------
(* Lemmas about sequences and sets                                         *)

(* A function on 1..n is a sequence of length n.                           *)
LEMMA FunctionIsSeq ==
    ASSUME NEW S, NEW n \in Nat, NEW f \in [1..n -> S]
    PROVE  f \in Seq(S) /\ Len(f) = n /\ DOMAIN f = 1..n
<1>1. f \in Seq(S)
  BY SeqDef
<1>2. Len(f) \in Nat /\ DOMAIN f = 1..Len(f) /\ DOMAIN f = 1..n
  BY <1>1, LenProperties
<1> QED
  BY <1>1, <1>2

(* The order of numbers as a relation.                                     *)
LEMMA LessIsRelation ==
    \A x, y \in Nat : x < y => <<x, y>> \in OpToRel(<, Nat)
  BY Zenon DEF OpToRel

(* The partitions still to be assigned have a first one.                   *)
LEMMA MinIn ==
    ASSUME NEW S \in SUBSET Nat, S # {}
    PROVE  Min(S) \in S
<1>1. PICK x \in S : \A y \in S : ~ (<<y, x>> \in OpToRel(<, Nat))
  BY WFMin, NatLessThanWellFounded
<1>2. \A y \in S : ~ (y < x)
  BY <1>1, LessIsRelation, Zenon
<1>3. \A y \in S : x <= y
  BY <1>2
<1> QED
  BY <1>3, Zenon DEF Min

-----------------------------------------------------------------------------
(* Type correctness                                                        *)

(* The streams of an agent are a function of their numbers.                *)
LEMMA StreamsAreFunction ==
    ASSUME TypeOK
    PROVE  /\ Len(streams) \in Nat
           /\ DOMAIN streams = 1..Len(streams)
           /\ streams \in [1..Len(streams) -> Stream]
  BY LenProperties DEF TypeOK

(* A step of an actor changes the state of its stream and nothing else.    *)
LEMMA StepType ==
    ASSUME TypeOK, NEW c \in DOMAIN streams, NEW from, NEW to,
           to \in {"waiting", "busy", "crashed", "ended"}, Step(c, from, to)
    PROVE  /\ streams' \in Seq(Stream)
           /\ Len(streams') = Len(streams)
           /\ DOMAIN streams' = DOMAIN streams
           /\ \A d \in DOMAIN streams : d # c => streams'[d] = streams[d]
           /\ streams'[c].tps = streams[c].tps
           /\ streams'[c].thrown = streams[c].thrown
           /\ streams'[c].state = to
<1>1. streams[c] \in Stream /\ c \in 1..Len(streams)
  BY StreamsAreFunction
<1> DEFINE s == [streams[c] EXCEPT !.state = to, !.replaced = @ \/ from = "crashed"]
<1>2. s \in Stream /\ s.tps = streams[c].tps /\ s.thrown = streams[c].thrown
      /\ s.state = to
  BY <1>1 DEF Stream
<1>3. streams' = [streams EXCEPT ![c] = s]
  BY DEF Step
<1> HIDE DEF s
<1>4. streams' \in [1..Len(streams) -> Stream]
  BY <1>2, <1>3, StreamsAreFunction
<1>5. streams' \in Seq(Stream) /\ Len(streams') = Len(streams) /\ DOMAIN streams' = 1..Len(streams)
  BY <1>4, FunctionIsSeq, StreamsAreFunction
<1> QED
  BY <1>2, <1>3, <1>5, StreamsAreFunction

(* A revocation stops the stream of the partition, if there is one.        *)
LEMMA RevokedType ==
    ASSUME TypeOK, NEW tp \in Partitions, NEW inTime \in BOOLEAN,
           OnIsolatedPartitionRevoked(tp, inTime)
    PROVE  /\ streams' \in Seq(Stream)
           /\ Len(streams') = Len(streams)
           /\ DOMAIN streams' = DOMAIN streams
           /\ \A c \in DOMAIN streams :
                streams'[c] = IF c = byPartition[tp] THEN Stopped(streams[c], inTime)
                              ELSE streams[c]
<1>1. \A s \in Stream : Stopped(s, inTime) \in Stream
  BY DEF Stopped, Stream
<1>2. \A c \in 1..Len(streams) : streams[c] \in Stream
  BY StreamsAreFunction
<1>3. streams' = [c \in 1..Len(streams) |->
                    IF c = byPartition[tp] THEN Stopped(streams[c], inTime)
                    ELSE streams[c]]
  BY StreamsAreFunction DEF OnIsolatedPartitionRevoked
<1>4. streams' \in [1..Len(streams) -> Stream]
  BY <1>1, <1>2, <1>3
<1> QED
  BY <1>3, <1>4, FunctionIsSeq, StreamsAreFunction

(* There is always the stream of the actor started at boot.                *)
Typed == TypeOK /\ Len(streams) >= 1

(* An assignment gives a partition to the first stream or to a new one.    *)
LEMMA AssignedType ==
    ASSUME Typed, NEW tp \in Partitions, AssignIsolatedPartition(tp)
    PROVE  /\ streams' \in Seq(Stream)
           /\ byPartition' \in [Partitions -> 0..Len(streams')]
           /\ firstDone' \in BOOLEAN
           /\ \/ /\ First /\ firstDone' = TRUE
                 /\ Len(streams') = Len(streams)
                 /\ streams'[1] = [streams[1] EXCEPT !.tps = @ \cup {tp}]
                 /\ \A c \in DOMAIN streams : c # 1 => streams'[c] = streams[c]
                 /\ byPartition' = [byPartition EXCEPT ![tp] = 1]
              \/ /\ ~First /\ byPartition[tp] = 0 /\ firstDone' = firstDone
                 /\ Len(streams') = Len(streams) + 1
                 /\ streams'[Len(streams) + 1] = Started({tp})
                 /\ \A c \in DOMAIN streams : streams'[c] = streams[c]
                 /\ byPartition' = [byPartition EXCEPT ![tp] = Len(streams) + 1]
<1> USE StreamsAreFunction DEF Typed
<1>0. byPartition \in [Partitions -> 0..Len(streams)] /\ firstDone \in BOOLEAN
  BY DEF TypeOK
<1>1. CASE /\ First
           /\ firstDone' = TRUE
           /\ streams' = [streams EXCEPT ![1].tps = @ \cup {tp}]
           /\ byPartition' = [byPartition EXCEPT ![tp] = 1]
  <2>1. streams[1] \in Stream
    OBVIOUS
  <2>2. [streams[1] EXCEPT !.tps = @ \cup {tp}] \in Stream
    BY <2>1 DEF Stream
  <2>3. streams' = [streams EXCEPT ![1] = [streams[1] EXCEPT !.tps = @ \cup {tp}]]
    BY <1>1
  <2>4. streams' \in [1..Len(streams) -> Stream]
    BY <2>2, <2>3
  <2>5. streams' \in Seq(Stream) /\ Len(streams') = Len(streams)
    BY <2>4, FunctionIsSeq
  <2> QED
    BY <1>0, <1>1, <2>3, <2>5
<1>2. CASE /\ ~First /\ byPartition[tp] = 0
           /\ streams' = Append(streams, Started({tp}))
           /\ byPartition' = [byPartition EXCEPT ![tp] = Len(streams) + 1]
           /\ UNCHANGED firstDone
  <2>1. Started({tp}) \in Stream
    BY DEF Started, Stream
  <2>2. streams \in Seq(Stream)
    BY DEF TypeOK
  <2>3. /\ streams' \in Seq(Stream)
        /\ Len(streams') = Len(streams) + 1
        /\ streams'[Len(streams) + 1] = Started({tp})
        /\ \A c \in DOMAIN streams : streams'[c] = streams[c]
    BY <1>2, <2>1, <2>2, AppendProperties
  <2>4. byPartition' \in [Partitions -> 0..Len(streams')]
    BY <1>0, <1>2, <2>3
  <2> QED
    BY <1>0, <1>2, <2>3, <2>4, Zenon
<1> QED
  BY <1>1, <1>2 DEF AssignIsolatedPartition

(* The partition that is assigned next is one that is to be assigned.      *)
LEMMA NextAssigned ==
    ASSUME TypeOK, assign # {}
    PROVE  Min(assign) \in assign /\ Min(assign) \in Partitions
  BY MinIn, AgentsAssumption DEF TypeOK

(* Every action keeps the types.                                           *)
LEMMA TypeStep ==
    ASSUME Typed, [Next]_vars
    PROVE  Typed'
<1> USE StreamsAreFunction
<1>1. ASSUME NEW new \in SUBSET Partitions, Rebalance(new)
      PROVE  Typed'
  BY <1>1, AgentsAssumption DEF Rebalance, Typed, TypeOK
<1>2. ASSUME NEW tp \in Partitions, NEW inTime \in BOOLEAN,
             OnIsolatedPartitionRevoked(tp, inTime)
      PROVE  Typed'
  <2>1. streams' \in Seq(Stream) /\ Len(streams') = Len(streams)
    BY <1>2, RevokedType DEF Typed
  <2>2. byPartition' \in [Partitions -> 0..Len(streams)]
    BY <1>2 DEF OnIsolatedPartitionRevoked, Typed, TypeOK
  <2> QED
    BY <1>2, <2>1, <2>2 DEF OnIsolatedPartitionRevoked, Typed, TypeOK
<1>3. CASE AllRevoked
  BY <1>3 DEF AllRevoked, Typed, TypeOK
<1>4. CASE OnIsolatedPartitionAssigned
  <2>1. Min(assign) \in Partitions /\ AssignIsolatedPartition(Min(assign))
    BY <1>4, NextAssigned DEF OnIsolatedPartitionAssigned, Typed
  <2>2. /\ streams' \in Seq(Stream)
        /\ byPartition' \in [Partitions -> 0..Len(streams')]
        /\ firstDone' \in BOOLEAN
        /\ Len(streams') \in {Len(streams), Len(streams) + 1}
    BY <2>1, AssignedType
  <2>3. index' \in [Partitions -> SUBSET (1..Len(streams'))]
    <3>1. Len(streams) \in Nat /\ 1..Len(streams) \subseteq 1..Len(streams')
      BY <2>2 DEF Typed
    <3> QED
      BY <1>4, <3>1 DEF OnIsolatedPartitionAssigned, Typed, TypeOK
  <2>4. /\ up' \in BOOLEAN /\ assigned' \subseteq Partitions
        /\ stage' \in {"idle", "revoke", "assign"}
        /\ revoke' \subseteq Partitions /\ assign' \subseteq assigned'
        /\ rebalances' \in 0..MaxRebalance /\ errors' \in 0..MaxErrors
    BY <1>4 DEF OnIsolatedPartitionAssigned, Typed, TypeOK
  <2>5. Len(streams') >= 1
    BY <2>2 DEF Typed
  <2> QED
    BY <2>2, <2>3, <2>4, <2>5 DEF Typed, TypeOK
<1>5. CASE UpdateTpIndex
  BY <1>5 DEF UpdateTpIndex, Typed, TypeOK
<1>6. CASE UpdateTpIndexFails
  BY <1>6 DEF UpdateTpIndexFails, callback, Typed, TypeOK
<1>7. CASE Restart
  <2>1. streams' = <<Started({})>> /\ Started({}) \in Stream
    BY <1>7 DEF Restart, Started, Stream
  <2>2. streams' \in Seq(Stream) /\ Len(streams') = 1
    BY <2>1
  <2>3. /\ byPartition' \in [Partitions -> 0..Len(streams')]
        /\ index' \in [Partitions -> SUBSET (1..Len(streams'))]
    BY <1>7, <2>2 DEF Restart
  <2>4. up' \in BOOLEAN /\ firstDone' \in BOOLEAN
    BY <1>7, Zenon DEF Restart
  <2>5. /\ assigned' \subseteq Partitions
        /\ stage' \in {"idle", "revoke", "assign"}
        /\ revoke' \subseteq Partitions /\ assign' \subseteq assigned'
        /\ rebalances' \in 0..MaxRebalance /\ errors' \in 0..MaxErrors
    BY <1>7 DEF Restart, Typed, TypeOK
  <2>6. Len(streams') >= 1
    BY <2>2
  <2> QED
    BY <2>2, <2>3, <2>4, <2>5, <2>6, Zenon DEF Typed, TypeOK
<1>8. ASSUME NEW c \in DOMAIN streams, NEW from, NEW to,
             to \in {"waiting", "busy", "crashed", "ended"}, Step(c, from, to),
             errors' \in 0..MaxErrors
      PROVE  Typed'
  <2>1. streams' \in Seq(Stream) /\ Len(streams') = Len(streams)
    BY <1>8, StepType DEF Typed
  <2> QED
    BY <1>8, <2>1 DEF Step, callback, Typed, TypeOK
<1>9. ASSUME NEW c \in DOMAIN streams,
             Take(c) \/ Finish(c) \/ Error(c) \/ ReplaceActor(c)
      PROVE  Typed'
  <2>1. CASE Take(c)
    BY <1>8, <2>1 DEF Take, Typed, TypeOK
  <2>2. CASE Finish(c)
    BY <1>8, <2>2 DEF Finish, Typed, TypeOK
  <2>3. CASE Error(c)
    BY <1>8, <2>3, AgentsAssumption DEF Error, Typed, TypeOK
  <2>4. CASE ReplaceActor(c)
    BY <1>8, <2>4 DEF ReplaceActor, Typed, TypeOK
  <2> QED
    BY <1>9, <2>1, <2>2, <2>3, <2>4
<1>10. CASE UNCHANGED vars
  BY <1>10 DEF vars, callback, Typed, TypeOK
<1> QED
  BY <1>1, <1>2, <1>3, <1>4, <1>5, <1>6, <1>7, <1>9, <1>10 DEF Next

(* The types hold in the beginning.                                        *)
LEMMA TypeInit == Init => Typed
<1> SUFFICES ASSUME Init PROVE Typed
  OBVIOUS
<1>1. streams = <<Started({})>> /\ Started({}) \in Stream
  BY DEF Init, Boot, Started, Stream
<1>2. streams \in Seq(Stream) /\ Len(streams) = 1
  BY <1>1
<1>3. /\ byPartition \in [Partitions -> 0..Len(streams)]
      /\ index \in [Partitions -> SUBSET (1..Len(streams))]
  BY <1>2 DEF Init, Boot
<1>4. 0 \in 0..MaxRebalance /\ 0 \in 0..MaxErrors
  BY AgentsAssumption
<1>5. up \in BOOLEAN /\ firstDone \in BOOLEAN
  BY Zenon DEF Init, Boot
<1>6. /\ assigned \subseteq Partitions
      /\ stage \in {"idle", "revoke", "assign"}
      /\ revoke \subseteq Partitions /\ assign \subseteq assigned
      /\ rebalances \in 0..MaxRebalance /\ errors \in 0..MaxErrors
  BY <1>4 DEF Init, Boot
<1>7. Len(streams) >= 1
  BY <1>2
<1> QED
  BY <1>2, <1>3, <1>5, <1>6, <1>7, Zenon DEF Typed, TypeOK

(* The state of the agent, its actors and the conductor's index has the    *)
(* declared types, and the actor started at boot has a stream.             *)
THEOREM TypeCorrect == Spec => []Typed
  BY TypeInit, TypeStep, PTL DEF Spec

-----------------------------------------------------------------------------
(* Actors that were stopped                                                *)

(* A stream into which StopAsyncIteration was thrown has no actor that     *)
(* waits for an event: the last one has ended, or crashed and not been     *)
(* replaced, or is a replacement with an event.                            *)
ThrownStopped ==
    \A c \in DOMAIN streams : streams[c].thrown =>
        /\ streams[c].state # "waiting"
        /\ streams[c].state = "busy" => streams[c].replaced

(* What an actor does to its own stream: it goes on only if the stream has *)
(* not been stopped.                                                       *)
LEMMA ActorStep ==
    ASSUME Typed, NEW c \in DOMAIN streams,
           Take(c) \/ Finish(c) \/ Error(c) \/ ReplaceActor(c)
    PROVE  /\ up /\ up' = up
           /\ UNCHANGED <<assigned, stage, revoke, assign, byPartition, firstDone,
                          index>>
           /\ Len(streams') = Len(streams)
           /\ DOMAIN streams' = DOMAIN streams
           /\ \A d \in DOMAIN streams : d # c => streams'[d] = streams[d]
           /\ streams'[c].tps = streams[c].tps
           /\ streams'[c].thrown = streams[c].thrown
           /\ streams[c].thrown /\ streams[c].state # "waiting"
                => streams'[c].state # "waiting" /\ streams'[c].state # "busy"
           /\ streams'[c].state = "ended" => streams[c].thrown
<1>1. ASSUME NEW from, NEW to, Step(c, from, to),
             to \in {"waiting", "busy", "crashed", "ended"}
      PROVE  /\ up /\ up' = up
             /\ UNCHANGED <<assigned, stage, revoke, assign, byPartition,
                            firstDone, index>>
             /\ Len(streams') = Len(streams)
             /\ DOMAIN streams' = DOMAIN streams
             /\ \A d \in DOMAIN streams : d # c => streams'[d] = streams[d]
             /\ streams'[c].tps = streams[c].tps
             /\ streams'[c].thrown = streams[c].thrown
             /\ streams[c].state = from /\ streams'[c].state = to
  <2>1. /\ Len(streams') = Len(streams)
        /\ DOMAIN streams' = DOMAIN streams
        /\ \A d \in DOMAIN streams : d # c => streams'[d] = streams[d]
        /\ streams'[c].tps = streams[c].tps
        /\ streams'[c].thrown = streams[c].thrown
        /\ streams'[c].state = to
    BY <1>1, StepType DEF Typed
  <2>2. /\ up /\ up' = up
        /\ UNCHANGED <<assigned, stage, revoke, assign, byPartition, firstDone,
                       index>>
        /\ streams[c].state = from
    BY <1>1 DEF Step, callback
  <2> QED
    BY <2>1, <2>2, Zenon
<1>2. CASE Take(c) \/ Finish(c)
  BY <1>1, <1>2 DEF Take, Finish
<1>3. CASE Error(c)
  BY <1>1, <1>3 DEF Error
<1>4. CASE ReplaceActor(c)
  BY <1>1, <1>4 DEF ReplaceActor
<1> QED
  BY <1>2, <1>3, <1>4

(* A stream that is stopped has been thrown into, and only a replacement   *)
(* that has an event goes on.                                              *)
LEMMA StoppedStream ==
    ASSUME NEW s \in Stream, NEW inTime \in BOOLEAN
    PROVE  /\ Stopped(s, inTime).thrown = TRUE
           /\ Stopped(s, inTime).tps = s.tps
           /\ Stopped(s, inTime).state # "waiting"
           /\ Stopped(s, inTime).state = "busy"
                => s.state = "busy" /\ s.replaced /\ Stopped(s, inTime).replaced
  BY DEF Stopped, Stream

(* A stream that was thrown into stays stopped.                            *)
LEMMA ThrownStep ==
    ASSUME Typed, ThrownStopped, [Next]_vars
    PROVE  ThrownStopped'
<1> USE StreamsAreFunction
<1>1. ASSUME UNCHANGED streams PROVE ThrownStopped'
  BY <1>1 DEF ThrownStopped
<1>2. ASSUME NEW tp \in Partitions, NEW inTime \in BOOLEAN,
             OnIsolatedPartitionRevoked(tp, inTime)
      PROVE  ThrownStopped'
  <2>1. /\ DOMAIN streams' = DOMAIN streams
        /\ \A c \in DOMAIN streams : streams[c] \in Stream
        /\ \A c \in DOMAIN streams :
             streams'[c] = IF c = byPartition[tp] THEN Stopped(streams[c], inTime)
                           ELSE streams[c]
    BY <1>2, RevokedType DEF Typed
  <2> SUFFICES ASSUME NEW c \in DOMAIN streams', streams'[c].thrown
               PROVE  /\ streams'[c].state # "waiting"
                      /\ streams'[c].state = "busy" => streams'[c].replaced
    BY DEF ThrownStopped
  <2>2. CASE c = byPartition[tp]
    <3>1. streams'[c] = Stopped(streams[c], inTime) /\ streams[c] \in Stream
      BY <2>1, <2>2
    <3>2. /\ Stopped(streams[c], inTime).state # "waiting"
          /\ Stopped(streams[c], inTime).state = "busy"
               => Stopped(streams[c], inTime).replaced
      BY <3>1, StoppedStream
    <3> QED
      BY <3>1, <3>2
  <2>3. CASE c # byPartition[tp]
    <3>1. streams'[c] = streams[c] /\ c \in DOMAIN streams
      BY <2>1, <2>3
    <3> QED
      BY <3>1, Zenon DEF ThrownStopped
  <2> QED
    BY <2>2, <2>3
<1>3. CASE OnIsolatedPartitionAssigned
  <2>1. Min(assign) \in Partitions /\ AssignIsolatedPartition(Min(assign))
    BY <1>3, NextAssigned DEF OnIsolatedPartitionAssigned, Typed
  <2>2. streams' \in Seq(Stream) /\ DOMAIN streams' = 1..Len(streams')
    <3>1. streams' \in Seq(Stream)
      BY <2>1, AssignedType
    <3> QED
      BY <3>1, LenProperties
  <2>3. CASE /\ Len(streams') = Len(streams)
             /\ streams'[1] = [streams[1] EXCEPT !.tps = @ \cup {Min(assign)}]
             /\ \A c \in DOMAIN streams : c # 1 => streams'[c] = streams[c]
    <3>1. streams[1] \in Stream /\ 1 \in DOMAIN streams
      BY DEF Typed
    <3>2. /\ streams'[1].thrown = streams[1].thrown /\ streams'[1].state = streams[1].state
          /\ streams'[1].replaced = streams[1].replaced
      BY <2>3, <3>1 DEF Stream
    <3>3. \A c \in DOMAIN streams : /\ streams'[c].thrown = streams[c].thrown
                                    /\ streams'[c].state = streams[c].state
                                    /\ streams'[c].replaced = streams[c].replaced
      BY <2>3, <3>2
    <3>4. DOMAIN streams' = DOMAIN streams
      BY <2>2, <2>3
    <3> QED
      BY <3>3, <3>4 DEF ThrownStopped
  <2>4. CASE /\ Len(streams') = Len(streams) + 1
             /\ streams'[Len(streams) + 1] = Started({Min(assign)})
             /\ \A c \in DOMAIN streams : streams'[c] = streams[c]
    BY <2>2, <2>4 DEF Typed, ThrownStopped, Started
  <2> QED
    BY <2>1, <2>3, <2>4, AssignedType
<1>4. CASE Restart
  BY <1>4 DEF Restart, Started, ThrownStopped
<1>5. ASSUME NEW c \in DOMAIN streams,
             Take(c) \/ Finish(c) \/ Error(c) \/ ReplaceActor(c)
      PROVE  ThrownStopped'
  BY <1>5, ActorStep DEF ThrownStopped
<1>6. CASE \/ \E new \in SUBSET Partitions : Rebalance(new)
           \/ AllRevoked \/ UpdateTpIndex \/ UpdateTpIndexFails \/ UNCHANGED vars
  BY <1>1, <1>6 DEF Rebalance, AllRevoked, UpdateTpIndex, UpdateTpIndexFails, vars
<1> QED
  BY <1>2, <1>3, <1>4, <1>5, <1>6 DEF Next

(* After its partition was revoked, no actor of a stream begins another    *)
(* event, and only a replacement may still be at its last one: all other   *)
(* actions leave a stopped stream alone, and the supervisor's replacement  *)
(* (Agent._replace_actor) ends at once, or when its event is processed.    *)
THEOREM StoppedCorrect == Spec => StoppedForGood
<1> DEFINE Ends(c) ==
             /\ streams'[c].state # "waiting"
             /\ streams'[c].state = "busy"
                  => streams[c].state = "busy" /\ streams[c].replaced
<1>1. Init => ThrownStopped
  BY DEF Init, Boot, Started, ThrownStopped
<1>2. Typed /\ ThrownStopped /\ [Next]_vars =>
        [\A c \in DOMAIN streams : (up' /\ up /\ streams[c].thrown) =>
            /\ streams'[c].state # "waiting"
            /\ streams'[c].state = "busy"
                  => streams[c].state = "busy" /\ streams[c].replaced]_vars
  <2> SUFFICES ASSUME Typed, ThrownStopped, Next, up, up',
                      NEW c \in DOMAIN streams, streams[c].thrown
               PROVE  Ends(c)
    OBVIOUS
  <2> USE StreamsAreFunction
  <2>1. ASSUME UNCHANGED streams PROVE Ends(c)
    BY <2>1 DEF ThrownStopped
  <2>2. ASSUME NEW tp \in Partitions, NEW inTime \in BOOLEAN,
               OnIsolatedPartitionRevoked(tp, inTime)
        PROVE  Ends(c)
    <3>1. /\ DOMAIN streams' = DOMAIN streams
          /\ streams[c] \in Stream
          /\ streams'[c] = IF c = byPartition[tp] THEN Stopped(streams[c], inTime)
                           ELSE streams[c]
      BY <2>2, RevokedType DEF Typed
    <3>2. CASE c = byPartition[tp]
      <4>1. streams'[c] = Stopped(streams[c], inTime)
        BY <3>1, <3>2
      <4>2. /\ Stopped(streams[c], inTime).state # "waiting"
            /\ Stopped(streams[c], inTime).state = "busy"
                 => streams[c].state = "busy" /\ streams[c].replaced
        BY <3>1, StoppedStream
      <4> QED
        BY <4>1, <4>2
    <3>3. CASE c # byPartition[tp]
      <4>1. streams'[c] = streams[c]
        BY <3>1, <3>3
      <4> QED
        BY <4>1, Zenon DEF ThrownStopped
    <3> QED
      BY <3>2, <3>3
  <2>3. CASE OnIsolatedPartitionAssigned
    <3>1. Min(assign) \in Partitions /\ AssignIsolatedPartition(Min(assign))
      BY <2>3, NextAssigned DEF OnIsolatedPartitionAssigned, Typed
    <3>2. streams' \in Seq(Stream)
      BY <3>1, AssignedType
    <3>3. Len(streams') \in Nat /\ DOMAIN streams' = 1..Len(streams')
      BY <3>2, LenProperties
    <3>4. streams[c] \in Stream /\ c \in 1..Len(streams) /\ Len(streams) \in Nat
      BY DEF Typed
    <3>5. CASE /\ Len(streams') = Len(streams)
               /\ streams'[1] = [streams[1] EXCEPT !.tps = @ \cup {Min(assign)}]
               /\ \A d \in DOMAIN streams : d # 1 => streams'[d] = streams[d]
      BY <3>3, <3>4, <3>5 DEF Stream, ThrownStopped
    <3>6. CASE /\ Len(streams') = Len(streams) + 1
               /\ \A d \in DOMAIN streams : streams'[d] = streams[d]
      BY <3>3, <3>4, <3>6 DEF ThrownStopped
    <3> QED
      BY <3>1, <3>5, <3>6, AssignedType
  <2>4. CASE Restart
    BY <2>4 DEF Restart
  <2>5. ASSUME NEW d \in DOMAIN streams,
               Take(d) \/ Finish(d) \/ Error(d) \/ ReplaceActor(d)
        PROVE  Ends(c)
    BY <2>5, ActorStep DEF ThrownStopped
  <2>6. CASE \/ \E new \in SUBSET Partitions : Rebalance(new)
             \/ AllRevoked \/ UpdateTpIndex \/ UpdateTpIndexFails
    BY <2>1, <2>6 DEF Rebalance, AllRevoked, UpdateTpIndex, UpdateTpIndexFails
  <2> QED
    BY <2>2, <2>3, <2>4, <2>5, <2>6 DEF Next
<1> QED
  BY <1>1, <1>2, ThrownStep, TypeCorrect, PTL DEF Spec, StoppedForGood

-----------------------------------------------------------------------------
(* One actor for each partition                                            *)

(* Where the callback of a rebalance is, and what it has still to see to.  *)
CallbackInv ==
    /\ revoke \cap assigned = {}
    /\ stage # "revoke" => revoke = {}
    /\ stage = "idle" => assign = {}
    /\ stage # "idle" => assigned # {}

(* The partitions with an entry in _actor_by_partition are those that the  *)
(* callback has come to, or does not have to; the entry is the stream of   *)
(* the partition, which nobody has stopped.                                *)
EntryInv ==
    \A tp \in Partitions :
        /\ byPartition[tp] # 0 <=> tp \in (assigned \ assign) \cup revoke
        /\ byPartition[tp] # 0 =>
             /\ streams[byPartition[tp]].tps = {tp}
             /\ ~streams[byPartition[tp]].thrown

(* Conversely, a stream that was not stopped is the entry of its           *)
(* partition; one that was has a partition that was revoked, which the     *)
(* assertion in _update_tp_index does not let pass.                        *)
StreamInv ==
    \A c \in DOMAIN streams :
        /\ \A tp \in streams[c].tps : streams[c].thrown \/ byPartition[tp] = c
        /\ streams[c].thrown => /\ streams[c].tps # {}
                                /\ streams[c].tps \cap assigned = {}
                                /\ stage # "idle"
        /\ streams[c].state = "ended" => streams[c].thrown

(* Until the first partition comes, there is but the stream of the actor   *)
(* that was started at boot.                                               *)
FirstInv ==
    ~firstDone => /\ Len(streams) = 1 /\ streams[1].tps = {}
                  /\ \A tp \in Partitions : byPartition[tp] = 0

IndexInv == stage = "idle" => \A tp \in assigned : index[tp] = {byPartition[tp]}

ActorInv ==
    Typed /\ CallbackInv /\ EntryInv /\ StreamInv /\ FirstInv /\ IndexInv

(* The callback stops the actor of a revoked partition.                    *)
LEMMA ActorRevoke ==
    ASSUME ActorInv, Typed', NEW tp \in Partitions, NEW inTime \in BOOLEAN,
           OnIsolatedPartitionRevoked(tp, inTime)
    PROVE  ActorInv'
<1> USE StreamsAreFunction DEF ActorInv, Typed
<1>1. /\ stage = "revoke" /\ tp \in revoke /\ revoke' = revoke \ {tp}
      /\ byPartition' = [byPartition EXCEPT ![tp] = 0]
      /\ UNCHANGED <<assigned, stage, assign, firstDone, index>>
  BY DEF OnIsolatedPartitionRevoked
<1>2. /\ Len(streams') = Len(streams) /\ DOMAIN streams' = DOMAIN streams
      /\ \A c \in DOMAIN streams :
           streams'[c] = IF c = byPartition[tp] THEN Stopped(streams[c], inTime)
                         ELSE streams[c]
  BY RevokedType
<1>3. \A c \in DOMAIN streams :
        streams'[c].tps = streams[c].tps
        /\ (c # byPartition[tp] => streams'[c] = streams[c])
        /\ (c = byPartition[tp] => streams'[c].thrown = TRUE)
  <2> TAKE c \in DOMAIN streams
  <2>1. streams[c] \in Stream
    OBVIOUS
  <2>2. /\ Stopped(streams[c], inTime).thrown = TRUE
        /\ Stopped(streams[c], inTime).tps = streams[c].tps
    BY <2>1, StoppedStream
  <2> QED
    BY <1>2, <2>2, Zenon
<1>4. byPartition \in [Partitions -> 0..Len(streams)]
  BY DEF TypeOK
<1>5. CallbackInv'
  BY <1>1 DEF CallbackInv
<1>6. EntryInv'
  <2> SUFFICES ASSUME NEW q \in Partitions
               PROVE  /\ byPartition'[q] # 0 <=> q \in (assigned \ assign) \cup revoke'
                      /\ byPartition'[q] # 0 =>
                           /\ streams'[byPartition'[q]].tps = {q}
                           /\ ~streams'[byPartition'[q]].thrown
    BY <1>1 DEF EntryInv
  <2>1. CASE q = tp
    BY <1>1, <1>4, <2>1 DEF CallbackInv
  <2>2. CASE q # tp
    <3>1. byPartition'[q] = byPartition[q]
      BY <1>1, <1>4, <2>2
    <3>2. byPartition[q] # 0 => byPartition[q] # byPartition[tp]
      BY <1>1, <2>2 DEF EntryInv
    <3>3. byPartition[q] # 0 => byPartition[q] \in DOMAIN streams
      BY <1>4
    <3> QED
      BY <1>1, <1>3, <2>2, <3>1, <3>2, <3>3 DEF EntryInv
  <2> QED
    BY <2>1, <2>2
<1>7. StreamInv'
  <2> SUFFICES ASSUME NEW c \in DOMAIN streams
               PROVE  /\ \A q \in streams'[c].tps :
                           streams'[c].thrown \/ byPartition'[q] = c
                      /\ streams'[c].thrown => /\ streams'[c].tps # {}
                                               /\ streams'[c].tps \cap assigned = {}
                                               /\ stage' # "idle"
                      /\ streams'[c].state = "ended" => streams'[c].thrown
    BY <1>1, <1>2 DEF StreamInv
  <2>1. CASE c = byPartition[tp]
    <3>1. streams'[c].thrown = TRUE /\ streams'[c].tps = {tp}
      BY <1>3, <1>4, <2>1 DEF EntryInv
    <3> QED
      BY <1>1, <3>1 DEF CallbackInv
  <2>2. CASE c # byPartition[tp]
    <3>1. streams'[c] = streams[c]
      BY <1>3, <2>2
    <3>2. streams[c].tps \subseteq Partitions
      BY DEF Stream
    <3> QED
      BY <1>1, <1>4, <2>2, <3>1, <3>2 DEF StreamInv
  <2> QED
    BY <2>1, <2>2
<1>8. FirstInv'
  <2>1. ~firstDone => byPartition[tp] = 0
    BY DEF FirstInv
  <2>2. ~firstDone => 1 \in DOMAIN streams
    OBVIOUS
  <2> QED
    BY <1>1, <1>2, <1>3, <1>4, <2>1, <2>2 DEF FirstInv
<1>9. IndexInv'
  BY <1>1 DEF IndexInv
<1> QED
  BY <1>5, <1>6, <1>7, <1>8, <1>9, Zenon DEF ActorInv

(* The callback gives an assigned partition to an actor.                   *)
LEMMA ActorAssign ==
    ASSUME ActorInv, Typed', OnIsolatedPartitionAssigned
    PROVE  ActorInv'
<1> DEFINE tp == Min(assign)
<1> USE StreamsAreFunction DEF ActorInv, Typed
<1>0. tp \in assign /\ tp \in Partitions /\ tp \in assigned
  BY NextAssigned DEF OnIsolatedPartitionAssigned, TypeOK
<1>1. /\ stage = "assign" /\ assign' = assign \ {tp}
      /\ AssignIsolatedPartition(tp)
      /\ UNCHANGED <<assigned, stage, revoke, index>>
  BY DEF OnIsolatedPartitionAssigned
<1> HIDE DEF tp
<1>2. byPartition \in [Partitions -> 0..Len(streams)]
  BY DEF TypeOK
<1>3. revoke = {} /\ byPartition[tp] = 0
  BY <1>0, <1>1 DEF CallbackInv, EntryInv
<1>4. streams' \in Seq(Stream)
  BY <1>0, <1>1, AssignedType
<1>5. Len(streams') \in Nat /\ DOMAIN streams' = 1..Len(streams')
  BY <1>4, LenProperties
<1>6. CallbackInv' /\ IndexInv'
  BY <1>1 DEF CallbackInv, IndexInv
<1>7. CASE /\ First /\ firstDone' = TRUE
           /\ Len(streams') = Len(streams)
           /\ streams'[1] = [streams[1] EXCEPT !.tps = @ \cup {tp}]
           /\ \A c \in DOMAIN streams : c # 1 => streams'[c] = streams[c]
           /\ byPartition' = [byPartition EXCEPT ![tp] = 1]
  <2>1. /\ Len(streams) = 1 /\ streams[1].tps = {}
        /\ \A q \in Partitions : byPartition[q] = 0
    BY <1>7 DEF First, FirstInv
  <2>2. streams[1] \in Stream /\ ~streams[1].thrown
    BY <2>1 DEF StreamInv
  <2>3. streams'[1].tps = {tp} /\ ~streams'[1].thrown /\ streams'[1].state # "ended"
    BY <1>7, <2>1, <2>2 DEF Stream, StreamInv
  <2>4. byPartition'[tp] = 1 /\ \A q \in Partitions : q # tp => byPartition'[q] = 0
    BY <1>0, <1>2, <1>7, <2>1
  <2>5. EntryInv'
    BY <1>0, <1>1, <1>3, <2>1, <2>3, <2>4 DEF EntryInv
  <2>6. StreamInv'
    <3>1. \A c \in DOMAIN streams' : c = 1
      BY <1>5, <1>7, <2>1
    <3> QED
      BY <1>1, <2>3, <2>4, <3>1 DEF StreamInv
  <2>7. FirstInv'
    BY <1>7 DEF FirstInv
  <2> QED
    BY <1>6, <2>5, <2>6, <2>7, Zenon DEF ActorInv
<1>8. CASE /\ ~First /\ byPartition[tp] = 0 /\ firstDone' = firstDone
           /\ Len(streams') = Len(streams) + 1
           /\ streams'[Len(streams) + 1] = Started({tp})
           /\ \A c \in DOMAIN streams : streams'[c] = streams[c]
           /\ byPartition' = [byPartition EXCEPT ![tp] = Len(streams) + 1]
  <2>1. firstDone
    BY <1>8 DEF First, FirstInv
  <2>2. /\ streams'[Len(streams) + 1].tps = {tp}
        /\ ~streams'[Len(streams) + 1].thrown
        /\ streams'[Len(streams) + 1].state # "ended"
    BY <1>8 DEF Started
  <2>3. /\ byPartition'[tp] = Len(streams) + 1
        /\ \A q \in Partitions : q # tp => byPartition'[q] = byPartition[q]
        /\ \A q \in Partitions : byPartition[q] # 0 => byPartition[q] \in DOMAIN streams
    BY <1>0, <1>2, <1>8
  <2>4. EntryInv'
    <3> SUFFICES ASSUME NEW q \in Partitions
                 PROVE  /\ byPartition'[q] # 0 <=> q \in (assigned \ assign') \cup revoke
                        /\ byPartition'[q] # 0 =>
                             /\ streams'[byPartition'[q]].tps = {q}
                             /\ ~streams'[byPartition'[q]].thrown
      BY <1>1 DEF EntryInv
    <3>1. CASE q = tp
      <4>1. Len(streams) + 1 # 0
        OBVIOUS
      <4>2. q \in (assigned \ assign') \cup revoke
        BY <1>0, <1>1, <3>1
      <4> QED
        BY <2>2, <2>3, <3>1, <4>1, <4>2, Zenon
    <3>2. CASE q # tp
      <4>1. byPartition'[q] = byPartition[q] /\ (q \in assign' <=> q \in assign)
        BY <1>1, <2>3, <3>2
      <4>2. byPartition[q] # 0 => streams'[byPartition[q]] = streams[byPartition[q]]
        BY <1>8, <2>3
      <4> QED
        BY <4>1, <4>2 DEF EntryInv
    <3> QED
      BY <3>1, <3>2
  <2>5. StreamInv'
    <3> SUFFICES ASSUME NEW c \in 1..Len(streams) + 1
                 PROVE  /\ \A q \in streams'[c].tps :
                             streams'[c].thrown \/ byPartition'[q] = c
                        /\ streams'[c].thrown => /\ streams'[c].tps # {}
                                                 /\ streams'[c].tps \cap assigned = {}
                                                 /\ stage' # "idle"
                        /\ streams'[c].state = "ended" => streams'[c].thrown
      BY <1>1, <1>5, <1>8 DEF StreamInv
    <3>1. CASE c = Len(streams) + 1
      BY <2>2, <2>3, <3>1
    <3>2. CASE c \in DOMAIN streams
      <4>1. streams'[c] = streams[c] /\ streams[c].tps \subseteq Partitions
        BY <1>8, <3>2 DEF Stream
      <4> QED
        BY <1>1, <1>3, <2>3, <3>2, <4>1 DEF StreamInv
    <3> QED
      BY <3>1, <3>2
  <2>6. FirstInv'
    BY <1>8, <2>1 DEF FirstInv
  <2> QED
    BY <1>6, <2>4, <2>5, <2>6, Zenon DEF ActorInv
<1> QED
  BY <1>0, <1>1, <1>7, <1>8, AssignedType

(* Actors that fail or are replaced keep the invariant.                    *)
LEMMA ActorSelf ==
    ASSUME ActorInv, Typed', NEW c \in DOMAIN streams,
           Take(c) \/ Finish(c) \/ Error(c) \/ ReplaceActor(c)
    PROVE  ActorInv'
<1>1. /\ UNCHANGED <<assigned, stage, revoke, assign, byPartition, firstDone,
                     index>>
      /\ Len(streams') = Len(streams) /\ DOMAIN streams' = DOMAIN streams
      /\ \A d \in DOMAIN streams : /\ streams'[d].tps = streams[d].tps
                                   /\ streams'[d].thrown = streams[d].thrown
      /\ \A d \in DOMAIN streams : d # c => streams'[d] = streams[d]
      /\ streams'[c].state = "ended" => streams[c].thrown
  BY ActorStep DEF ActorInv
<1>2. byPartition \in [Partitions -> 0..Len(streams)] /\ DOMAIN streams = 1..Len(streams)
      /\ Len(streams) \in Nat /\ Len(streams) >= 1
  BY StreamsAreFunction DEF ActorInv, Typed, TypeOK
<1>3. CallbackInv' /\ IndexInv'
  BY <1>1 DEF ActorInv, CallbackInv, IndexInv
<1>4. EntryInv'
  <2>1. \A tp \in Partitions : byPartition[tp] # 0 => byPartition[tp] \in DOMAIN streams
    BY <1>2
  <2> QED
    BY <1>1, <2>1 DEF ActorInv, EntryInv
<1>5. StreamInv'
  BY <1>1 DEF ActorInv, StreamInv
<1>6. FirstInv'
  BY <1>1, <1>2 DEF ActorInv, FirstInv
<1> QED
  BY <1>3, <1>4, <1>5, <1>6, Zenon DEF ActorInv

(* The invariant holds in the beginning.                                   *)
LEMMA ActorInit == Init => ActorInv
<1> SUFFICES ASSUME Init PROVE ActorInv
  OBVIOUS
<1>1. Typed
  BY TypeInit
<1>2. DOMAIN streams = 1..1 /\ Len(streams) = 1 /\ streams[1] = Started({})
  BY DEF Init, Boot
<1>3. CallbackInv /\ EntryInv /\ FirstInv /\ IndexInv
  BY <1>2 DEF Init, Boot, CallbackInv, EntryInv, FirstInv, IndexInv, Started
<1>4. StreamInv
  BY <1>2 DEF Init, Boot, StreamInv, Started
<1> QED
  BY <1>1, <1>3, <1>4 DEF ActorInv

(* Every step keeps the invariant.                                         *)
LEMMA ActorNext ==
    ASSUME ~MayIdle, ActorInv, [Next]_vars
    PROVE  ActorInv'
<1>0. Typed'
  BY TypeStep DEF ActorInv
<1> USE StreamsAreFunction
<1>1. ASSUME NEW new \in SUBSET Partitions, Rebalance(new)
      PROVE  ActorInv'
  <2>1. /\ stage = "idle" /\ stage' = "revoke" /\ new # {} /\ assigned' = new
        /\ revoke' = assigned \ new /\ assign' = new \ assigned
        /\ UNCHANGED <<streams, byPartition, firstDone, index>>
    BY <1>1 DEF Rebalance
  <2>2. CallbackInv' /\ IndexInv' /\ FirstInv'
    BY <2>1 DEF ActorInv, CallbackInv, IndexInv, FirstInv
  <2>3. EntryInv'
    BY <2>1 DEF ActorInv, CallbackInv, EntryInv
  <2>4. StreamInv'
    BY <2>1 DEF ActorInv, StreamInv
  <2> QED
    BY <1>0, <2>2, <2>3, <2>4 DEF ActorInv
<1>2. CASE AllRevoked
  <2>1. /\ stage = "revoke" /\ stage' = "assign" /\ revoke = {}
        /\ UNCHANGED <<assigned, revoke, assign, streams, byPartition, firstDone,
                       index>>
    BY <1>2 DEF AllRevoked
  <2> QED
    BY <1>0, <2>1
    DEF ActorInv, CallbackInv, EntryInv, StreamInv, FirstInv, IndexInv
<1>3. CASE UpdateTpIndex
  <2>1. /\ stage = "assign" /\ stage' = "idle" /\ assign = {} /\ assigned # {}
        /\ \A c \in DOMAIN streams : streams[c].tps \subseteq assigned
        /\ index' = [tp \in Partitions |-> {c \in DOMAIN streams : tp \in streams[c].tps}]
        /\ UNCHANGED <<assigned, revoke, assign, streams, byPartition, firstDone>>
    BY <1>3 DEF UpdateTpIndex, ActiveAssigned, ActorInv, CallbackInv
  <2>2. \A c \in DOMAIN streams : ~streams[c].thrown
    BY <2>1 DEF ActorInv, StreamInv
  <2>3. CallbackInv' /\ EntryInv' /\ FirstInv'
    BY <2>1 DEF ActorInv, CallbackInv, EntryInv, FirstInv
  <2>4. StreamInv'
    BY <2>1, <2>2 DEF ActorInv, StreamInv
  <2>5. IndexInv'
    <3> SUFFICES ASSUME NEW tp \in assigned PROVE index'[tp] = {byPartition[tp]}
      BY <2>1 DEF IndexInv
    <3>1. tp \in Partitions /\ byPartition[tp] # 0
      BY <2>1 DEF ActorInv, Typed, TypeOK, EntryInv
    <3>2. byPartition[tp] \in DOMAIN streams
      BY <3>1 DEF ActorInv, Typed, TypeOK
    <3>3. tp \in streams[byPartition[tp]].tps
      BY <3>1 DEF ActorInv, EntryInv
    <3>4. \A c \in DOMAIN streams : tp \in streams[c].tps => c = byPartition[tp]
      BY <2>2 DEF ActorInv, StreamInv
    <3> QED
      BY <2>1, <3>1, <3>2, <3>3, <3>4
  <2> QED
    BY <1>0, <2>3, <2>4, <2>5 DEF ActorInv
<1>4. CASE UpdateTpIndexFails \/ UNCHANGED vars
  <2>1. UNCHANGED <<assigned, stage, revoke, assign, streams, byPartition, firstDone,
                    index>>
    BY <1>4 DEF UpdateTpIndexFails, callback, vars
  <2> QED
    BY <1>0, <2>1
    DEF ActorInv, CallbackInv, EntryInv, StreamInv, FirstInv, IndexInv
<1>5. CASE Restart
  <2>1. DOMAIN streams' = 1..1 /\ Len(streams') = 1 /\ streams'[1] = Started({})
    BY <1>5 DEF Restart
  <2>2. CallbackInv' /\ EntryInv' /\ FirstInv' /\ IndexInv'
    BY <1>5, <2>1 DEF Restart, CallbackInv, EntryInv, FirstInv, IndexInv, Started
  <2>3. StreamInv'
    BY <1>5, <2>1 DEF Restart, StreamInv, Started
  <2> QED
    BY <1>0, <2>2, <2>3 DEF ActorInv
<1> QED
  BY <1>0, <1>1, <1>2, <1>3, <1>4, <1>5, ActorRevoke, ActorAssign, ActorSelf DEF Next

(* In a worker that always has some partition (MayIdle is FALSE), the      *)
(* events of each of its partitions go to one actor after a rebalance, the *)
(* one _actor_by_partition has, however many actors have failed, were      *)
(* cancelled or replaced.                                                  *)
THEOREM OneActorCorrect ==
    ASSUME ~MayIdle PROVE Spec => []OneActor
<1>1. ActorInv /\ [Next]_vars => ActorInv'
  BY ActorNext
<1>2. ActorInv => OneActor
  <2> SUFFICES ASSUME ActorInv, stage = "idle", NEW tp \in assigned
               PROVE  /\ index[tp] = {byPartition[tp]}
                      /\ streams[byPartition[tp]].state # "ended"
    BY DEF OneActor
  <2>1. index[tp] = {byPartition[tp]}
    BY DEF ActorInv, IndexInv
  <2>2. tp \in Partitions /\ byPartition[tp] # 0 /\ ~streams[byPartition[tp]].thrown
    BY DEF ActorInv, Typed, TypeOK, CallbackInv, EntryInv
  <2>3. byPartition[tp] \in DOMAIN streams
    BY <2>2, StreamsAreFunction DEF ActorInv, Typed, TypeOK
  <2> QED
    BY <2>1, <2>2, <2>3 DEF ActorInv, StreamInv
<1> QED
  BY <1>1, <1>2, ActorInit, PTL DEF Spec

-----------------------------------------------------------------------------
(* Replies.  That all results are returned is proved for agents that       *)
(* answer a request once; a second reply counts like one to another        *)
(* request.  The inductive invariant:                                      *)

Once(s) == \A i, j \in DOMAIN s : s[i] = s[j] /\ s[i] # Sentinel => i = j

(* How far the caller is; there is a sentinel only in a barrier that is    *)
(* finalized.                                                              *)
Sending == pc \in {"send", "register"}

CallerInv ==
    /\ pc = "send" => size = sent
    /\ pc = "register" => sent = size + 1
    /\ Sending => total = 0 /\ ~done /\ Sentinel \notin Range(results)
    /\ ~Sending => sent = N /\ total = N
    /\ done => fulfilled >= total
    /\ pc = "returned" => done /\ waiting = {} /\ results = <<>>

(* A request, its reply and its result are at one place at a time.         *)
PlaceInv ==
    /\ Once(replies) /\ Once(results) /\ Once(got)
    /\ requests \cap (Range(replies) \cup Range(results) \cup Range(got)) = {}
    /\ Range(replies) \cap (Range(results) \cup Range(got)) = {}
    /\ Range(results) \cap Range(got) = {}
    /\ requests \cup Range(replies) \cup Range(results) \cup Range(got) \subseteq 0..sent

(* The barrier counts the results the caller has or can get.               *)
Results == (Range(results) \cup Range(got)) \ {Sentinel}

CountInv == fulfilled = Cardinality(Results)

RepliesInv == AskTypeOK /\ CallerInv /\ PlaceInv /\ CountInv

-----------------------------------------------------------------------------
(* Sequences                                                               *)

(* What is in a queue something is put to.                                 *)
LEMMA AppendRange ==
    ASSUME NEW S, NEW s \in Seq(S), NEW e \in S
    PROVE  /\ Append(s, e) \in Seq(S) /\ Len(Append(s, e)) = Len(s) + 1
           /\ Range(Append(s, e)) = Range(s) \cup {e}
           /\ Once(s) /\ (e = Sentinel \/ e \notin Range(s)) => Once(Append(s, e))
<1>1. /\ Len(Append(s, e)) = Len(s) + 1
      /\ Append(s, e)[Len(s) + 1] = e
      /\ \A i \in 1..Len(s) : Append(s, e)[i] = s[i]
  BY AppendProperties
<1>2. DOMAIN s = 1..Len(s) /\ Len(s) \in Nat
  OBVIOUS
<1>3. Append(s, e) \in Seq(S) /\ DOMAIN Append(s, e) = 1..(Len(s) + 1)
  BY <1>1, AppendProperties
<1>4. 1..(Len(s) + 1) = 1..Len(s) \cup {Len(s) + 1}
  BY <1>2
<1>5. Range(Append(s, e)) = Range(s) \cup {e}
  BY <1>1, <1>2, <1>3, <1>4 DEF Range
<1>6. ASSUME Once(s), e = Sentinel \/ e \notin Range(s)
      PROVE  Once(Append(s, e))
  <2> SUFFICES ASSUME NEW i \in 1..Len(s) \cup {Len(s) + 1},
                      NEW j \in 1..Len(s) \cup {Len(s) + 1},
                      Append(s, e)[i] = Append(s, e)[j], Append(s, e)[i] # Sentinel
               PROVE  i = j
    BY <1>3, <1>4 DEF Once
  <2>1. e = Sentinel \/ \A k \in 1..Len(s) : s[k] # e
    BY <1>2, <1>6 DEF Range
  <2> QED
    BY <1>1, <1>2, <1>6, <2>1 DEF Once
<1> QED
  BY <1>1, <1>3, <1>5, <1>6

(* What is left of a queue the first element is taken from.                *)
LEMMA TailRange ==
    ASSUME NEW S, NEW s \in Seq(S), s # <<>>
    PROVE  /\ Tail(s) \in Seq(S) /\ Head(s) \in S /\ Len(Tail(s)) = Len(s) - 1
           /\ Range(s) = Range(Tail(s)) \cup {Head(s)}
           /\ Once(s) => Once(Tail(s))
           /\ Once(s) /\ Head(s) # Sentinel => Head(s) \notin Range(Tail(s))
<1>1. /\ Len(s) \in Nat /\ Len(s) >= 1 /\ DOMAIN s = 1..Len(s)
      /\ Head(s) = s[1]
      /\ Tail(s) \in Seq(S) /\ Len(Tail(s)) = Len(s) - 1
      /\ \A i \in 1..Len(Tail(s)) : Tail(s)[i] = s[i + 1]
  <2>1. Len(s) \in Nat /\ Len(s) # 0 /\ DOMAIN s = 1..Len(s)
    BY EmptySeq
  <2>2. Tail(s) \in Seq(S) /\ Len(Tail(s)) = Len(s) - 1
    BY HeadTailProperties
  <2> QED
    BY <2>1, <2>2
<1>2. DOMAIN Tail(s) = 1..(Len(s) - 1)
  BY <1>1
<1>3. Head(s) \in S
  BY <1>1
<1>4. Range(s) = Range(Tail(s)) \cup {Head(s)}
  <2>1. ASSUME NEW i \in 1..Len(s)
        PROVE  s[i] \in Range(Tail(s)) \cup {Head(s)}
    <3>1. CASE i = 1
      BY <1>1, <3>1
    <3>2. CASE i # 1
      <4>1. i - 1 \in 1..(Len(s) - 1) /\ Tail(s)[i - 1] = s[i]
        BY <1>1, <3>2
      <4> QED
        BY <1>2, <4>1 DEF Range
    <3> QED
      BY <3>1, <3>2
  <2>2. ASSUME NEW i \in 1..(Len(s) - 1)
        PROVE  Tail(s)[i] \in Range(s)
    <3>1. i + 1 \in 1..Len(s) /\ Tail(s)[i] = s[i + 1]
      BY <1>1
    <3> QED
      BY <1>1, <3>1 DEF Range
  <2>3. Head(s) \in Range(s)
    BY <1>1 DEF Range
  <2>4. /\ Range(s) = {s[i] : i \in 1..Len(s)}
        /\ Range(Tail(s)) = {Tail(s)[i] : i \in 1..(Len(s) - 1)}
    BY <1>1, <1>2, Zenon DEF Range
  <2>5. \A x \in Range(s) : x \in Range(Tail(s)) \cup {Head(s)}
    BY <2>1, <2>4, Zenon
  <2>6. \A x \in Range(Tail(s)) : x \in Range(s)
    BY <2>2, <2>4, Zenon
  <2> QED
    BY <2>3, <2>5, <2>6
<1>5. ASSUME Once(s)
      PROVE  Once(Tail(s)) /\ (Head(s) # Sentinel => Head(s) \notin Range(Tail(s)))
  <2>1. \A i, j \in 1..Len(s) : s[i] = s[j] /\ s[i] # Sentinel => i = j
    BY <1>1, <1>5 DEF Once
  <2>2. \A i \in 1..(Len(s) - 1) : Tail(s)[i] = s[i + 1] /\ i + 1 \in 1..Len(s)
    BY <1>1
  <2>3. Once(Tail(s))
    <3> SUFFICES ASSUME NEW i \in 1..(Len(s) - 1), NEW j \in 1..(Len(s) - 1),
                        Tail(s)[i] = Tail(s)[j], Tail(s)[i] # Sentinel
                 PROVE  i = j
      BY <1>2 DEF Once
    <3>1. i + 1 = j + 1
      BY <2>1, <2>2, Zenon
    <3> QED
      BY <1>1, <3>1
  <2>4. ASSUME NEW i \in 1..(Len(s) - 1), Head(s) # Sentinel
        PROVE  Tail(s)[i] # Head(s)
    <3>1. 1 \in 1..Len(s) /\ i + 1 # 1
      BY <1>1
    <3> QED
      BY <1>1, <2>1, <2>2, <2>4, <3>1, Zenon
  <2> QED
    BY <1>2, <2>3, <2>4, Zenon DEF Range
<1> QED
  BY <1>1, <1>3, <1>4, <1>5

(* The last result comes with the sentinel.                                *)
LEMMA AppendTwo ==
    ASSUME NEW S, NEW s \in Seq(S), NEW a \in S, NEW b \in S
    PROVE  s \o <<a, b>> = Append(Append(s, a), b)
<1>1. Append(s, a) \in Seq(S) /\ Len(Append(s, a)) = Len(s) + 1
  BY AppendProperties
<1>2. Append(Append(s, a), b) \in Seq(S) /\ Len(Append(Append(s, a), b)) = Len(s) + 2
  BY <1>1, AppendProperties
<1>3. <<a, b>> \in Seq(S) /\ Len(<<a, b>>) = 2
  OBVIOUS
<1>4. s \o <<a, b>> \in Seq(S) /\ Len(s \o <<a, b>>) = Len(s) + 2
  BY <1>3, ConcatProperties
<1>5. \A i \in 1..(Len(s) + 2) : (s \o <<a, b>>)[i] = Append(Append(s, a), b)[i]
  OBVIOUS
<1> QED
  BY <1>2, <1>4, <1>5, SeqEqual

(* An empty sequence holds nothing.                                        *)
LEMMA EmptyRange == Range(<<>>) = {} /\ Once(<<>>)
BY DEF Range, Once

(* A set of requests is finite.                                            *)
LEMMA FiniteIds ==
    ASSUME NEW S \in SUBSET Ids
    PROVE  IsFiniteSet(S) /\ Cardinality(S) \in Nat /\ Cardinality(S) <= N
           /\ (Cardinality(S) = N => S = Ids)
<1>1. N \in Nat /\ IsFiniteSet(Ids) /\ Cardinality(Ids) = N
  BY RepliesAssumption, FS_Interval DEF Ids
<1>2. IsFiniteSet(S) /\ Cardinality(S) <= N /\ (Cardinality(S) = N => S = Ids)
  BY <1>1, FS_Subset
<1> QED
  BY <1>1, <1>2, FS_CardinalityType

-----------------------------------------------------------------------------
(* The invariant holds initially and each step preserves it                *)

(* The invariant holds in the beginning.                                   *)
LEMMA InitInv ==
    ASSUME AskInit
    PROVE  RepliesInv
<1>1. AskTypeOK
  <2>1. N \in Nat /\ QueueMax \in Nat /\ MaxDup \in Nat
    BY RepliesAssumption
  <2>2. /\ replies \in Seq(Ids) /\ results \in Seq(Ids \cup {Sentinel})
        /\ got \in Seq(Ids) /\ Len(results) = 0
    BY DEF AskInit
  <2>3. /\ sent \in 0..N /\ size \in 0..N /\ total \in 0..N /\ fulfilled \in Nat
        /\ dups \in 0..MaxDup /\ Len(results) <= QueueMax
    BY <2>1, <2>2 DEF AskInit
  <2>4. /\ op \in {"join", "map"} /\ pc = "send" /\ done \in BOOLEAN /\ alive \in BOOLEAN
        /\ requests = {} /\ waiting = {}
    BY DEF AskInit
  <2> QED
    BY <2>2, <2>3, <2>4 DEF AskTypeOK
<1>2. Range(replies) = {} /\ Range(results) = {} /\ Range(got) = {}
      /\ Once(replies) /\ Once(results) /\ Once(got)
  BY EmptyRange DEF AskInit
<1>3. CallerInv
  BY <1>2 DEF CallerInv, Sending, AskInit
<1>4. PlaceInv
  BY <1>2 DEF PlaceInv, AskInit
<1>5. CountInv
  <2>1. Results = {}
    BY <1>2 DEF Results
  <2> QED
    BY <2>1, FS_EmptySet DEF CountInv, AskInit
<1> QED
  BY <1>1, <1>3, <1>4, <1>5 DEF RepliesInv

(* A request is sent.                                                      *)
LEMMA AskPreserves ==
    ASSUME RepliesInv, AskNowait
    PROVE  RepliesInv'
<1> USE DEF RepliesInv
<1>1. /\ op' = op /\ replies' = replies /\ waiting' = waiting
      /\ size' = size /\ total' = total /\ fulfilled' = fulfilled
      /\ done' = done /\ results' = results /\ got' = got /\ alive' = alive
      /\ dups' = dups
  BY DEF AskNowait, barrier
<1>2. /\ pc = "send" /\ sent < N /\ sent' = sent + 1 /\ pc' = "register"
      /\ requests' = requests \cup {sent + 1}
  BY DEF AskNowait
<1>3. N \in Nat /\ sent \in 0..N /\ sent + 1 \in Ids /\ sent' \in 0..N
  BY <1>2, RepliesAssumption DEF AskTypeOK, Ids
<1>4. AskTypeOK'
  <2>1. requests' \in SUBSET Ids
    BY <1>2, <1>3 DEF AskTypeOK
  <2> QED
    BY <1>1, <1>2, <1>3, <2>1 DEF AskTypeOK
<1>5. CallerInv'
  BY <1>1, <1>2, <1>3 DEF CallerInv, Sending
<1>6. PlaceInv'
  <2>1. \A x \in 0..sent : x # sent + 1 /\ x \in 0..(sent + 1)
    BY <1>3
  <2>2. sent + 1 \in 0..(sent + 1)
    BY <1>3
  <2> QED
    BY <1>1, <1>2, <2>1, <2>2 DEF PlaceInv
<1>7. CountInv'
  BY <1>1 DEF CountInv, Results
<1> QED
  BY <1>4, <1>5, <1>6, <1>7

(* The caller takes a result: the ones it has or can get are the same.     *)
LEMMA ResultTaken ==
    ASSUME RepliesInv, results # <<>>, results' = Tail(results),
           got' = IF Head(results) = Sentinel THEN got ELSE Append(got, Head(results))
    PROVE  /\ results' \in Seq(Ids \cup {Sentinel}) /\ Len(results') <= QueueMax
           /\ got' \in Seq(Ids)
           /\ Once(results') /\ Once(got') /\ Range(results') \cap Range(got') = {}
           /\ Range(results') \subseteq Range(results)
           /\ Range(got) \subseteq Range(got')
           /\ Range(results') \cup Range(got') \subseteq Range(results) \cup Range(got)
           /\ Results' = Results
<1> USE DEF RepliesInv
<1> DEFINE h == Head(results)
<1>1. results \in Seq(Ids \cup {Sentinel}) /\ Len(results) <= QueueMax /\ got \in Seq(Ids)
  BY DEF AskTypeOK
<1>2. Once(results) /\ Once(got) /\ Range(results) \cap Range(got) = {}
  BY DEF PlaceInv
<1>3. /\ results' \in Seq(Ids \cup {Sentinel}) /\ h \in Ids \cup {Sentinel}
      /\ Len(results') = Len(results) - 1
      /\ Range(results) = Range(results') \cup {h} /\ Once(results')
      /\ h # Sentinel => h \notin Range(results')
  BY <1>1, <1>2, TailRange
<1> HIDE DEF h
<1>4. Len(results') <= QueueMax
  <2>1. Len(results) \in Nat /\ QueueMax \in Nat
    BY <1>1, RepliesAssumption
  <2> QED
    BY <1>1, <1>3, <2>1
<1>5. CASE h = Sentinel
  <2>1. got' = got
    BY <1>5 DEF h
  <2> QED
    BY <1>1, <1>2, <1>3, <1>4, <1>5, <2>1 DEF Results
<1>6. CASE h # Sentinel
  <2>1. got' = Append(got, h) /\ h \in Ids /\ h \notin Range(got)
    BY <1>2, <1>3, <1>6 DEF h
  <2>2. got' \in Seq(Ids) /\ Range(got') = Range(got) \cup {h} /\ Once(got')
    BY <1>1, <1>2, <2>1, AppendRange
  <2> QED
    BY <1>2, <1>3, <1>4, <1>6, <2>2 DEF Results
<1> QED
  BY <1>5, <1>6

(* The barrier is registered for the request that was sent.                *)
LEMMA RegisterPreserves ==
    ASSUME RepliesInv, Register
    PROVE  RepliesInv'
<1> USE DEF RepliesInv
<1>1. /\ op' = op /\ sent' = sent /\ requests' = requests
      /\ replies' = replies /\ total' = total /\ fulfilled' = fulfilled
      /\ done' = done /\ alive' = alive /\ dups' = dups
  BY DEF Register
<1>2. /\ pc = "register" /\ pc' = "send" /\ size' = size + 1
      /\ waiting' = waiting \cup {sent}
  BY DEF Register
<1>3. N \in Nat /\ sent \in 0..N /\ size \in 0..N /\ sent = size + 1
  BY <1>2, RepliesAssumption DEF AskTypeOK, CallerInv
<1>4. sent \in Ids /\ size' \in 0..N
  BY <1>2, <1>3 DEF Ids
<1>5. /\ results' \in Seq(Ids \cup {Sentinel}) /\ Len(results') <= QueueMax
      /\ got' \in Seq(Ids)
      /\ Once(results') /\ Once(got') /\ Range(results') \cap Range(got') = {}
      /\ Range(results') \subseteq Range(results)
      /\ Range(results') \cup Range(got') \subseteq Range(results) \cup Range(got)
      /\ Results' = Results
  <2>1. CASE op = "map" /\ results # <<>>
    <3>1. got' = Append(got, Head(results)) /\ results' = Tail(results)
      BY <2>1 DEF Register
    <3>2. Sentinel \notin Range(results)
      BY <1>2 DEF CallerInv, Sending
    <3>3. Head(results) # Sentinel
      <4>1. results \in Seq(Ids \cup {Sentinel})
        BY DEF AskTypeOK
      <4>2. Range(results) = Range(Tail(results)) \cup {Head(results)}
        BY <2>1, <4>1, TailRange
      <4> QED
        BY <3>2, <4>2
    <3>4. got' = IF Head(results) = Sentinel THEN got ELSE Append(got, Head(results))
      BY <3>1, <3>3
    <3> QED
      BY <2>1, <3>1, <3>4, ResultTaken
  <2>2. CASE ~(op = "map" /\ results # <<>>)
    <3>1. got' = got /\ results' = results
      BY <2>2 DEF Register
    <3> QED
      BY <3>1 DEF AskTypeOK, PlaceInv, Results
  <2> QED
    BY <2>1, <2>2
<1>6. AskTypeOK'
  <2>1. waiting' \in SUBSET Ids
    BY <1>2, <1>4 DEF AskTypeOK
  <2> QED
    BY <1>1, <1>2, <1>4, <1>5, <2>1 DEF AskTypeOK
<1>7. CallerInv'
  <2>1. Sentinel \notin Range(results')
    BY <1>2, <1>5 DEF CallerInv, Sending
  <2>2. total = 0 /\ ~done
    BY <1>2 DEF CallerInv, Sending
  <2> QED
    BY <1>1, <1>2, <1>3, <2>1, <2>2 DEF CallerInv, Sending
<1>8. PlaceInv'
  BY <1>1, <1>5 DEF PlaceInv
<1>9. CountInv'
  BY <1>1, <1>5 DEF CountInv
<1> QED
  BY <1>6, <1>7, <1>8, <1>9

(* A sentinel is put into the queue.                                       *)
LEMMA SentinelPut ==
    ASSUME RepliesInv, Len(results) < QueueMax, results' = Append(results, Sentinel),
           got' = got
    PROVE  /\ results' \in Seq(Ids \cup {Sentinel}) /\ Len(results') <= QueueMax
           /\ Once(results') /\ Range(results') = Range(results) \cup {Sentinel}
           /\ Results' = Results
<1> USE DEF RepliesInv
<1>1. results \in Seq(Ids \cup {Sentinel}) /\ Once(results)
  BY DEF AskTypeOK, PlaceInv
<1>2. /\ results' \in Seq(Ids \cup {Sentinel}) /\ Len(results') = Len(results) + 1
      /\ Once(results') /\ Range(results') = Range(results) \cup {Sentinel}
  BY <1>1, AppendRange
<1>3. Len(results') <= QueueMax
  <2>1. Len(results) \in Nat /\ QueueMax \in Nat
    BY <1>1, RepliesAssumption
  <2> QED
    BY <1>2, <2>1
<1> QED
  BY <1>2, <1>3 DEF Results

(* No place holds the sentinel but the queue.                              *)
LEMMA IdsOnly ==
    ASSUME AskTypeOK
    PROVE  /\ Range(replies) \subseteq Ids /\ Range(got) \subseteq Ids
           /\ requests \subseteq Ids /\ Sentinel \notin Ids
           /\ Range(results) \subseteq Ids \cup {Sentinel}
<1>1. Sentinel \notin Ids
  BY DEF Ids, Sentinel
<1>2. /\ replies \in Seq(Ids) /\ got \in Seq(Ids) /\ requests \subseteq Ids
      /\ results \in Seq(Ids \cup {Sentinel})
  BY DEF AskTypeOK
<1>3. Range(replies) \subseteq Ids /\ Range(got) \subseteq Ids
  BY <1>2 DEF Range
<1>4. Range(results) \subseteq Ids \cup {Sentinel}
  BY <1>2 DEF Range
<1> QED
  BY <1>1, <1>2, <1>3, <1>4

(* The number of requests is known.                                        *)
LEMMA FinalizePreserves ==
    ASSUME RepliesInv, Finalize
    PROVE  RepliesInv'
<1> USE DEF RepliesInv
<1>1. /\ op' = op /\ sent' = sent /\ requests' = requests
      /\ replies' = replies /\ waiting' = waiting /\ size' = size
      /\ fulfilled' = fulfilled /\ got' = got /\ alive' = alive
      /\ dups' = dups
  BY DEF Finalize
<1>2. /\ pc = "send" /\ sent = N /\ total' = size /\ size = N
      /\ N \in Nat /\ total' \in 0..N /\ ~done
  BY RepliesAssumption DEF Finalize, CallerInv, Sending, AskTypeOK
<1>3. \/ /\ fulfilled >= total' /\ Len(results) < QueueMax
         /\ done' = TRUE /\ results' = Append(results, Sentinel)
         /\ pc' = "wait"
      \/ /\ fulfilled >= total'
         /\ done' = TRUE /\ results' = results /\ pc' = "raised"
      \/ /\ pc' = "wait" /\ done' = done /\ results' = results
  BY DEF Finalize, Done, Filled
<1>4. /\ results' \in Seq(Ids \cup {Sentinel}) /\ Len(results') <= QueueMax
      /\ Once(results') /\ Range(results') \subseteq Range(results) \cup {Sentinel}
      /\ Results' = Results
  <2>1. CASE results' = results
    BY <1>1, <2>1 DEF Results, AskTypeOK, PlaceInv
  <2>2. CASE results' # results
    BY <1>1, <1>3, <2>2, SentinelPut
  <2> QED
    BY <2>1, <2>2
<1>5. /\ pc' \in {"wait", "raised"} /\ done' \in BOOLEAN
      /\ done' => fulfilled >= total'
  <2>1. done' => fulfilled >= total'
    BY <1>2, <1>3, Zenon
  <2>2. done' \in BOOLEAN
    BY <1>3, Zenon DEF AskTypeOK
  <2>3. pc' \in {"wait", "raised"}
    BY <1>3, Zenon
  <2> QED
    BY <2>1, <2>2, <2>3
<1>6. AskTypeOK'
  BY <1>1, <1>2, <1>4, <1>5, Zenon DEF AskTypeOK
<1>7. CallerInv'
  BY <1>1, <1>2, <1>5 DEF CallerInv, Sending
<1>8. PlaceInv'
  <2>1. 0 \in 0..sent
    BY <1>2
  <2> QED
    BY <1>1, <1>4, <2>1, IdsOnly DEF PlaceInv, Sentinel
<1>9. CountInv'
  BY <1>1, <1>4 DEF CountInv
<1> QED
  BY <1>6, <1>7, <1>8, <1>9

(* The caller waits no longer.                                             *)
LEMMA AwaitPreserves ==
    ASSUME RepliesInv, Await
    PROVE  RepliesInv'
<1> USE DEF RepliesInv
<1>1. /\ op' = op /\ sent' = sent /\ requests' = requests
      /\ replies' = replies /\ waiting' = waiting /\ size' = size
      /\ total' = total /\ fulfilled' = fulfilled /\ done' = done
      /\ results' = results /\ got' = got /\ alive' = alive /\ dups' = dups
  BY DEF Await, barrier
<1>2. pc = "wait" /\ pc' = "iterate"
  BY DEF Await
<1>3. AskTypeOK'
  BY <1>1, <1>2 DEF AskTypeOK
<1>4. CallerInv'
  BY <1>1, <1>2 DEF CallerInv, Sending
<1>5. PlaceInv'
  BY <1>1 DEF PlaceInv
<1>6. CountInv'
  BY <1>1 DEF CountInv, Results
<1> QED
  BY <1>3, <1>4, <1>5, <1>6

(* A result or a sentinel is taken.                                        *)
LEMMA IteratePreserves ==
    ASSUME RepliesInv, Iterate
    PROVE  RepliesInv'
<1> USE DEF RepliesInv
<1>1. /\ op' = op /\ pc' = pc /\ sent' = sent /\ requests' = requests
      /\ replies' = replies /\ waiting' = waiting /\ size' = size
      /\ total' = total /\ fulfilled' = fulfilled /\ done' = done
      /\ alive' = alive /\ dups' = dups
  BY DEF Iterate
<1>2. /\ pc = "iterate" /\ results # <<>> /\ results' = Tail(results)
      /\ got' = IF Head(results) = Sentinel THEN got ELSE Append(got, Head(results))
  BY DEF Iterate
<1>3. /\ results' \in Seq(Ids \cup {Sentinel}) /\ Len(results') <= QueueMax
      /\ got' \in Seq(Ids)
      /\ Once(results') /\ Once(got') /\ Range(results') \cap Range(got') = {}
      /\ Range(results') \cup Range(got') \subseteq Range(results) \cup Range(got)
      /\ Results' = Results
  BY <1>2, ResultTaken
<1>4. AskTypeOK'
  BY <1>1, <1>3, Zenon DEF AskTypeOK
<1>5. CallerInv'
  BY <1>1, <1>2 DEF CallerInv, Sending
<1>6. PlaceInv'
  BY <1>1, <1>3 DEF PlaceInv
<1>7. CountInv'
  BY <1>1, <1>3 DEF CountInv
<1> QED
  BY <1>4, <1>5, <1>6, <1>7

(* The caller has everything.                                              *)
LEMMA ReturnPreserves ==
    ASSUME RepliesInv, Return
    PROVE  RepliesInv'
<1> USE DEF RepliesInv
<1>1. /\ op' = op /\ sent' = sent /\ requests' = requests
      /\ replies' = replies /\ size' = size /\ total' = total
      /\ fulfilled' = fulfilled /\ done' = done /\ results' = results
      /\ got' = got /\ alive' = alive /\ dups' = dups
  BY DEF Return, barrier
<1>2. pc = "iterate" /\ pc' = "returned" /\ waiting' = {} /\ done /\ results = <<>>
  BY DEF Return
<1>3. AskTypeOK'
  BY <1>1, <1>2 DEF AskTypeOK
<1>4. CallerInv'
  BY <1>1, <1>2 DEF CallerInv, Sending
<1>5. PlaceInv'
  BY <1>1 DEF PlaceInv
<1>6. CountInv'
  BY <1>1 DEF CountInv, Results
<1> QED
  BY <1>3, <1>4, <1>5, <1>6

(* The agent answers, once.                                                *)
LEMMA ReplyPreserves ==
    ASSUME MaxDup = 0, RepliesInv, NEW i \in Ids, Reply(i)
    PROVE  RepliesInv'
<1> USE DEF RepliesInv
<1>1. dups = 0
  BY DEF AskTypeOK
<1>2. /\ op' = op /\ pc' = pc /\ sent' = sent /\ waiting' = waiting
      /\ size' = size /\ total' = total /\ fulfilled' = fulfilled
      /\ done' = done /\ results' = results /\ got' = got /\ alive' = alive
      /\ dups' = dups
  BY <1>1 DEF Reply, barrier
<1>3. i \in requests /\ replies' = Append(replies, i) /\ requests' = requests \ {i}
  BY <1>1 DEF Reply
<1>4. replies \in Seq(Ids) /\ Once(replies) /\ i \notin Range(replies)
  BY <1>3 DEF AskTypeOK, PlaceInv
<1>5. replies' \in Seq(Ids) /\ Range(replies') = Range(replies) \cup {i} /\ Once(replies')
  BY <1>4, <1>3, AppendRange
<1>6. AskTypeOK'
  <2>1. requests' \in SUBSET Ids
    BY <1>3 DEF AskTypeOK
  <2> QED
    BY <1>2, <1>5, <2>1, Zenon DEF AskTypeOK
<1>7. CallerInv'
  BY <1>2 DEF CallerInv, Sending
<1>8. PlaceInv'
  BY <1>2, <1>3, <1>5 DEF PlaceInv
<1>9. CountInv'
  BY <1>2 DEF CountInv, Results
<1> QED
  BY <1>6, <1>7, <1>8, <1>9

(* A reply is read: the barrier takes it, or it is dropped.                *)
LEMMA DrainPreserves ==
    ASSUME RepliesInv, DrainReplies
    PROVE  RepliesInv'
<1> USE DEF RepliesInv
<1> DEFINE i == Head(replies)
<1>1. /\ op' = op /\ pc' = pc /\ sent' = sent /\ requests' = requests
      /\ waiting' = waiting /\ size' = size /\ total' = total /\ got' = got
      /\ dups' = dups
  BY DEF DrainReplies
<1>2. replies # <<>> /\ replies' = Tail(replies)
  BY DEF DrainReplies
<1>3. replies \in Seq(Ids) /\ Once(replies)
  BY DEF AskTypeOK, PlaceInv
<1>4. /\ replies' \in Seq(Ids) /\ i \in Ids /\ Once(replies')
      /\ Range(replies) = Range(replies') \cup {i}
      /\ i # Sentinel => i \notin Range(replies')
  BY <1>2, <1>3, TailRange
<1>5. i # Sentinel
  BY <1>4, IdsOnly
<1>6. CASE fulfilled' = fulfilled /\ done' = done /\ results' = results
           /\ alive' \in BOOLEAN
  <2>1. AskTypeOK'
    BY <1>1, <1>4, <1>6, Zenon DEF AskTypeOK
  <2>2. CallerInv'
    BY <1>1, <1>6 DEF CallerInv, Sending
  <2>3. PlaceInv'
    BY <1>1, <1>4, <1>6 DEF PlaceInv
  <2>4. CountInv'
    BY <1>1, <1>6 DEF CountInv, Results
  <2> QED
    BY <2>1, <2>2, <2>3, <2>4
<1>7. CASE /\ i \in waiting /\ Len(results) # QueueMax
           /\ fulfilled' = fulfilled + 1
           /\ done' = (done \/ Ready)
           /\ \/ /\ Ready /\ ~done /\ Len(results) + 1 < QueueMax
                 /\ results' = results \o <<i, Sentinel>> /\ alive' = alive
              \/ results' = Append(results, i) /\ alive' = ~Ready
  <2> HIDE DEF i
  <2>1. results \in Seq(Ids \cup {Sentinel}) /\ Len(results) <= QueueMax
        /\ Once(results) /\ Len(results) \in Nat /\ QueueMax \in Nat
    BY RepliesAssumption DEF AskTypeOK, PlaceInv
  <2>2. i \notin Range(results) /\ i \notin Range(got) /\ i \in 0..sent
    BY <1>4 DEF PlaceInv
  <2> DEFINE a == Append(results, i)
  <2>3. /\ a \in Seq(Ids \cup {Sentinel}) /\ Len(a) = Len(results) + 1
        /\ Range(a) = Range(results) \cup {i} /\ Once(a)
    BY <1>4, <2>1, <2>2, AppendRange
  <2>4. /\ Append(a, Sentinel) \in Seq(Ids \cup {Sentinel})
        /\ Len(Append(a, Sentinel)) = Len(results) + 2
        /\ Range(Append(a, Sentinel)) = Range(results) \cup {i, Sentinel}
        /\ Once(Append(a, Sentinel))
    <3> HIDE DEF a
    <3>1. Sentinel \in Ids \cup {Sentinel}
      OBVIOUS
    <3>2. /\ Append(a, Sentinel) \in Seq(Ids \cup {Sentinel})
          /\ Len(Append(a, Sentinel)) = Len(a) + 1
          /\ Range(Append(a, Sentinel)) = Range(a) \cup {Sentinel}
          /\ Once(Append(a, Sentinel))
      BY <2>3, <3>1, AppendRange
    <3> QED
      BY <2>1, <2>3, <3>2
  <2>5. results \o <<i, Sentinel>> = Append(a, Sentinel)
    BY <1>4, <2>1, AppendTwo
  <2> HIDE DEF a
  <2>6. /\ results' \in Seq(Ids \cup {Sentinel}) /\ Len(results') <= QueueMax
        /\ Once(results')
        /\ Range(results) \cup {i} \subseteq Range(results')
        /\ Range(results') \subseteq Range(results) \cup {i, Sentinel}
    <3>1. CASE results' = Append(a, Sentinel) /\ Len(results) + 1 < QueueMax
      BY <2>1, <2>4, <3>1
    <3>2. CASE results' = a
      BY <1>7, <2>1, <2>3, <3>2
    <3> QED
      BY <1>7, <2>5, <3>1, <3>2 DEF a
  <2>7. ~Ready => results' = a
    BY <1>7 DEF a
  <2>8. Ready => ~Sending
    BY DEF Ready, CallerInv
  <2>9. fulfilled \in Nat /\ total \in Nat
    BY RepliesAssumption DEF AskTypeOK
  <2>10. AskTypeOK'
    <3>1. fulfilled' \in Nat
      BY <1>7, <2>9
    <3>2. done' \in BOOLEAN
      BY <1>7, Zenon DEF Ready
    <3>3. alive' \in BOOLEAN
      BY <1>7, Zenon DEF Ready, AskTypeOK
    <3> QED
      BY <1>1, <1>4, <2>6, <3>1, <3>2, <3>3, Zenon DEF AskTypeOK
  <2>11. CallerInv'
    <3>1. done' => fulfilled' >= total
      <4>1. done' => done \/ Ready
        BY <1>7, Zenon
      <4>2. Ready => fulfilled' >= total
        BY DEF Ready
      <4>3. done => fulfilled' >= total
        BY <1>7, <2>9 DEF CallerInv
      <4> QED
        BY <4>1, <4>2, <4>3, Zenon
    <3>2. Sending => ~done' /\ Sentinel \notin Range(results')
      BY <1>5, <1>7, <2>3, <2>7, <2>8 DEF CallerInv
    <3>3. pc # "returned"
      BY <1>7 DEF CallerInv
    <3>4. Sending' <=> Sending
      BY <1>1 DEF Sending
    <3> QED
      BY <1>1, <3>1, <3>2, <3>3, <3>4 DEF CallerInv
  <2>12. PlaceInv'
    <3>1. 0 \in 0..sent
      BY RepliesAssumption DEF AskTypeOK
    <3>2. Sentinel \notin Range(replies) \cup Range(got) \cup requests
      BY IdsOnly
    <3> QED
      BY <1>1, <1>4, <1>5, <2>2, <2>6, <3>1, <3>2 DEF PlaceInv, Sentinel
  <2>13. CountInv'
    <3>1. Results' = Results \cup {i} /\ i \notin Results
      BY <1>1, <1>5, <2>2, <2>6 DEF Results
    <3>2. Results \in SUBSET Ids
      BY IdsOnly DEF Results
    <3>3. IsFiniteSet(Results)
      BY <3>2, FiniteIds
    <3>4. Cardinality(Results \cup {i}) = Cardinality(Results) + 1
      BY <3>1, <3>3, FS_AddElement
    <3> QED
      BY <1>7, <3>1, <3>4 DEF CountInv
  <2> QED
    BY <2>10, <2>11, <2>12, <2>13
<1>8. alive \in BOOLEAN
  BY DEF AskTypeOK
<1>9. CASE i \notin waiting
  BY <1>6, <1>8, <1>9, Zenon DEF DrainReplies
<1>10. CASE i \in waiting /\ Len(results) = QueueMax
  <2>1. fulfilled' = fulfilled /\ done' = done /\ results' = results /\ alive' = FALSE
    BY <1>10 DEF DrainReplies, Fulfill
  <2> QED
    BY <1>6, <2>1
<1>11. CASE i \in waiting /\ Len(results) # QueueMax
  <2>1. Fulfill(i)
    BY <1>11, Zenon DEF DrainReplies
  <2>2. /\ fulfilled' = fulfilled + 1
        /\ done' = (done \/ Ready)
        /\ IF Ready /\ ~done /\ Len(results) + 1 < QueueMax
             THEN results' = results \o <<i, Sentinel>> /\ UNCHANGED alive
             ELSE results' = Append(results, i) /\ alive' = ~Ready
    BY <1>11, <2>1, Zenon DEF Fulfill
  <2> QED
    BY <1>7, <1>11, <2>2, Zenon
<1> QED
  BY <1>9, <1>10, <1>11

(* Each step preserves the invariant when no reply comes twice.            *)
LEMMA StepPreserves ==
    ASSUME MaxDup = 0, RepliesInv, [AskNext]_askVars
    PROVE  RepliesInv'
<1>1. CASE Caller
  BY <1>1, AskPreserves, RegisterPreserves, FinalizePreserves, AwaitPreserves,
     IteratePreserves, ReturnPreserves DEF Caller
<1>2. CASE \E i \in Ids : Reply(i)
  BY <1>2, ReplyPreserves
<1>3. CASE DrainReplies
  BY <1>3, DrainPreserves
<1>4. CASE UNCHANGED askVars
  <2> USE DEF RepliesInv
  <2>1. /\ op' = op /\ pc' = pc /\ sent' = sent /\ requests' = requests
      /\ replies' = replies /\ waiting' = waiting /\ size' = size
      /\ total' = total /\ fulfilled' = fulfilled /\ done' = done
      /\ results' = results /\ got' = got /\ alive' = alive /\ dups' = dups
    BY <1>4 DEF askVars, barrier
  <2> QED
    BY <2>1 DEF AskTypeOK, CallerInv, Sending, PlaceInv, CountInv, Results
<1> QED
  BY <1>1, <1>2, <1>3, <1>4 DEF AskNext

(* A sequence without repetition that holds all requests has as many       *)
(* elements as there are requests.                                         *)
LEMMA OnceLen ==
    ASSUME NEW s \in Seq(Ids), Once(s), Range(s) = Ids
    PROVE  Len(s) = N
<1>1. Sentinel \notin Ids /\ N \in Nat
  BY RepliesAssumption DEF Ids, Sentinel
<1>2. Len(s) \in Nat /\ s \in [1..Len(s) -> Ids] /\ DOMAIN s = 1..Len(s)
  OBVIOUS
<1>3. \A i, j \in 1..Len(s) : s[i] = s[j] => i = j
  BY <1>1, <1>2 DEF Once
<1>4. \A x \in Ids : \E i \in 1..Len(s) : s[i] = x
  BY <1>2 DEF Range
<1>5. s \in Bijection(1..Len(s), Ids)
  BY <1>2, <1>3, <1>4 DEF Bijection, Injection, IsInjective, Surjection
<1>6. ExistsBijection(1..Len(s), Ids)
  BY <1>5 DEF ExistsBijection
<1>7. IsFiniteSet(1..Len(s)) /\ Cardinality(1..Len(s)) = Len(s)
  <2>1. 1 \in Int /\ Len(s) \in Int /\ Len(s) >= 0 /\ Len(s) - 1 + 1 = Len(s)
    BY <1>2
  <2>2. /\ IsFiniteSet(1..Len(s))
        /\ Cardinality(1..Len(s)) = IF 1 > Len(s) THEN 0 ELSE Len(s) - 1 + 1
    BY <2>1, FS_Interval
  <2> QED
    BY <2>1, <2>2
<1>8. Cardinality(Ids) = N
  BY <1>1, FS_Interval DEF Ids
<1>9. Cardinality(Ids) = Cardinality(1..Len(s))
  BY <1>6, <1>7, FS_Bijection
<1> QED
  BY <1>7, <1>8, <1>9

(* Agents that answer a request once: kvjoin and kvmap return all results  *)
(* and each of them once, wherever the replies come between the sends, the *)
(* registrations and finalize, and however full the queue is.              *)
THEOREM AnsweredCorrect ==
    ASSUME MaxDup = 0
    PROVE  AskSpec => []Answered
<1>1. AskInit => RepliesInv
  BY InitInv
<1>2. RepliesInv /\ [AskNext]_askVars => RepliesInv'
  BY StepPreserves
<1>3. RepliesInv => Answered
  <2> SUFFICES ASSUME RepliesInv, pc = "returned"
               PROVE  Len(got) = N /\ Range(got) = Ids
    BY DEF Answered
  <2> USE DEF RepliesInv
  <2>1. done /\ results = <<>> /\ total = N
    BY DEF CallerInv, Sending
  <2>2. Results = Range(got) /\ Range(got) \in SUBSET Ids
    BY <2>1, EmptyRange, IdsOnly DEF Results
  <2>3. Cardinality(Range(got)) >= N
    BY <2>1, <2>2 DEF CallerInv, CountInv
  <2>4. N \in Nat /\ Cardinality(Range(got)) \in Nat /\ Cardinality(Range(got)) <= N
        /\ (Cardinality(Range(got)) = N => Range(got) = Ids)
    BY <2>2, FiniteIds, RepliesAssumption
  <2>5. Range(got) = Ids
    BY <2>3, <2>4
  <2>6. got \in Seq(Ids) /\ Once(got)
    BY DEF AskTypeOK, PlaceInv
  <2> QED
    BY <2>5, <2>6, OnceLen
<1> QED
  BY <1>1, <1>2, <1>3, PTL DEF AskSpec

=============================================================================

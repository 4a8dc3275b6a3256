---------------------------- MODULE DeliveryProofs ----------------------------
(***************************************************************************)
(* Theorems about Delivery for any number of partitions, channels and      *)
(* messages, sizes of queues and of fetches, and rebalances.               *)
(***************************************************************************)
EXTENDS Delivery, SequenceTheorems, FiniteSetTheorems, WellFoundedInduction, TLAPS

-----------------------------------------------------------------------------
(* The inductive invariant                                                 *)

Elems(s) == {s[i] : i \in DOMAIN s}
Distinct(s) == \A i, j \in DOMAIN s : s[i] = s[j] => i = j

(* A channel has a message at one place only.                              *)
OnceInv ==
    \A c \in Channels :
        /\ Distinct(queue[c])
        /\ \A m, n \in busy[c] : m = n
        /\ \A m \in busy[c] : m \notin Elems(queue[c]) /\ <<c, m>> \notin puts
        /\ \A m \in Message : <<c, m>> \in puts => m \notin Elems(queue[c])

(* A message that the conductor has not had: it is fetched once in each    *)
(* generation, and not before.                                             *)
Fresh(m) == refcount[m] = 0 /\ m \notin acked

FetchInv ==
    /\ ~flow => generation < MaxGen /\ batch = {}
    /\ \A m \in batch : m.gen = generation /\ m.offset < position[m.tp] /\ Fresh(m)
    /\ \A m \in Message :
          m.gen > generation \/ (m.gen = generation /\ m.offset >= position[m.tp])
              => Fresh(m)

(* There are channels R that a message has a reference for: those that     *)
(* hold it and, once it is stale, some that have dropped it.  All others   *)
(* are done with it.                                                       *)
Served(c, m) == Id(m) \in seen[c] \/ m \in errors[c]
Current(m) == flow /\ m.gen = generation

RefersTo(m, R) ==
    /\ Holders(m) \subseteq R
    /\ refcount[m] = Cardinality(R)
    /\ Current(m) => R = Holders(m)
    /\ m \in acked => R = {}
    /\ m \in acked \/ R # {} => \A c \in Channels \ R : Served(c, m)

RefInv == \A m \in Message : \E R \in SUBSET Channels : RefersTo(m, R)

DeliveryInv == TypeOK /\ OnceInv /\ FetchInv /\ RefInv

-----------------------------------------------------------------------------
(* Messages, sequences and maxima                                          *)

(* What a message is made of.                                              *)
LEMMA MessageFields ==
    ASSUME NEW m \in Message
    PROVE  /\ m.tp \in TP /\ m.offset \in Log[m.tp] /\ m.offset \in Nat
           /\ m.gen \in 1..MaxGen
<1>1. PICK tp \in TP : m \in [tp : {tp}, offset : Log[tp], gen : 1..MaxGen]
  BY DEF Message
<1>2. m.tp = tp /\ m.offset \in Log[tp] /\ m.gen \in 1..MaxGen
  BY <1>1
<1>3. Log[tp] \subseteq Nat
  BY DeliveryAssumption
<1> QED
  BY <1>2, <1>3

(* Elements and distinctness of a queue a message is put to.               *)
LEMMA AppendElems ==
    ASSUME NEW S, NEW s \in Seq(S), NEW e \in S
    PROVE  /\ Append(s, e) \in Seq(S)
           /\ Elems(Append(s, e)) = Elems(s) \cup {e}
           /\ Distinct(s) /\ e \notin Elems(s) => Distinct(Append(s, e))
<1>1. /\ Len(Append(s, e)) = Len(s) + 1
      /\ Append(s, e)[Len(s) + 1] = e
      /\ \A i \in 1..Len(s) : Append(s, e)[i] = s[i]
  BY AppendProperties
<1>2. DOMAIN s = 1..Len(s) /\ Len(s) \in Nat
  OBVIOUS
<1>3. Append(s, e) \in Seq(S) /\ DOMAIN Append(s, e) = 1..(Len(s) + 1)
  BY <1>1, AppendProperties
<1>4. 1..(Len(s) + 1) = 1..Len(s) \cup {Len(s) + 1}
  BY <1>2
<1>5. Elems(Append(s, e)) = Elems(s) \cup {e}
  BY <1>1, <1>2, <1>3, <1>4 DEF Elems
<1>6. ASSUME Distinct(s), e \notin Elems(s)
      PROVE  Distinct(Append(s, e))
  <2> SUFFICES ASSUME NEW i \in 1..Len(s) \cup {Len(s) + 1},
                      NEW j \in 1..Len(s) \cup {Len(s) + 1},
                      Append(s, e)[i] = Append(s, e)[j]
               PROVE  i = j
    BY <1>3, <1>4 DEF Distinct
  <2>1. \A k \in 1..Len(s) : s[k] # e
    BY <1>2, <1>6 DEF Elems
  <2> QED
    BY <1>1, <1>2, <1>6, <2>1 DEF Distinct
<1> QED
  BY <1>3, <1>5, <1>6

(* Elements and distinctness of a queue an event is taken from.            *)
LEMMA TailElems ==
    ASSUME NEW S, NEW s \in Seq(S), s # <<>>
    PROVE  /\ Tail(s) \in Seq(S) /\ Head(s) \in S
           /\ Elems(s) = Elems(Tail(s)) \cup {Head(s)}
           /\ Distinct(s) => Distinct(Tail(s)) /\ Head(s) \notin Elems(Tail(s))
<1>1. /\ Len(s) \in Nat /\ Len(s) >= 1 /\ DOMAIN s = 1..Len(s)
      /\ Head(s) = s[1]
      /\ Tail(s) \in Seq(S) /\ Len(Tail(s)) = Len(s) - 1
      /\ \A i \in 1..Len(Tail(s)) : Tail(s)[i] = s[i + 1]
  <2>1. Len(s) \in Nat /\ Len(s) # 0 /\ DOMAIN s = 1..Len(s)
    BY EmptySeq
  <2>2. Tail(s) \in Seq(S) /\ Len(Tail(s)) = Len(s) - 1
    BY HeadTailProperties
  <2> QED
    BY <2>1, <2>2
<1>2. DOMAIN Tail(s) = 1..(Len(s) - 1)
  BY <1>1
<1>3. Head(s) \in S
  BY <1>1
<1>4. Elems(s) = Elems(Tail(s)) \cup {Head(s)}
  <2>1. ASSUME NEW i \in 1..Len(s)
        PROVE  s[i] \in Elems(Tail(s)) \cup {Head(s)}
    <3>1. CASE i = 1
      BY <1>1, <3>1
    <3>2. CASE i # 1
      <4>1. i - 1 \in 1..(Len(s) - 1) /\ Tail(s)[i - 1] = s[i]
        BY <1>1, <3>2
      <4> QED
        BY <1>2, <4>1 DEF Elems
    <3> QED
      BY <3>1, <3>2
  <2>2. ASSUME NEW i \in 1..(Len(s) - 1)
        PROVE  Tail(s)[i] \in Elems(s)
    <3>1. i + 1 \in 1..Len(s) /\ Tail(s)[i] = s[i + 1]
      BY <1>1
    <3> QED
      BY <1>1, <3>1 DEF Elems
  <2>3. Head(s) \in Elems(s)
    BY <1>1 DEF Elems
  <2>4. /\ Elems(s) = {s[i] : i \in 1..Len(s)}
        /\ Elems(Tail(s)) = {Tail(s)[i] : i \in 1..(Len(s) - 1)}
    BY <1>1, <1>2, Zenon DEF Elems
  <2>5. \A x \in Elems(s) : x \in Elems(Tail(s)) \cup {Head(s)}
    BY <2>1, <2>4, Zenon
  <2>6. \A x \in Elems(Tail(s)) : x \in Elems(s)
    BY <2>2, <2>4, Zenon
  <2> QED
    BY <2>3, <2>5, <2>6
<1>5. ASSUME Distinct(s)
      PROVE  Distinct(Tail(s)) /\ Head(s) \notin Elems(Tail(s))
  <2>1. \A i, j \in 1..Len(s) : s[i] = s[j] => i = j
    BY <1>1, <1>5 DEF Distinct
  <2>2. \A i \in 1..(Len(s) - 1) : Tail(s)[i] = s[i + 1] /\ i + 1 \in 1..Len(s)
    BY <1>1
  <2>3. Distinct(Tail(s))
    <3> SUFFICES ASSUME NEW i \in 1..(Len(s) - 1), NEW j \in 1..(Len(s) - 1),
                        Tail(s)[i] = Tail(s)[j]
                 PROVE  i = j
      BY <1>2 DEF Distinct
    <3>1. i + 1 = j + 1
      BY <2>1, <2>2, Zenon
    <3> QED
      BY <1>1, <3>1
  <2>4. ASSUME NEW i \in 1..(Len(s) - 1)
        PROVE  Tail(s)[i] # Head(s)
    <3>1. 1 \in 1..Len(s) /\ i + 1 # 1
      BY <1>1
    <3> QED
      BY <1>1, <2>1, <2>2, <3>1, Zenon
  <2> QED
    BY <1>2, <2>3, <2>4, Zenon DEF Elems
<1> QED
  BY <1>1, <1>3, <1>4, <1>5

(* A bounded set of numbers has a maximum.                                 *)
LEMMA MaxBounded ==
    ASSUME NEW S \in SUBSET Nat, S # {}, NEW b \in Nat, \A x \in S : x <= b
    PROVE  Max(S) \in S /\ \A x \in S : x <= Max(S)
<1> DEFINE D == {b - x : x \in S}
<1>1. D \in SUBSET Nat /\ D # {}
  <2>1. \A x \in S : b - x \in Nat
    OBVIOUS
  <2>2. PICK x \in S : TRUE
    OBVIOUS
  <2>3. b - x \in D
    OBVIOUS
  <2> QED
    BY <2>1, <2>3
<1>2. \A x, y \in Nat : x < y => <<x, y>> \in OpToRel(<, Nat)
  BY Zenon DEF OpToRel
<1>3. PICK d \in D : \A y \in D : ~ (<<y, d>> \in OpToRel(<, Nat))
  BY <1>1, WFMin, NatLessThanWellFounded
<1>4. \A y \in D : d <= y
  <2>1. \A y \in D : ~ (y < d)
    BY <1>1, <1>2, <1>3, Zenon
  <2> QED
    BY <1>1, <2>1
<1>5. PICK m \in S : d = b - m
  OBVIOUS
<1>6. \A x \in S : m >= x
  <2> TAKE x \in S
  <2>1. b - m <= b - x
    BY <1>4, <1>5
  <2> QED
    BY <2>1
<1>7. Max(S) \in S /\ \A x \in S : Max(S) >= x
  BY <1>6, Zenon DEF Max
<1>8. Max(S) \in Nat
  BY <1>7
<1> QED
  BY <1>7, <1>8

(* A count that is cut off at zero.                                        *)
LEMMA MaxZero ==
    ASSUME NEW n \in Nat
    PROVE  Max({n, 0}) = n
<1>1. Max({n, 0}) \in {n, 0} /\ \A x \in {n, 0} : x <= Max({n, 0})
  BY MaxBounded
<1> QED
  BY <1>1

(* References: the channels are finitely many.                             *)
LEMMA ChannelSets ==
    ASSUME NEW R \in SUBSET Channels
    PROVE  /\ IsFiniteSet(R) /\ Cardinality(R) \in 0..Cardinality(Channels)
           /\ Cardinality(R) = 0 <=> R = {}
           /\ Cardinality(Channels) - Cardinality(Channels \ R) = Cardinality(R)
           /\ \A c \in R : Cardinality(R \ {c}) = Cardinality(R) - 1
<1>1. IsFiniteSet(Channels) /\ Cardinality(Channels) \in Nat
  BY DeliveryAssumption, FS_CardinalityType
<1>2. IsFiniteSet(R) /\ Cardinality(R) <= Cardinality(Channels)
  BY <1>1, FS_Subset
<1>3. Cardinality(R) \in Nat
  BY <1>2, FS_CardinalityType
<1>4. Cardinality(R) = 0 <=> R = {}
  BY <1>2, FS_EmptySet
<1>5. Channels \cap R = R
  OBVIOUS
<1>6. Cardinality(Channels \ R) = Cardinality(Channels) - Cardinality(R)
  BY <1>1, <1>5, FS_Difference
<1>7. \A c \in R : Cardinality(R \ {c}) = Cardinality(R) - 1
  BY <1>2, FS_RemoveElement
<1> QED
  BY <1>1, <1>2, <1>3, <1>4, <1>6, <1>7

-----------------------------------------------------------------------------
(* What a step leaves of the references                                    *)

Holds(c, m) == m \in busy[c] \/ <<c, m>> \in puts \/ m \in Elems(queue[c])

(* The channels that hold a message, before and after a step.              *)
LEMMA HoldersAre ==
    ASSUME NEW m
    PROVE  /\ Holders(m) = {c \in Channels : Holds(c, m)}
           /\ Holders(m)' = {c \in Channels : Holds(c, m)'}
BY DEF Holders, Holds, Elems

(* A message that is fresh is held by nobody.                              *)
LEMMA FreshHeldByNone ==
    ASSUME RefInv, NEW m \in Message, Fresh(m)
    PROVE  Holders(m) = {} /\ RefersTo(m, {})
<1>1. PICK R \in SUBSET Channels : RefersTo(m, R)
  BY DEF RefInv
<1>2. R = {}
  BY <1>1, ChannelSets DEF RefersTo, Fresh
<1> QED
  BY <1>1, <1>2 DEF RefersTo

(* A step that leaves the count of a message alone, and its holders too    *)
(* unless it is stale.                                                     *)
LEMMA ReferencesKept ==
    ASSUME NEW m \in Message,
           \E R \in SUBSET Channels : RefersTo(m, R),
           refcount'[m] = refcount[m],
           m \in acked' <=> m \in acked,
           \A c \in Channels : Served(c, m) => Served(c, m)',
           Holders(m)' \subseteq Holders(m),
           Current(m)' => Current(m) /\ Holders(m)' = Holders(m)
    PROVE  \E R \in SUBSET Channels : RefersTo(m, R)'
<1>1. PICK R \in SUBSET Channels : RefersTo(m, R)
  OBVIOUS
<1> WITNESS R \in SUBSET Channels
<1>2. Holders(m)' \subseteq R
  BY <1>1, Zenon DEF RefersTo
<1>3. refcount'[m] = Cardinality(R)
  BY <1>1, Zenon DEF RefersTo
<1>4. Current(m)' => R = Holders(m)'
  BY <1>1, Zenon DEF RefersTo
<1>5. m \in acked' => R = {}
  BY <1>1, Zenon DEF RefersTo
<1>6. m \in acked' \/ R # {} => \A c \in Channels \ R : Served(c, m)'
  <2>1. m \in acked \/ R # {} => \A c \in Channels \ R : Served(c, m)
    BY <1>1, Zenon DEF RefersTo
  <2>2. \A c \in Channels \ R : c \in Channels
    OBVIOUS
  <2> QED
    BY <2>1, <2>2, Zenon
<1> QED
  BY <1>2, <1>3, <1>4, <1>5, <1>6, Zenon DEF RefersTo

(* A step that changes neither counts nor what is fetched.                 *)
LEMMA FetchKept ==
    ASSUME FetchInv, generation' = generation, flow' = flow, batch' = batch,
           position' = position, refcount' = refcount, acked' = acked
    PROVE  FetchInv'
<1>1. \A m : Fresh(m)' <=> Fresh(m)
  BY DEF Fresh
<1> QED
  BY <1>1 DEF FetchInv

-----------------------------------------------------------------------------
(* The invariant holds initially and each step preserves it                *)

(* The invariant holds in the beginning.                                   *)
LEMMA InitInv ==
    ASSUME Init
    PROVE  DeliveryInv
<1>1. TypeOK
  <2>2. waiting = {}
    BY DEF Init
  <2>3. refcount \in [Message -> 0..Cardinality(Channels)]
    BY DeliveryAssumption, FS_CardinalityType DEF Init
  <2>4. queue \in [Channels -> Seq(Message)]
    BY DEF Init
  <2>5. order \in [Channels -> 1..Cardinality(Channels)]
    BY DEF Init
  <2>6. generation \in 1..MaxGen
    BY DeliveryAssumption DEF Init
  <2>7. position \in [TP -> Nat]
    BY DEF Init
  <2>8. flow \in BOOLEAN
    BY DEF Init
  <2>9. /\ errors \in [Channels -> SUBSET Message]
        /\ busy \in [Channels -> SUBSET Message]
        /\ pending \in [Channels -> SUBSET (TP \X (1..MaxGen))]
        /\ seen \in [Channels -> SUBSET (TP \X Nat)]
    BY DEF Init
  <2>10. /\ batch = {} /\ puts = {} /\ acked = {} /\ tracked = {}
         /\ active = TP /\ buffered = {}
    BY DEF Init
  <2> QED
    BY <2>2, <2>3, <2>4, <2>5, <2>6, <2>7, <2>8, <2>9, <2>10 DEF TypeOK
<1>2. \A c \in Channels : queue[c] = <<>> /\ busy[c] = {} /\ puts = {}
  BY DEF Init
<1>3. OnceInv
  BY <1>2 DEF OnceInv, Distinct, Elems
<1>4. \A m \in Message : refcount[m] = 0 /\ m \notin acked
  BY DEF Init
<1>5. FetchInv
  BY <1>4 DEF FetchInv, Fresh, Init
<1>6. RefInv
  <2> SUFFICES ASSUME NEW m \in Message
               PROVE  \E R \in SUBSET Channels : RefersTo(m, R)
    BY DEF RefInv
  <2>1. Holders(m) = {}
    BY <1>2 DEF Holders
  <2>2. RefersTo(m, {})
    BY <1>4, <2>1, FS_EmptySet DEF RefersTo
  <2> QED
    BY <2>2
<1> QED
  BY <1>1, <1>3, <1>5, <1>6 DEF DeliveryInv

(* Messages are fetched from where the last fetch ended: none of them was  *)
(* fetched before in this generation.                                      *)
LEMMA FetchPreserves ==
    ASSUME DeliveryInv, Fetch
    PROVE  DeliveryInv'
<1> USE DEF DeliveryInv
<1>1. /\ generation' = generation /\ flow' = flow /\ order' = order
      /\ waiting' = waiting /\ puts' = puts /\ queue' = queue
      /\ errors' = errors /\ refcount' = refcount /\ acked' = acked
      /\ tracked' = tracked /\ busy' = busy /\ active' = active
      /\ buffered' = buffered /\ pending' = pending /\ seen' = seen
  BY DEF Fetch, fetchVars, countVars, pressureVars
<1>2. PICK upTo \in [TP -> UNION {Log[tp] : tp \in TP}] :
        LET new == {m \in Message : /\ m.gen = generation
                                    /\ m.tp \in active
                                    /\ position[m.tp] <= m.offset
                                    /\ m.offset <= upTo[m.tp]}
        IN  /\ batch' = new
            /\ position' = [tp \in TP |->
                  Max({position[tp]} \cup {m.offset + 1 : m \in
                                             {n \in new : n.tp = tp}})]
  BY Zenon DEF Fetch
<1> DEFINE ends(tp) == {position[tp]} \cup {m.offset + 1 : m \in
                                             {n \in batch' : n.tp = tp}}
<1>3. /\ batch' = {m \in Message : /\ m.gen = generation
                                   /\ m.tp \in active
                                   /\ position[m.tp] <= m.offset
                                   /\ m.offset <= upTo[m.tp]}
      /\ position' = [tp \in TP |-> Max(ends(tp))]
  BY <1>2, Zenon
<1>4. batch' \in SUBSET Message
  BY <1>3
<1>5. ASSUME NEW tp \in TP
      PROVE  Max(ends(tp)) \in ends(tp) /\ Max(ends(tp)) \in Nat
             /\ \A x \in ends(tp) : x <= Max(ends(tp))
  <2>1. position[tp] \in Nat
    BY DEF TypeOK
  <2>2. \A m \in batch' : m.offset \in Nat
    BY <1>4, MessageFields
  <2>3. ends(tp) \in SUBSET Nat /\ ends(tp) # {}
    BY <2>1, <2>2
  <2>4. PICK b \in Nat : \A x \in ends(tp) : x <= b
    <3>1. CASE Log[tp] = {}
      <4>1. \A m \in batch' : m.tp # tp
        BY <1>4, <3>1, MessageFields
      <4>2. \A x \in ends(tp) : x <= position[tp]
        BY <2>1, <4>1
      <4> QED
        BY <2>1, <4>2
    <3>2. CASE Log[tp] # {}
      <4>1. PICK last \in Log[tp] : \A o \in Log[tp] : o <= last
        BY <3>2, DeliveryAssumption
      <4>2. last \in Nat /\ Log[tp] \in SUBSET Nat
        BY <4>1, DeliveryAssumption
      <4>3. \A m \in batch' : m.tp = tp => m.offset \in Nat /\ m.offset <= last
        BY <1>4, <4>1, MessageFields
      <4>4. \A x \in ends(tp) : x <= position[tp] + last + 1
        BY <2>1, <4>2, <4>3
      <4> QED
        BY <2>1, <4>2, <4>4
    <3> QED
      BY <3>1, <3>2
  <2> HIDE DEF ends
  <2>5. Max(ends(tp)) \in ends(tp) /\ \A x \in ends(tp) : x <= Max(ends(tp))
    BY <2>3, <2>4, MaxBounded
  <2> QED
    BY <2>3, <2>5
<1>6. position' \in [TP -> Nat]
  BY <1>3, <1>5
<1>7. \A tp \in TP : position[tp] \in Nat /\ position'[tp] \in Nat
                     /\ position[tp] <= position'[tp]
  BY <1>3, <1>5 DEF TypeOK
<1>8. \A m \in batch' : m.offset + 1 <= position'[m.tp]
  <2> TAKE m \in batch'
  <2>1. m.tp \in TP
    BY <1>4, MessageFields
  <2>2. m.offset + 1 \in ends(m.tp)
    OBVIOUS
  <2> QED
    BY <1>3, <1>5, <2>1, <2>2
<1> HIDE DEF ends
<1>9. TypeOK'
  BY <1>1, <1>4, <1>6, Zenon DEF TypeOK
<1>10. OnceInv'
  BY <1>1 DEF OnceInv
<1>11. RefInv'
  <2> SUFFICES ASSUME NEW m \in Message
               PROVE  \E R \in SUBSET Channels : RefersTo(m, R)'
    BY DEF RefInv
  <2>1. Holders(m)' = Holders(m)
    BY <1>1 DEF Holders
  <2>2. Current(m)' <=> Current(m)
    BY <1>1, Zenon DEF Current
  <2>3. \A c \in Channels : Served(c, m) => Served(c, m)'
    BY <1>1, Zenon DEF Served
  <2> QED
    BY <1>1, <2>1, <2>2, <2>3, ReferencesKept DEF RefInv
<1>12. \A m \in Message : Fresh(m)' <=> Fresh(m)
  BY <1>1 DEF Fresh
<1>13. flow'
  BY <1>1 DEF Fetch
<1>14. \A m \in batch' : m \in Message /\ m.gen = generation' /\ Fresh(m)
                         /\ m.offset < position'[m.tp]
  <2> TAKE m \in batch'
  <2>1. /\ m \in Message /\ m.gen = generation /\ position[m.tp] <= m.offset
    BY <1>3
  <2>2. m.offset \in Nat /\ m.tp \in TP
    BY <2>1, MessageFields
  <2>3. Fresh(m)
    BY <1>7, <2>1, <2>2 DEF FetchInv
  <2> QED
    BY <1>1, <1>7, <1>8, <2>1, <2>2, <2>3
<1>15. ASSUME NEW m \in Message,
              m.gen > generation' \/ (m.gen = generation' /\ m.offset >= position'[m.tp])
       PROVE  Fresh(m)
  <2>1. m.offset \in Nat /\ m.tp \in TP
    BY MessageFields
  <2>2. m.gen > generation \/ (m.gen = generation /\ m.offset >= position[m.tp])
    BY <1>1, <1>7, <1>15, <2>1
  <2> QED
    BY <2>2 DEF FetchInv
<1>16. FetchInv'
  BY <1>12, <1>13, <1>14, <1>15 DEF FetchInv
<1> QED
  BY <1>9, <1>10, <1>11, <1>16

(* A task puts an event it has waited with.                                *)
LEMMA HandleFullPreserves ==
    ASSUME DeliveryInv, NEW c \in Channels, NEW m \in Message, HandleFull(c, m)
    PROVE  DeliveryInv'
<1> USE DEF DeliveryInv
<1>1. /\ generation' = generation /\ flow' = flow /\ order' = order
      /\ position' = position /\ batch' = batch /\ errors' = errors
      /\ refcount' = refcount /\ acked' = acked /\ tracked' = tracked
      /\ busy' = busy /\ active' = active /\ buffered' = buffered
      /\ pending' = pending /\ seen' = seen
  BY DEF HandleFull, fetchVars, countVars, pressureVars
<1>2. /\ <<c, m>> \in puts /\ puts' = puts \ {<<c, m>>}
      /\ queue' = [queue EXCEPT ![c] = Append(@, m)]
      /\ waiting' \subseteq waiting
  BY DEF HandleFull
<1>3. queue \in [Channels -> Seq(Message)]
  BY DEF TypeOK
<1>4. /\ Append(queue[c], m) \in Seq(Message)
      /\ Elems(Append(queue[c], m)) = Elems(queue[c]) \cup {m}
      /\ Distinct(queue[c]) /\ m \notin Elems(queue[c])
            => Distinct(Append(queue[c], m))
  BY <1>3, AppendElems
<1>5. queue'[c] = Append(queue[c], m) /\ \A d \in Channels \ {c} : queue'[d] = queue[d]
  BY <1>2, <1>3
<1>6. queue' \in [Channels -> Seq(Message)]
  BY <1>2, <1>3, <1>4
<1>7. waiting' \in SUBSET Message /\ \A i, j \in waiting' : i = j
  BY <1>2 DEF TypeOK
<1>8. puts' \in SUBSET (Channels \X Message)
  BY <1>2 DEF TypeOK
<1>9. TypeOK'
  BY <1>1, <1>6, <1>7, <1>8, Zenon DEF TypeOK
<1>10. OnceInv'
  <2> SUFFICES ASSUME NEW d \in Channels
               PROVE  OnceInv!(d)'
    BY DEF OnceInv
  <2>1. OnceInv!(d)
    BY DEF OnceInv
  <2>2. CASE d = c
    BY <1>1, <1>2, <1>4, <1>5, <2>1, <2>2
  <2>3. CASE d # c
    BY <1>1, <1>2, <1>5, <2>1, <2>3
  <2> QED
    BY <2>2, <2>3
<1>11. FetchInv'
  BY <1>1, FetchKept
<1>12. RefInv'
  <2> SUFFICES ASSUME NEW n \in Message
               PROVE  \E R \in SUBSET Channels : RefersTo(n, R)'
    BY DEF RefInv
  <2>1. Holders(n)' = Holders(n)
    <3>1. \A d \in Channels : Holds(d, n)' <=> Holds(d, n)
      <4> TAKE d \in Channels
      <4>1. CASE d = c
        BY <1>1, <1>2, <1>4, <1>5, <4>1, SMTT(30) DEF Holds
      <4>2. CASE d # c
        BY <1>1, <1>2, <1>5, <4>2 DEF Holds
      <4> QED
        BY <4>1, <4>2
    <3> QED
      BY <3>1, HoldersAre, Zenon
  <2>2. Current(n)' <=> Current(n)
    BY <1>1, Zenon DEF Current
  <2>3. \A d \in Channels : Served(d, n) => Served(d, n)'
    BY <1>1, Zenon DEF Served
  <2> QED
    BY <1>1, <2>1, <2>2, <2>3, ReferencesKept DEF RefInv
<1> QED
  BY <1>9, <1>10, <1>11, <1>12

(* What taking an event from a queue changes.                              *)
LEMMA GetFrom ==
    ASSUME DeliveryInv, NEW c \in Channels, Get(c)
    PROVE  /\ /\ generation' = generation /\ flow' = flow /\ order' = order
           /\ position' = position /\ batch' = batch /\ waiting' = waiting
           /\ puts' = puts /\ errors' = errors /\ refcount' = refcount
           /\ acked' = acked /\ seen' = seen
           /\ busy[c] = {}
           /\ queue' \in [Channels -> Seq(Message)]
           /\ active' \in SUBSET TP /\ buffered' \in SUBSET TP
           /\ pending' \in [Channels -> SUBSET (TP \X (1..MaxGen))]
           /\ Head(queue[c]) \in Message
           /\ Elems(queue[c]) = Elems(queue'[c]) \cup {Head(queue[c])}
           /\ Distinct(queue'[c]) /\ Head(queue[c]) \notin Elems(queue'[c])
           /\ \A d \in Channels \ {c} : queue'[d] = queue[d]
<1> USE DEF DeliveryInv
<1>1. /\ generation' = generation /\ flow' = flow /\ order' = order
      /\ position' = position /\ batch' = batch /\ waiting' = waiting
      /\ puts' = puts /\ errors' = errors /\ refcount' = refcount
      /\ acked' = acked /\ seen' = seen
  BY DEF Get, fetchVars, countVars, pressureVars
<1>2. /\ queue[c] # <<>> /\ busy[c] = {}
      /\ queue' = [queue EXCEPT ![c] = Tail(queue[c])]
  BY DEF Get
<1>3. queue \in [Channels -> Seq(Message)] /\ Distinct(queue[c])
  BY DEF TypeOK, OnceInv
<1>4. /\ Tail(queue[c]) \in Seq(Message) /\ Head(queue[c]) \in Message
      /\ Elems(queue[c]) = Elems(Tail(queue[c])) \cup {Head(queue[c])}
      /\ Distinct(Tail(queue[c])) /\ Head(queue[c]) \notin Elems(Tail(queue[c]))
  BY <1>2, <1>3, TailElems
<1>5. queue' \in [Channels -> Seq(Message)]
  BY <1>2, <1>3, <1>4
<1>6. queue'[c] = Tail(queue[c]) /\ \A d \in Channels \ {c} : queue'[d] = queue[d]
  BY <1>2, <1>3
<1>7. /\ active' \in SUBSET TP /\ buffered' \in SUBSET TP
      /\ pending' \in [Channels -> SUBSET (TP \X (1..MaxGen))]
  <2>1. CASE Len(queue[c]) - 1 <= Low
    BY <2>1 DEF Get, OnPressureDrop, TypeOK
  <2>2. CASE ~(Len(queue[c]) - 1 <= Low)
    BY <2>2 DEF Get, pressureVars, TypeOK
  <2> QED
    BY <2>1, <2>2
<1> QED
  BY <1>1, <1>2, <1>4, <1>5, <1>6, <1>7

(* A stream takes the event at the head of its queue.                      *)
LEMMA StreamTakePreserves ==
    ASSUME DeliveryInv, NEW c \in Channels, StreamTake(c)
    PROVE  DeliveryInv'
<1> USE DEF DeliveryInv
<1> DEFINE h == Head(queue[c])
<1>1. /\ generation' = generation /\ flow' = flow /\ order' = order
      /\ position' = position /\ batch' = batch /\ waiting' = waiting
      /\ puts' = puts /\ errors' = errors /\ refcount' = refcount
      /\ acked' = acked /\ seen' = seen
  BY GetFrom DEF StreamTake
<1>2. /\ queue' \in [Channels -> Seq(Message)]
      /\ active' \in SUBSET TP /\ buffered' \in SUBSET TP
      /\ pending' \in [Channels -> SUBSET (TP \X (1..MaxGen))]
  BY GetFrom DEF StreamTake
<1>3. /\ h \in Message /\ busy[c] = {}
      /\ Elems(queue[c]) = Elems(queue'[c]) \cup {h}
      /\ Distinct(queue'[c]) /\ h \notin Elems(queue'[c])
      /\ \A d \in Channels \ {c} : queue'[d] = queue[d]
  BY GetFrom DEF StreamTake
<1>4. busy' = [busy EXCEPT ![c] = {h}] /\ tracked' = tracked \cup {h}
  BY DEF StreamTake
<1> HIDE DEF h
<1>5. /\ busy' \in [Channels -> SUBSET Message] /\ tracked' \in SUBSET Message
      /\ busy'[c] = {h} /\ \A d \in Channels \ {c} : busy'[d] = busy[d]
  BY <1>3, <1>4 DEF TypeOK
<1>6. TypeOK'
  BY <1>1, <1>2, <1>5, Zenon DEF TypeOK
<1>7. OnceInv'
  <2> SUFFICES ASSUME NEW d \in Channels
               PROVE  OnceInv!(d)'
    BY DEF OnceInv
  <2>1. OnceInv!(d)
    BY DEF OnceInv
  <2>2. CASE d = c
    <3>1. <<c, h>> \notin puts
      BY <1>3, <2>1, <2>2
    <3> QED
      BY <1>1, <1>3, <1>5, <2>1, <2>2, <3>1
  <2>3. CASE d # c
    BY <1>1, <1>3, <1>5, <2>1, <2>3
  <2> QED
    BY <2>2, <2>3
<1>8. FetchInv'
  BY <1>1, FetchKept
<1>9. RefInv'
  <2> SUFFICES ASSUME NEW n \in Message
               PROVE  \E R \in SUBSET Channels : RefersTo(n, R)'
    BY DEF RefInv
  <2>1. Holders(n)' = Holders(n)
    <3>1. \A d \in Channels : Holds(d, n)' <=> Holds(d, n)
      <4> TAKE d \in Channels
      <4>1. CASE d = c
        BY <1>1, <1>3, <1>5, <4>1 DEF Holds
      <4>2. CASE d # c
        BY <1>1, <1>3, <1>5, <4>2 DEF Holds
      <4> QED
        BY <4>1, <4>2
    <3> QED
      BY <3>1, HoldersAre, Zenon
  <2>2. Current(n)' <=> Current(n)
    BY <1>1, Zenon DEF Current
  <2>3. \A d \in Channels : Served(d, n) => Served(d, n)'
    BY <1>1, Zenon DEF Served
  <2> QED
    BY <1>1, <2>1, <2>2, <2>3, ReferencesKept DEF RefInv
<1> QED
  BY <1>6, <1>7, <1>8, <1>9

(* A stream drops a stale event: its reference stays.                      *)
LEMMA StreamSkipPreserves ==
    ASSUME DeliveryInv, NEW c \in Channels, StreamSkip(c)
    PROVE  DeliveryInv'
<1> USE DEF DeliveryInv
<1> DEFINE h == Head(queue[c])
<1>1. /\ generation' = generation /\ flow' = flow /\ order' = order
      /\ position' = position /\ batch' = batch /\ waiting' = waiting
      /\ puts' = puts /\ errors' = errors /\ refcount' = refcount
      /\ acked' = acked /\ tracked' = tracked /\ busy' = busy
      /\ seen' = seen
  BY GetFrom DEF StreamSkip
<1>2. /\ queue' \in [Channels -> Seq(Message)]
      /\ active' \in SUBSET TP /\ buffered' \in SUBSET TP
      /\ pending' \in [Channels -> SUBSET (TP \X (1..MaxGen))]
  BY GetFrom DEF StreamSkip
<1>3. /\ h \in Message /\ busy[c] = {}
      /\ Elems(queue[c]) = Elems(queue'[c]) \cup {h}
      /\ Distinct(queue'[c]) /\ h \notin Elems(queue'[c])
      /\ \A d \in Channels \ {c} : queue'[d] = queue[d]
  BY GetFrom DEF StreamSkip
<1>4. ~Current(h)
  BY DEF StreamSkip, Stale, Current
<1> HIDE DEF h
<1>5. TypeOK'
  BY <1>1, <1>2, Zenon DEF TypeOK
<1>6. OnceInv'
  <2> SUFFICES ASSUME NEW d \in Channels
               PROVE  OnceInv!(d)'
    BY DEF OnceInv
  <2>1. OnceInv!(d)
    BY DEF OnceInv
  <2>2. CASE d = c
    BY <1>1, <1>3, <2>1, <2>2
  <2>3. CASE d # c
    BY <1>1, <1>3, <2>1, <2>3
  <2> QED
    BY <2>2, <2>3
<1>7. FetchInv'
  BY <1>1, FetchKept
<1>8. RefInv'
  <2> SUFFICES ASSUME NEW n \in Message
               PROVE  \E R \in SUBSET Channels : RefersTo(n, R)'
    BY DEF RefInv
  <2>1. \A d \in Channels : Holds(d, n)' => Holds(d, n)
    <3> TAKE d \in Channels
    <3>1. CASE d = c
      BY <1>1, <1>3, <3>1 DEF Holds
    <3>2. CASE d # c
      BY <1>1, <1>3, <3>2 DEF Holds
    <3> QED
      BY <3>1, <3>2
  <2>2. ASSUME n # h
        PROVE  \A d \in Channels : Holds(d, n) => Holds(d, n)'
    <3> TAKE d \in Channels
    <3>1. CASE d = c
      BY <1>1, <1>3, <2>2, <3>1 DEF Holds
    <3>2. CASE d # c
      BY <1>1, <1>3, <3>2 DEF Holds
    <3> QED
      BY <3>1, <3>2
  <2>3. Holders(n)' \subseteq Holders(n) /\ (n # h => Holders(n)' = Holders(n))
    BY <2>1, <2>2, HoldersAre
  <2>4. Current(n)' <=> Current(n)
    BY <1>1, Zenon DEF Current
  <2>5. \A d \in Channels : Served(d, n) => Served(d, n)'
    BY <1>1, Zenon DEF Served
  <2>6. Current(n)' => Current(n) /\ Holders(n)' = Holders(n)
    BY <1>4, <2>3, <2>4, Zenon
  <2> QED
    BY <1>1, <2>3, <2>5, <2>6, ReferencesKept DEF RefInv
<1> QED
  BY <1>5, <1>6, <1>7, <1>8

(* A stream is told about a message it cannot decode.                      *)
LEMMA StreamErrorPreserves ==
    ASSUME DeliveryInv, NEW c \in Channels, StreamError(c)
    PROVE  DeliveryInv'
<1> USE DEF DeliveryInv
<1>1. /\ generation' = generation /\ flow' = flow /\ order' = order
      /\ position' = position /\ batch' = batch /\ waiting' = waiting
      /\ puts' = puts /\ queue' = queue /\ refcount' = refcount
      /\ acked' = acked /\ tracked' = tracked /\ busy' = busy
      /\ active' = active /\ buffered' = buffered /\ pending' = pending
  BY DEF StreamError, fetchVars, countVars, pressureVars
<1>2. PICK m \in errors[c] : /\ errors' = [errors EXCEPT ![c] = errors[c] \ {m}]
                             /\ seen' = [seen EXCEPT ![c] = seen[c] \cup {Id(m)}]
  BY DEF StreamError
<1>3. m \in Message /\ Id(m) \in TP \X Nat
  BY MessageFields DEF TypeOK, Id
<1>4. /\ errors' \in [Channels -> SUBSET Message]
      /\ seen' \in [Channels -> SUBSET (TP \X Nat)]
  BY <1>2, <1>3 DEF TypeOK
<1>5. TypeOK'
  BY <1>1, <1>4, Zenon DEF TypeOK
<1>6. OnceInv'
  BY <1>1 DEF OnceInv
<1>7. FetchInv'
  BY <1>1, FetchKept
<1>8. RefInv'
  <2> SUFFICES ASSUME NEW n \in Message
               PROVE  \E R \in SUBSET Channels : RefersTo(n, R)'
    BY DEF RefInv
  <2>1. Holders(n)' = Holders(n)
    BY <1>1 DEF Holders
  <2>2. Current(n)' <=> Current(n)
    BY <1>1, Zenon DEF Current
  <2>3. \A d \in Channels : Served(d, n) => Served(d, n)'
    <3> TAKE d \in Channels
    <3>1. CASE d = c
      BY <1>2, <3>1 DEF Served, TypeOK, Id
    <3>2. CASE d # c
      BY <1>2, <3>2 DEF Served, TypeOK, Id
    <3> QED
      BY <3>1, <3>2
  <2> QED
    BY <1>1, <2>1, <2>2, <2>3, ReferencesKept DEF RefInv
<1> QED
  BY <1>5, <1>6, <1>7, <1>8

(* A stream is done with its event and drops the reference for it.         *)
LEMMA StreamFinishPreserves ==
    ASSUME DeliveryInv, NEW c \in Channels, StreamFinish(c)
    PROVE  DeliveryInv'
<1> USE DEF DeliveryInv
<1>1. /\ generation' = generation /\ flow' = flow /\ order' = order
      /\ position' = position /\ batch' = batch /\ waiting' = waiting
      /\ puts' = puts /\ queue' = queue /\ errors' = errors
      /\ tracked' = tracked /\ active' = active /\ buffered' = buffered
      /\ pending' = pending
  BY DEF StreamFinish, fetchVars, countVars, pressureVars
<1>2. PICK m \in busy[c] :
        /\ seen' = [seen EXCEPT ![c] = seen[c] \cup {Id(m)}]
        /\ m \notin acked =>
             /\ refcount' = [refcount EXCEPT ![m] = Max({refcount[m] - 1, 0})]
             /\ acked' = IF refcount'[m] = 0 THEN acked \cup {m} ELSE acked
  BY DEF StreamFinish
<1>3. m \in Message /\ Id(m) \in TP \X Nat
  BY MessageFields DEF TypeOK, Id
<1>4. /\ busy' \in [Channels -> SUBSET Message]
      /\ busy'[c] = {} /\ \A d \in Channels \ {c} : busy'[d] = busy[d]
  BY DEF StreamFinish, TypeOK
<1>5. /\ seen' \in [Channels -> SUBSET (TP \X Nat)]
      /\ Id(m) \in seen'[c]
      /\ \A d \in Channels : seen[d] \subseteq seen'[d]
  BY <1>2, <1>3 DEF TypeOK
<1>6. PICK R \in SUBSET Channels : RefersTo(m, R)
  BY <1>3 DEF RefInv
<1>7. c \in Holders(m) /\ c \in R /\ m \notin acked
  BY <1>6, Zenon DEF RefersTo, Holders
<1>8. /\ Cardinality(R) \in 0..Cardinality(Channels)
      /\ Cardinality(R \ {c}) = Cardinality(R) - 1
      /\ Cardinality(R \ {c}) \in 0..Cardinality(Channels)
      /\ Cardinality(R \ {c}) = 0 <=> R \ {c} = {}
      /\ Cardinality(Channels) \in Nat
  <2>1. R \ {c} \in SUBSET Channels
    OBVIOUS
  <2>2. Cardinality(Channels) \in Nat
    BY DeliveryAssumption, FS_CardinalityType
  <2> QED
    BY <1>7, <2>1, <2>2, ChannelSets
<1>9. Max({refcount[m] - 1, 0}) = Cardinality(R \ {c})
  <2>1. refcount[m] - 1 = Cardinality(R \ {c}) /\ Cardinality(R \ {c}) \in Nat
    BY <1>6, <1>8 DEF RefersTo
  <2> QED
    BY <2>1, MaxZero
<1>10. /\ refcount' = [refcount EXCEPT ![m] = Cardinality(R \ {c})]
       /\ refcount'[m] = Cardinality(R \ {c})
       /\ acked' = IF R \ {c} = {} THEN acked \cup {m} ELSE acked
  BY <1>2, <1>3, <1>7, <1>8, <1>9 DEF TypeOK
<1>11. /\ refcount' \in [Message -> 0..Cardinality(Channels)]
       /\ acked' \in SUBSET Message
       /\ \A n \in Message \ {m} : /\ refcount'[n] = refcount[n]
                                   /\ n \in acked' <=> n \in acked
  BY <1>3, <1>8, <1>10 DEF TypeOK
<1>12. TypeOK'
  BY <1>1, <1>4, <1>5, <1>11, Zenon DEF TypeOK
<1>13. OnceInv'
  <2> SUFFICES ASSUME NEW d \in Channels
               PROVE  OnceInv!(d)'
    BY DEF OnceInv
  <2>1. OnceInv!(d)
    BY DEF OnceInv
  <2>2. CASE d = c
    BY <1>1, <1>4, <2>1, <2>2
  <2>3. CASE d # c
    BY <1>1, <1>4, <2>1, <2>3
  <2> QED
    BY <2>2, <2>3
<1>14. FetchInv'
  <2>1. ~Fresh(m)
    BY <1>6, <1>7, <1>8 DEF Fresh, RefersTo
  <2>2. \A n \in Message \ {m} : Fresh(n)' <=> Fresh(n)
    BY <1>11 DEF Fresh
  <2>3. \A n \in Message : Fresh(n) => Fresh(n)'
    BY <2>1, <2>2
  <2>4. batch \in SUBSET Message
    BY DEF TypeOK
  <2> QED
    BY <1>1, <2>3, <2>4 DEF FetchInv
<1>15. RefInv'
  <2> SUFFICES ASSUME NEW n \in Message
               PROVE  \E Q \in SUBSET Channels : RefersTo(n, Q)'
    BY DEF RefInv
  <2>1. Current(n)' <=> Current(n)
    BY <1>1, Zenon DEF Current
  <2>2. \A d \in Channels : Served(d, n) => Served(d, n)'
    BY <1>1, <1>5 DEF Served
  <2>3. CASE n # m
    <3>1. \A d \in Channels : Holds(d, n)' <=> Holds(d, n)
      <4> TAKE d \in Channels
      <4>1. CASE d = c
        <5>1. n \notin busy[c]
          BY <2>3 DEF OnceInv
        <5> QED
          BY <1>1, <1>4, <4>1, <5>1 DEF Holds
      <4>2. CASE d # c
        BY <1>1, <1>4, <4>2 DEF Holds
      <4> QED
        BY <4>1, <4>2
    <3>2. Holders(n)' = Holders(n)
      BY <3>1, HoldersAre, Zenon
    <3>3. refcount'[n] = refcount[n] /\ (n \in acked' <=> n \in acked)
      BY <1>11, <2>3
    <3> QED
      BY <2>1, <2>2, <3>2, <3>3, ReferencesKept DEF RefInv
  <2>4. CASE n = m
    <3>1. Holders(m)' = Holders(m) \ {c}
      <4>1. ~Holds(c, m)'
        BY <1>1, <1>4 DEF Holds, OnceInv
      <4>2. \A d \in Channels \ {c} : Holds(d, m)' <=> Holds(d, m)
        BY <1>1, <1>4 DEF Holds
      <4> QED
        BY <4>1, <4>2, HoldersAre
    <3>2. Holders(m)' \subseteq R \ {c} /\ (Current(m)' => R \ {c} = Holders(m)')
      BY <1>6, <2>1, <2>4, <3>1 DEF RefersTo
    <3>3. m \in acked' => R \ {c} = {}
      BY <1>7, <1>10
    <3>4. \A d \in Channels \ (R \ {c}) : Served(d, m)'
      <4>1. Served(c, m)'
        BY <1>5 DEF Served
      <4>2. \A d \in Channels \ R : Served(d, m)
        BY <1>6, <1>7 DEF RefersTo
      <4> QED
        BY <2>2, <2>4, <4>1, <4>2
    <3>5. RefersTo(m, R \ {c})'
      BY <1>10, <3>2, <3>3, <3>4, Zenon DEF RefersTo
    <3> QED
      BY <2>4, <3>5
  <2> QED
    BY <2>3, <2>4
<1> QED
  BY <1>12, <1>13, <1>14, <1>15

(* The queues are emptied: what they held keeps its references.            *)
LEMMA RevokePreserves ==
    ASSUME DeliveryInv, Revoke
    PROVE  DeliveryInv'
<1> USE DEF DeliveryInv
<1>1. /\ generation' = generation /\ order' = order /\ position' = position
      /\ puts' = puts /\ errors' = errors /\ refcount' = refcount
      /\ acked' = acked /\ tracked' = tracked /\ busy' = busy
      /\ buffered' = buffered /\ pending' = pending /\ seen' = seen
  BY DEF Revoke, fetchVars, countVars, pressureVars
<1>2. /\ flow' = FALSE /\ batch' = {} /\ waiting' = {} /\ active' = {}
      /\ queue' = [c \in Channels |-> <<>>] /\ generation < MaxGen
  BY DEF Revoke
<1>3. queue' \in [Channels -> Seq(Message)] /\ \A c \in Channels : queue'[c] = <<>>
  BY <1>2
<1>4. Elems(<<>>) = {} /\ Distinct(<<>>)
  BY DEF Elems, Distinct
<1>5. TypeOK'
  <2>1. /\ flow' \in BOOLEAN /\ batch' \in SUBSET Message
        /\ waiting' \in SUBSET Message /\ \A m, n \in waiting' : m = n
        /\ active' \in SUBSET TP
    BY <1>2
  <2> QED
    BY <1>1, <1>3, <2>1, Zenon DEF TypeOK
<1>6. OnceInv'
  BY <1>1, <1>3, <1>4 DEF OnceInv
<1>7. FetchInv'
  <2>1. \A m : Fresh(m)' <=> Fresh(m)
    BY <1>1 DEF Fresh
  <2> QED
    BY <1>1, <1>2, <2>1 DEF FetchInv
<1>8. RefInv'
  <2> SUFFICES ASSUME NEW n \in Message
               PROVE  \E R \in SUBSET Channels : RefersTo(n, R)'
    BY DEF RefInv
  <2>1. \A d \in Channels : Holds(d, n)' => Holds(d, n)
    BY <1>1, <1>3, <1>4 DEF Holds
  <2>2. Holders(n)' \subseteq Holders(n)
    BY <2>1, HoldersAre
  <2>3. ~Current(n)'
    BY <1>2 DEF Current
  <2>4. \A d \in Channels : Served(d, n) => Served(d, n)'
    BY <1>1, Zenon DEF Served
  <2> QED
    BY <1>1, <2>2, <2>3, <2>4, ReferencesKept DEF RefInv
<1> QED
  BY <1>5, <1>6, <1>7, <1>8

(* A new generation starts: none of its messages exists yet.               *)
LEMMA ResumePreserves ==
    ASSUME DeliveryInv, Resume
    PROVE  DeliveryInv'
<1> USE DEF DeliveryInv
<1>1. /\ order' = order /\ batch' = batch /\ waiting' = waiting
      /\ puts' = puts /\ queue' = queue /\ errors' = errors
      /\ refcount' = refcount /\ acked' = acked /\ tracked' = tracked
      /\ busy' = busy /\ buffered' = buffered /\ pending' = pending
      /\ seen' = seen
  BY DEF Resume, fetchVars, countVars, pressureVars
<1>2. /\ ~flow /\ flow' = TRUE /\ active' = TP /\ generation' = generation + 1
      /\ position' = [tp \in TP |-> IF Committed(tp) = {} THEN 0
                                    ELSE Max(Committed(tp)) + 1]
  BY DEF Resume
<1>3. generation < MaxGen /\ batch = {} /\ generation \in 1..MaxGen
  BY <1>2 DEF FetchInv, TypeOK
<1>4. \A tp \in TP : Committed(tp) # {} => Max(Committed(tp)) \in Nat
  <2> SUFFICES ASSUME NEW tp \in TP, Committed(tp) # {}
               PROVE  Max(Committed(tp)) \in Nat
    OBVIOUS
  <2>1. Committed(tp) \in SUBSET Log[tp] /\ Log[tp] \in SUBSET Nat /\ Log[tp] # {}
    BY DeliveryAssumption DEF Committed
  <2>2. PICK last \in Log[tp] : \A o \in Log[tp] : o <= last
    BY <2>1, DeliveryAssumption
  <2>3. Max(Committed(tp)) \in Committed(tp)
    BY <2>1, <2>2, MaxBounded
  <2> QED
    BY <2>1, <2>3
<1>5. position' \in [TP -> Nat]
  BY <1>2, <1>4
<1>6. TypeOK'
  <2>1. /\ generation' \in 1..MaxGen /\ flow' \in BOOLEAN /\ active' \in SUBSET TP
    BY <1>2, <1>3, DeliveryAssumption
  <2> QED
    BY <1>1, <1>5, <2>1, Zenon DEF TypeOK
<1>7. OnceInv'
  BY <1>1 DEF OnceInv
<1>8. \A m : Fresh(m)' <=> Fresh(m)
  BY <1>1 DEF Fresh
<1>9. ASSUME NEW m \in Message, m.gen >= generation'
      PROVE  Fresh(m)
  <2>1. m.gen > generation
    BY <1>2, <1>3, <1>9, MessageFields
  <2> QED
    BY <2>1 DEF FetchInv
<1>10. FetchInv'
  <2>1. \A m \in Message : m.gen > generation' \/ m.gen = generation' => m.gen >= generation'
    BY <1>2, <1>3, MessageFields
  <2> QED
    BY <1>1, <1>2, <1>3, <1>8, <1>9, <2>1 DEF FetchInv
<1>11. RefInv'
  <2> SUFFICES ASSUME NEW n \in Message
               PROVE  \E R \in SUBSET Channels : RefersTo(n, R)'
    BY DEF RefInv
  <2>1. Holders(n)' = Holders(n)
    BY <1>1 DEF Holders
  <2>2. \A d \in Channels : Served(d, n) => Served(d, n)'
    BY <1>1, Zenon DEF Served
  <2>3. CASE n.gen # generation'
    <3>1. ~Current(n)'
      BY <2>3 DEF Current
    <3> QED
      BY <1>1, <2>1, <2>2, <3>1, ReferencesKept DEF RefInv
  <2>4. CASE n.gen = generation'
    <3>1. Fresh(n)
      BY <1>2, <1>3, <1>9, <2>4, MessageFields
    <3>2. Holders(n) = {} /\ RefersTo(n, {}) /\ n \notin acked
      BY <3>1, FreshHeldByNone DEF Fresh
    <3>3. refcount[n] = Cardinality({})
      BY <3>2, Zenon DEF RefersTo
    <3>4. RefersTo(n, {})'
      BY <1>1, <2>1, <3>2, <3>3, Zenon DEF RefersTo
    <3> QED
      BY <3>4
  <2> QED
    BY <2>3, <2>4
<1> QED
  BY <1>6, <1>7, <1>10, <1>11

(* The conductor hands a message to the channels.                          *)
LEMMA OnMessagePreserves ==
    ASSUME DeliveryInv, NEW m \in batch, OnMessage(m)
    PROVE  DeliveryInv'
<1> USE DEF DeliveryInv
<1>0. PICK D \in SUBSET Channels : D = Delivered(m)
  BY DEF Delivered, Reached
<1> DEFINE rest == Channels \ D
           failed == Reached(m) # Channels
<1>1. /\ generation' = generation /\ flow' = flow /\ order' = order
      /\ position' = position /\ tracked' = tracked /\ busy' = busy
      /\ seen' = seen
  BY DEF OnMessage, fetchVars, countVars, pressureVars
<1>2. /\ flow /\ m \in Message /\ batch' = batch \ {m}
      /\ m.gen = generation /\ m.offset < position[m.tp] /\ Fresh(m)
  BY DEF OnMessage, FetchInv, TypeOK
<1>4. ~failed => /\ refcount' = [refcount EXCEPT ![m] = Cardinality(Channels)]
                 /\ acked' = acked /\ errors' = errors
                 /\ puts' = puts \cup {<<c, m>> : c \in rest}
                 /\ waiting' = IF rest = {} THEN {} ELSE {m}
  BY <1>0 DEF OnMessage, StartCount
<1>5. failed => /\ refcount' = [refcount EXCEPT ![m] =
                      Max({Cardinality(Channels) - Cardinality(rest), 0})]
                /\ acked' = IF Max({Cardinality(Channels) - Cardinality(rest), 0}) = 0
                            THEN acked \cup {m} ELSE acked
                /\ errors' = [c \in Channels |->
                      IF c \in rest THEN errors[c] \cup {m} ELSE errors[c]]
                /\ puts' = puts /\ waiting' = waiting
  BY <1>0 DEF OnMessage, FailedCount, StartCount
<1>6. queue' = [c \in Channels |-> IF c \in D THEN Append(queue[c], m) ELSE queue[c]]
  BY <1>0 DEF OnMessage
<1>7. /\ active' \in SUBSET TP /\ buffered' \in SUBSET TP
      /\ pending' \in [Channels -> SUBSET (TP \X (1..MaxGen))]
  <2>1. m.tp \in TP /\ m.gen \in 1..MaxGen
    BY <1>2, MessageFields
  <2>2. pending' \in [Channels -> SUBSET (TP \X (1..MaxGen))]
    BY <2>1 DEF OnMessage, TypeOK
  <2>3. CASE PressureHigh(m) # {}
    BY <2>1, <2>2, <2>3 DEF OnMessage, TypeOK
  <2>4. CASE PressureHigh(m) = {}
    BY <2>2, <2>4 DEF OnMessage, TypeOK
  <2> QED
    BY <2>3, <2>4
<1>8. Cardinality(Channels) - Cardinality(rest) = Cardinality(D)
      /\ Cardinality(D) \in Nat /\ Cardinality(D) \in 0..Cardinality(Channels)
      /\ (Cardinality(D) = 0 <=> D = {})
      /\ Cardinality(Channels) \in Nat /\ Cardinality(Channels) # 0
  <2>1. Cardinality(Channels) \in Nat /\ Cardinality(Channels) # 0
    BY DeliveryAssumption, FS_CardinalityType, FS_EmptySet
  <2>2. rest = Channels \ D
    OBVIOUS
  <2> HIDE DEF rest
  <2>3. /\ Cardinality(D) \in 0..Cardinality(Channels)
        /\ Cardinality(D) = 0 <=> D = {}
        /\ Cardinality(Channels) - Cardinality(Channels \ D) = Cardinality(D)
    BY ChannelSets
  <2> QED
    BY <2>1, <2>2, <2>3
<1>9. failed => /\ refcount' = [refcount EXCEPT ![m] = Cardinality(D)]
                /\ acked' = IF D = {} THEN acked \cup {m} ELSE acked
  BY <1>5, <1>8, MaxZero
<1>10. Holders(m) = {} /\ m \notin acked
  BY <1>2, FreshHeldByNone DEF Fresh
<1>11. \A c \in Channels : m \notin busy[c] /\ <<c, m>> \notin puts /\ m \notin Elems(queue[c])
  BY <1>10, HoldersAre DEF Holds
<1>12. queue \in [Channels -> Seq(Message)]
  BY DEF TypeOK
<1>13. \A c \in Channels :
          /\ Append(queue[c], m) \in Seq(Message)
          /\ Elems(Append(queue[c], m)) = Elems(queue[c]) \cup {m}
          /\ Distinct(queue[c]) => Distinct(Append(queue[c], m))
  <2> TAKE c \in Channels
  <2>1. queue[c] \in Seq(Message)
    BY <1>12
  <2>2. m \in Message /\ m \notin Elems(queue[c])
    BY <1>2, <1>11
  <2>3. /\ Append(queue[c], m) \in Seq(Message)
        /\ Elems(Append(queue[c], m)) = Elems(queue[c]) \cup {m}
        /\ Distinct(queue[c]) /\ m \notin Elems(queue[c])
              => Distinct(Append(queue[c], m))
    BY <2>1, <2>2, AppendElems
  <2> QED
    BY <2>2, <2>3
<1>14. queue' \in [Channels -> Seq(Message)]
  BY <1>6, <1>12, <1>13
<1>15. \A c \in Channels :
          /\ c \in D => /\ Elems(queue'[c]) = Elems(queue[c]) \cup {m}
                        /\ Distinct(queue[c]) => Distinct(queue'[c])
          /\ c \notin D => queue'[c] = queue[c]
  BY <1>6, <1>13
<1>16. /\ puts' \in SUBSET (Channels \X Message)
       /\ puts \subseteq puts'
       /\ \A c \in Channels, n \in Message :
             <<c, n>> \in puts' <=> \/ <<c, n>> \in puts
                                    \/ ~failed /\ c \in rest /\ n = m
  <2>1. CASE failed
    BY <1>5, <2>1 DEF TypeOK
  <2>2. CASE ~failed
    BY <1>2, <1>4, <2>2 DEF TypeOK
  <2> QED
    BY <2>1, <2>2
<1>17. /\ refcount' \in [Message -> 0..Cardinality(Channels)]
       /\ acked' \in SUBSET Message
       /\ \A n \in Message \ {m} : /\ refcount'[n] = refcount[n]
                                   /\ n \in acked' <=> n \in acked
       /\ failed => /\ refcount'[m] = Cardinality(D)
                    /\ m \in acked' <=> D = {}
       /\ ~failed => refcount'[m] = Cardinality(Channels) /\ m \notin acked'
  <2>1. CASE failed
    BY <1>2, <1>8, <1>9, <1>10, <2>1 DEF TypeOK
  <2>2. CASE ~failed
    <3>1. refcount' = [refcount EXCEPT ![m] = Cardinality(Channels)] /\ acked' = acked
      BY <1>4, <2>2
    <3>2. Cardinality(Channels) \in 0..Cardinality(Channels)
      BY <1>8
    <3> QED
      BY <1>2, <1>10, <2>2, <3>1, <3>2 DEF TypeOK
  <2> QED
    BY <2>1, <2>2
<1>18. /\ errors' \in [Channels -> SUBSET Message]
       /\ \A c \in Channels : errors[c] \subseteq errors'[c]
       /\ failed => \A c \in rest : m \in errors'[c]
  <2>1. CASE failed
    <3>1. errors' = [c \in Channels |->
                       IF c \in rest THEN errors[c] \cup {m} ELSE errors[c]]
      BY <1>5, <2>1
    <3>2. errors \in [Channels -> SUBSET Message] /\ m \in Message
      BY <1>2 DEF TypeOK
    <3> QED
      BY <3>1, <3>2
  <2>2. CASE ~failed
    BY <1>4, <2>2 DEF TypeOK
  <2> QED
    BY <2>1, <2>2
<1>19. waiting' \in SUBSET Message /\ \A i, j \in waiting' : i = j
  <2>1. CASE failed
    BY <1>5, <2>1 DEF TypeOK
  <2>2. CASE ~failed
    BY <1>2, <1>4, <2>2
  <2> QED
    BY <2>1, <2>2
<1>20. TypeOK'
  <2>1. batch' \in SUBSET Message
    BY <1>2 DEF TypeOK
  <2> QED
    BY <1>1, <1>7, <1>14, <1>16, <1>17, <1>18, <1>19, <2>1, Zenon DEF TypeOK
<1>21. OnceInv'
  <2> SUFFICES ASSUME NEW c \in Channels
               PROVE  OnceInv!(c)'
    BY DEF OnceInv
  <2>1. OnceInv!(c) /\ busy[c] \subseteq Message
    BY DEF OnceInv, TypeOK
  <2>2. m \notin busy[c] /\ <<c, m>> \notin puts /\ m \notin Elems(queue[c])
    BY <1>11
  <2>3. CASE c \in D
    <3>1. \A n \in Message : <<c, n>> \in puts' <=> <<c, n>> \in puts
      BY <1>16, <2>3
    <3> QED
      BY <1>1, <1>15, <2>1, <2>2, <2>3, <3>1
  <2>4. CASE c \notin D
    <3>1. queue'[c] = queue[c]
      BY <1>15, <2>4
    <3>2. \A n \in Message : <<c, n>> \in puts' => <<c, n>> \in puts \/ n = m
      BY <1>16
    <3> QED
      BY <1>1, <2>1, <2>2, <3>1, <3>2
  <2> QED
    BY <2>3, <2>4
<1>22. FetchInv'
  <2>1. \A n \in Message \ {m} : Fresh(n)' <=> Fresh(n)
    BY <1>17 DEF Fresh
  <2>2. \A n \in batch' : n \in Message \ {m} /\ n \in batch
    BY <1>2 DEF TypeOK
  <2>3. ~(m.gen > generation) /\ ~(m.offset >= position[m.tp])
    BY <1>2, MessageFields DEF TypeOK
  <2>4. \A n \in batch' : n.gen = generation' /\ n.offset < position'[n.tp] /\ Fresh(n)'
    BY <1>1, <2>1, <2>2 DEF FetchInv
  <2>5. \A n \in Message :
           n.gen > generation' \/ (n.gen = generation' /\ n.offset >= position'[n.tp])
               => Fresh(n)'
    BY <1>1, <2>1, <2>3 DEF FetchInv
  <2>6. flow'
    BY <1>1, <1>2
  <2> QED
    BY <2>4, <2>5, <2>6, Zenon DEF FetchInv
<1>23. RefInv'
  <2> SUFFICES ASSUME NEW n \in Message
               PROVE  \E Q \in SUBSET Channels : RefersTo(n, Q)'
    BY DEF RefInv
  <2>1. Current(n)' <=> Current(n)
    BY <1>1, Zenon DEF Current
  <2>2. \A c \in Channels : Served(c, n) => Served(c, n)'
    BY <1>1, <1>18 DEF Served
  <2>3. CASE n # m
    <3>1. \A c \in Channels : Holds(c, n)' <=> Holds(c, n)
      <4> TAKE c \in Channels
      <4>1. <<c, n>> \in puts' <=> <<c, n>> \in puts
        BY <1>16, <2>3
      <4>2. n \in Elems(queue'[c]) <=> n \in Elems(queue[c])
        BY <1>15, <2>3
      <4> QED
        BY <1>1, <4>1, <4>2 DEF Holds
    <3>2. Holders(n)' = Holders(n)
      BY <3>1, HoldersAre, Zenon
    <3>3. refcount'[n] = refcount[n] /\ (n \in acked' <=> n \in acked)
      BY <1>17, <2>3
    <3> QED
      BY <2>1, <2>2, <3>2, <3>3, ReferencesKept DEF RefInv
  <2>4. CASE n = m /\ failed
    <3>1. \A c \in Channels : Holds(c, m)' <=> c \in D
      <4> TAKE c \in Channels
      <4>1. <<c, m>> \notin puts' /\ m \notin busy'[c]
        BY <1>1, <1>2, <1>11, <1>16, <2>4
      <4>2. m \in Elems(queue'[c]) <=> c \in D
        BY <1>11, <1>15
      <4> QED
        BY <4>1, <4>2 DEF Holds
    <3>2. Holders(m)' = D
      BY <3>1, HoldersAre
    <3>3. \A c \in Channels \ D : Served(c, m)'
      BY <1>18, <2>4 DEF Served
    <3>4. refcount'[m] = Cardinality(D) /\ (m \in acked' => D = {})
      BY <1>17, <2>4
    <3>5. RefersTo(m, D)'
      BY <3>2, <3>3, <3>4, Zenon DEF RefersTo
    <3> QED
      BY <2>4, <3>5
  <2>5. CASE n = m /\ ~failed
    <3>1. \A c \in Channels : Holds(c, m)'
      <4> TAKE c \in Channels
      <4>1. CASE c \in D
        BY <1>15, <4>1 DEF Holds
      <4>2. CASE c \notin D
        BY <1>2, <1>16, <2>5, <4>2 DEF Holds
      <4> QED
        BY <4>1, <4>2
    <3>2. Holders(m)' = Channels
      BY <3>1, HoldersAre
    <3>3. refcount'[m] = Cardinality(Channels) /\ m \notin acked'
      BY <1>17, <2>5
    <3>4. Channels \ Channels = {}
      OBVIOUS
    <3>5. RefersTo(m, Channels)'
      BY <3>2, <3>3, <3>4 DEF RefersTo
    <3> QED
      BY <2>5, <3>5
  <2> QED
    BY <2>3, <2>4, <2>5
<1> QED
  BY <1>20, <1>21, <1>22, <1>23

(* Every step keeps the invariant.                                         *)
LEMMA StepPreserves ==
    ASSUME DeliveryInv, [Next]_vars
    PROVE  DeliveryInv'
<1>1. CASE Fetch
  BY <1>1, FetchPreserves
<1>2. CASE \E m \in batch : OnMessage(m)
  BY <1>2, OnMessagePreserves
<1>3. CASE \E p \in puts : HandleFull(p[1], p[2])
  <2>1. PICK p \in puts : HandleFull(p[1], p[2])
    BY <1>3
  <2>2. p[1] \in Channels /\ p[2] \in Message
    BY DEF DeliveryInv, TypeOK
  <2> QED
    BY <2>1, <2>2, HandleFullPreserves
<1>4. CASE \E c \in Channels : Stream(c)
  <2>1. PICK c \in Channels : Stream(c)
    BY <1>4
  <2> QED
    BY <2>1, StreamTakePreserves, StreamSkipPreserves, StreamFinishPreserves,
       StreamErrorPreserves DEF Stream
<1>5. CASE Revoke
  BY <1>5, RevokePreserves
<1>6. CASE Resume
  BY <1>6, ResumePreserves
<1>7. CASE UNCHANGED vars
  <2> USE DEF DeliveryInv
  <2>1. /\ generation' = generation /\ flow' = flow /\ order' = order
      /\ position' = position /\ batch' = batch /\ waiting' = waiting
      /\ puts' = puts /\ queue' = queue /\ errors' = errors
      /\ refcount' = refcount /\ acked' = acked /\ tracked' = tracked
      /\ busy' = busy /\ active' = active /\ buffered' = buffered
      /\ pending' = pending /\ seen' = seen
    BY <1>7 DEF vars, fetchVars, countVars, pressureVars
  <2>2. TypeOK'
    BY <2>1, Zenon DEF TypeOK
  <2>3. OnceInv'
    BY <2>1 DEF OnceInv
  <2>4. FetchInv'
    BY <2>1, FetchKept
  <2>5. RefInv'
    <3> SUFFICES ASSUME NEW n \in Message
                 PROVE  \E R \in SUBSET Channels : RefersTo(n, R)'
      BY DEF RefInv
    <3>1. Holders(n)' = Holders(n)
      BY <2>1 DEF Holders
    <3>2. Current(n)' <=> Current(n)
      BY <2>1, Zenon DEF Current
    <3>3. \A c \in Channels : Served(c, n) => Served(c, n)'
      BY <2>1, Zenon DEF Served
    <3> QED
      BY <2>1, <3>1, <3>2, <3>3, ReferencesKept DEF RefInv
  <2> QED
    BY <2>2, <2>3, <2>4, <2>5
<1> QED
  BY <1>1, <1>2, <1>3, <1>4, <1>5, <1>6, <1>7 DEF Next, Fetcher

(* The inductive invariant holds in every reachable state.                 *)
THEOREM InvariantCorrect == Spec => []DeliveryInv
<1>1. Init => DeliveryInv
  BY InitInv
<1>2. DeliveryInv /\ [Next]_vars => DeliveryInv'
  BY StepPreserves
<1> QED
  BY <1>1, <1>2, PTL DEF Spec

(* The state keeps its type: counts stay within the number of channels and *)
(* one callback waits at a time.                                           *)
THEOREM TypeCorrect == Spec => []TypeOK
<1>1. DeliveryInv => TypeOK
  BY DEF DeliveryInv
<1> QED
  BY <1>1, InvariantCorrect, PTL

(* Message.refcount counts the channels that hold the message while it is  *)
(* current, and never less than them.                                      *)
THEOREM ReferenceCorrect == Spec => []ReferencePerHolder
<1>1. DeliveryInv => ReferencePerHolder
  <2> SUFFICES ASSUME DeliveryInv, NEW m \in Message
               PROVE  ReferencePerHolder!(m)
    BY DEF ReferencePerHolder
  <2>1. PICK R \in SUBSET Channels : RefersTo(m, R)
    BY DEF DeliveryInv, RefInv
  <2>2. CASE Current(m)
    BY <2>1, <2>2 DEF RefersTo, Current
  <2>3. CASE ~Current(m)
    <3>1. IsFiniteSet(R) /\ Holders(m) \subseteq R /\ refcount[m] = Cardinality(R)
      BY <2>1, ChannelSets DEF RefersTo
    <3>2. Cardinality(Holders(m)) <= Cardinality(R)
      BY <3>1, FS_Subset
    <3>3. Cardinality(R) \in Nat /\ Cardinality(Holders(m)) \in Nat
      BY <3>1, FS_Subset, FS_CardinalityType
    <3>4. refcount[m] >= Cardinality(Holders(m))
      BY <3>1, <3>2, <3>3
    <3> QED
      BY <2>3, <3>4 DEF Current
  <2> QED
    BY <2>2, <2>3
<1> QED
  BY <1>1, InvariantCorrect, PTL

(* The last channel acks: a message is handed to Consumer.ack only after   *)
(* every channel has processed it or been thrown its decode error.         *)
THEOREM AckedCorrect == Spec => []AckedAfterAll
<1>1. DeliveryInv => AckedAfterAll
  <2> SUFFICES ASSUME DeliveryInv, NEW m \in acked, NEW c \in Channels
               PROVE  Served(c, m)
    BY DEF AckedAfterAll, Served
  <2>1. m \in Message
    BY DEF DeliveryInv, TypeOK
  <2>2. PICK R \in SUBSET Channels : RefersTo(m, R)
    BY <2>1 DEF DeliveryInv, RefInv
  <2> QED
    BY <2>2 DEF RefersTo
<1> QED
  BY <1>1, InvariantCorrect, PTL

=============================================================================

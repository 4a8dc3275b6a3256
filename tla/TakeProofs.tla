------------------------------ MODULE TakeProofs ------------------------------
(***************************************************************************)
(* Theorems about Take for any number of events, size of a batch, filter   *)
(* and number of errors.                                                   *)
(***************************************************************************)
EXTENDS Take, SequenceTheorems, WellFoundedInduction, TLAPS

-----------------------------------------------------------------------------
(* The inductive invariant                                                 *)

Newest == Len(takes)
Live(g) == takes[g].state \in {"waiting", "yielded"}

(* Only the newest generator can be read by the agent; one the agent has   *)
(* left is the first of the processors, so that the drainer waits for its  *)
(* buffer before it gets to another.                                       *)
GeneratorInv ==
    \A g \in DOMAIN takes :
        /\ Live(g) => /\ g = Newest
                      /\ processors # <<>> /\ processors[Len(processors)] = g
        /\ takes[g].state = "left" =>
              /\ processors # <<>> /\ processors[1] = g
              /\ g # Newest => Len(processors) = 2
        /\ takes[g].state \in {"yielded", "left"} =>
              takes[g].buffer # <<>> /\ takes[g].consuming = "pending"
        /\ takes[g].state \in {"waiting", "closed"} => takes[g].consuming # "pending"

(* There are never more than two processors: a generator that is left, and *)
(* one that has been started after it and got nothing yet.                 *)
ProcessorInv ==
    /\ Len(processors) <= 2
    /\ \A i \in DOMAIN processors : takes[processors[i]].state # "closed"
    /\ Len(processors) = 2 =>
          /\ takes[processors[1]].state = "left"
          /\ processors[2] = Newest
          /\ takes[Newest].state = "waiting" /\ takes[Newest].buffer = <<>>

(* The drainer gets an event to one processor at most.                     *)
IndexInv ==
    /\ index \in 0..1
    /\ phase = "process" /\ index = 1 => Len(processors) <= 1
    /\ phase \in {"consuming", "consumed"} =>
          /\ index = 1 /\ at \in DOMAIN takes
          /\ \A g \in DOMAIN takes : takes[g].state = "left" => g = at
          /\ at # Newest =>
                takes[Newest].state = "waiting" /\ takes[Newest].buffer = <<>>

(* A full buffer keeps the drainer waiting until it is consumed.           *)
FullInv ==
    /\ \A g \in DOMAIN takes :
          Len(takes[g].buffer) >= MaxBatch =>
             phase = "consumed" /\ at = g /\ ~takes[g].consumed
    /\ phase = "consumed" /\ takes[at].consumed => takes[at].buffer = <<>>

(* All that agents and buffers have comes before what is to come, and the  *)
(* event the drainer is about to add is newer than all of it.              *)
Fresh == phase = "consuming" \/ (phase = "process" /\ index = 0)

EventInv ==
    /\ event < next
    /\ phase \in {"process", "consuming", "consumed"} => event >= 1
    /\ \A e \in done : e <= event /\ (Fresh => e < event)
    /\ \A g \in DOMAIN takes : \A i \in DOMAIN takes[g].buffer :
          takes[g].buffer[i] <= event /\ (Fresh => takes[g].buffer[i] < event)

(* InOrder by positions in the buffer.                                     *)
Ordered ==
    \A g \in DOMAIN takes : Live(g) =>
        \A i \in DOMAIN takes[g].buffer :
            /\ \A e \in done : takes[g].buffer[i] > e
            /\ \A j \in 1..i - 1 : takes[g].buffer[i] > takes[g].buffer[j]

TakeInv ==
    TypeOK /\ GeneratorInv /\ ProcessorInv /\ IndexInv /\ FullInv /\ EventInv
    /\ Ordered

(* Before the first error there is one generator, and the drainer does not *)
(* ack.                                                                    *)
NoErrorInv ==
    errors = 0 => /\ Newest = 1 /\ Live(1)
                  /\ ~enableAcks /\ ~doAck
                  /\ acked \subseteq done \cup Filtered

-----------------------------------------------------------------------------
(* What the operations on generators and processors do                     *)

(* The generators are a sequence of records, and so are their buffers one  *)
(* of events.                                                              *)
LEMMA TakesAreFunction ==
    ASSUME TypeOK
    PROVE  /\ Len(takes) \in Nat
           /\ DOMAIN takes = 1..Len(takes)
           /\ \A g \in DOMAIN takes :
                /\ takes[g] \in Generator
                /\ takes[g].buffer \in Seq(1..Events)
                /\ Len(takes[g].buffer) \in Nat
                /\ DOMAIN takes[g].buffer = 1..Len(takes[g].buffer)
                /\ \A i \in DOMAIN takes[g].buffer : takes[g].buffer[i] \in 1..Events
<1>1. Len(takes) \in Nat /\ DOMAIN takes = 1..Len(takes)
      /\ \A g \in DOMAIN takes : takes[g] \in Generator
  BY LenProperties DEF TypeOK
<1>2. \A g \in DOMAIN takes : takes[g].buffer \in Seq(1..Events)
  BY <1>1 DEF Generator
<1> QED
  BY <1>1, <1>2, LenProperties

(* The processors are a sequence of generators.                            *)
LEMMA ProcessorsAreFunction ==
    ASSUME TypeOK
    PROVE  /\ Len(processors) \in Nat
           /\ DOMAIN processors = 1..Len(processors)
           /\ \A i \in 1..Len(processors) : processors[i] \in DOMAIN takes
           /\ processors # <<>> => Len(processors) >= 1
<1>1. processors \in Seq(DOMAIN takes)
  BY DEF TypeOK
<1>2. /\ Len(processors) \in Nat
      /\ DOMAIN processors = 1..Len(processors)
      /\ \A i \in 1..Len(processors) : processors[i] \in DOMAIN takes
  BY <1>1, LenProperties
<1>3. processors # <<>> => Len(processors) # 0
  BY <1>1, EmptySeq
<1> QED
  BY <1>2, <1>3

(* A change of one generator leaves the others alone.                      *)
LEMMA UpdateOne ==
    ASSUME TypeOK, NEW g \in DOMAIN takes, NEW new \in Generator,
           takes' = [takes EXCEPT ![g] = new]
    PROVE  /\ takes' \in Seq(Generator)
           /\ Len(takes') = Len(takes)
           /\ DOMAIN takes' = DOMAIN takes
           /\ takes'[g] = new
           /\ \A h \in DOMAIN takes : h # g => takes'[h] = takes[h]
<1>1. takes \in Seq(Generator) /\ g \in 1..Len(takes) /\ DOMAIN takes = 1..Len(takes)
  BY TakesAreFunction DEF TypeOK
<1>2. takes' \in Seq(Generator) /\ Len(takes') = Len(takes)
  BY <1>1, ExceptSeq
<1>3. DOMAIN takes' = 1..Len(takes')
  BY <1>2, LenProperties
<1> QED
  BY <1>1, <1>2, <1>3

(* add_to_buffer: an event is added to a buffer that is not full.          *)
LEMMA AddToBufferStep ==
    ASSUME TypeOK, NEW g \in DOMAIN takes, event \in 1..Events,
           AddToBuffer(g)
    PROVE  /\ takes' \in Seq(Generator)
           /\ Len(takes') = Len(takes)
           /\ DOMAIN takes' = DOMAIN takes
           /\ \A h \in DOMAIN takes : h # g => takes'[h] = takes[h]
           /\ takes'[g].state = takes[g].state
           /\ takes'[g].consuming = "none"
           /\ takes'[g].buffer = Append(takes[g].buffer, event)
           /\ Len(takes'[g].buffer) = Len(takes[g].buffer) + 1
           /\ takes'[g].buffer # <<>>
           /\ \A i \in DOMAIN takes'[g].buffer :
                takes'[g].buffer[i] = IF i = Len(takes[g].buffer) + 1 THEN event
                                      ELSE takes[g].buffer[i]
           /\ DOMAIN takes'[g].buffer = 1..Len(takes[g].buffer) + 1
           /\ \/ /\ Len(takes'[g].buffer) >= MaxBatch
                 /\ phase' = "consumed" /\ ~takes'[g].consumed
              \/ /\ ~ (Len(takes'[g].buffer) >= MaxBatch)
                 /\ phase' = "process"
<1> DEFINE b == Append(takes[g].buffer, event)
           full == Len(b) >= MaxBatch
           new == [takes[g] EXCEPT !.consuming = "none", !.buffer = b,
                                   !.full = @ \/ full, !.consumed = @ /\ ~full]
<1>1. takes[g] \in Generator /\ takes[g].buffer \in Seq(1..Events)
  BY TakesAreFunction
<1>2. /\ b \in Seq(1..Events) /\ Len(b) = Len(takes[g].buffer) + 1
      /\ \A i \in 1..Len(takes[g].buffer) : b[i] = takes[g].buffer[i]
      /\ b[Len(takes[g].buffer) + 1] = event
  BY <1>1, AppendProperties
<1>3. DOMAIN b = 1..Len(b) /\ b # <<>> /\ Len(takes[g].buffer) \in Nat
  <2>1. Len(b) # 0 /\ Len(takes[g].buffer) \in Nat
    BY <1>1, <1>2, LenProperties
  <2>2. b # <<>>
    BY <2>1, EmptySeq
  <2> QED
    BY <1>2, <2>1, <2>2, LenProperties
<1>4. takes' = [takes EXCEPT ![g] = new]
  BY DEF AddToBuffer
<1> HIDE DEF b
<1>5. full \in BOOLEAN
  OBVIOUS
<1>6. phase' = IF full THEN "consumed" ELSE "process"
  BY DEF AddToBuffer, b
<1> HIDE DEF full
<1>7. new \in Generator
  BY <1>1, <1>2, <1>5 DEF Generator
<1>8. /\ new.state = takes[g].state /\ new.consuming = "none" /\ new.buffer = b
      /\ full => ~new.consumed
  BY <1>1, <1>5 DEF Generator
<1> HIDE DEF new
<1>9. /\ takes' \in Seq(Generator)
      /\ Len(takes') = Len(takes)
      /\ DOMAIN takes' = DOMAIN takes
      /\ takes'[g] = new
      /\ \A h \in DOMAIN takes : h # g => takes'[h] = takes[h]
  BY <1>4, <1>7, UpdateOne
<1>10. \/ /\ Len(takes'[g].buffer) >= MaxBatch
          /\ phase' = "consumed" /\ ~takes'[g].consumed
       \/ /\ ~ (Len(takes'[g].buffer) >= MaxBatch)
          /\ phase' = "process"
  BY <1>6, <1>8, <1>9 DEF full
<1>11. \A i \in DOMAIN b : b[i] = IF i = Len(takes[g].buffer) + 1 THEN event
                                  ELSE takes[g].buffer[i]
  BY <1>2, <1>3
<1> QED
  BY <1>2, <1>3, <1>8, <1>9, <1>10, <1>11 DEF b

(* The finally block after the yield empties the buffer.                   *)
LEMMA ConsumedStep ==
    ASSUME TypeOK, NEW g \in DOMAIN takes, NEW state \in {"waiting", "closed"},
           Consumed(g, state)
    PROVE  /\ takes' \in Seq(Generator)
           /\ Len(takes') = Len(takes)
           /\ DOMAIN takes' = DOMAIN takes
           /\ \A h \in DOMAIN takes : h # g => takes'[h] = takes[h]
           /\ takes'[g].state = state
           /\ takes'[g].consuming = "done"
           /\ takes'[g].buffer = <<>>
<1> DEFINE new == [takes[g] EXCEPT !.state = state, !.buffer = <<>>,
                                   !.consuming = "done", !.full = FALSE,
                                   !.consumed = TRUE]
<1>1. takes[g] \in Generator
  BY TakesAreFunction
<1>2. new \in Generator /\ new.state = state /\ new.consuming = "done"
      /\ new.buffer = <<>>
  <2>1. <<>> \in Seq(1..Events)
    BY EmptySeq
  <2> QED
    BY <1>1, <2>1 DEF Generator
<1>3. takes' = [takes EXCEPT ![g] = new]
  BY DEF Consumed
<1> HIDE DEF new
<1> QED
  BY <1>2, <1>3, UpdateOne

(* Python's list.remove, where the processor is the first of the list.     *)
LEMMA RemoveHead ==
    ASSUME NEW S, NEW s \in Seq(S), s # <<>>
    PROVE  RemoveFirst(s, s[1]) = Tail(s)
<1>1. Len(s) \in Nat /\ Len(s) >= 1 /\ DOMAIN s = 1..Len(s)
  BY EmptySeq, LenProperties
<1> DEFINE I == {i \in 1..Len(s) : s[i] = s[1]}
<1>2. 1 \in I /\ \A i \in I : 1 <= i
  BY <1>1
<1>3. Min(I) = 1
  BY <1>2 DEF Min
<1>4. RemoveFirst(s, s[1]) = SubSeq(s, 1, 0) \o SubSeq(s, 2, Len(s))
  <2>1. RemoveFirst(s, s[1]) = SubSeq(s, 1, Min(I) - 1) \o SubSeq(s, Min(I) + 1, Len(s))
    BY <1>1, <1>2 DEF RemoveFirst, RemoveAt, SelectInSeq
  <2> HIDE DEF I
  <2>2. Min(I) - 1 = 0 /\ Min(I) + 1 = 2
    BY <1>3
  <2> QED
    BY <2>1, <2>2, Zenon
<1>5. SubSeq(s, 1, 0) = <<>> /\ Tail(s) = SubSeq(s, 2, Len(s)) /\ Tail(s) \in Seq(S)
  BY SubSeqEmpty, TailIsSubSeq, HeadTailProperties
<1> QED
  BY <1>4, <1>5, ConcatEmptySeq

(* The values before a position of a buffer.                               *)
LEMMA PrefixValues ==
    ASSUME NEW S, NEW s \in Seq(S), NEW i \in DOMAIN s
    PROVE  ToSet(SubSeq(s, 1, i - 1)) = {s[j] : j \in 1..i - 1}
<1> DEFINE p == SubSeq(s, 1, i - 1)
<1>1. Len(s) \in Nat /\ DOMAIN s = 1..Len(s) /\ i \in 1..Len(s)
  BY LenProperties
<1>2. p \in Seq(S) /\ Len(p) = i - 1 /\ \A j \in 1..i - 1 : p[j] = s[j]
  <2>1. \A j \in 1..i - 1 : s[j] \in S
    BY <1>1
  <2>2. Len(p) = i - 1
    BY <1>1, <2>1, SubSeqProperties
  <2> QED
    BY <1>1, <2>1, <2>2, SubSeqProperties
<1>3. DOMAIN p = 1..i - 1
  BY <1>2, LenProperties
<1> HIDE DEF p
<1> QED
  BY <1>2, <1>3 DEF ToSet, p

(* InOrder follows from the order of positions.                            *)
LEMMA OrderedIsInOrder ==
    ASSUME TypeOK, Ordered
    PROVE  InOrder
<1> SUFFICES ASSUME NEW g \in DOMAIN takes, Live(g),
                    NEW i \in DOMAIN takes[g].buffer,
                    NEW e \in done \cup ToSet(SubSeq(takes[g].buffer, 1, i - 1))
             PROVE  takes[g].buffer[i] > e
  BY DEF InOrder, Live
<1>1. takes[g].buffer \in Seq(1..Events)
  BY TakesAreFunction
<1>2. ToSet(SubSeq(takes[g].buffer, 1, i - 1)) = {takes[g].buffer[j] : j \in 1..i - 1}
  BY <1>1, PrefixValues
<1> QED
  BY <1>2 DEF Ordered

-----------------------------------------------------------------------------
(* The steps of the drainer preserve the invariant                         *)

(* The drainer only looks at enable_acks.                                  *)
LEMMA StartPreserves ==
    ASSUME TakeInv, Start
    PROVE  TakeInv'
<1> USE DEF TakeInv, Start, Live, Newest, Fresh
<1>0. /\ Len(takes) \in Nat /\ DOMAIN takes = 1..Len(takes)
      /\ \A g \in DOMAIN takes : \A i \in DOMAIN takes[g].buffer :
            takes[g].buffer[i] \in 1..Events
  BY TakesAreFunction
<1>1. TypeOK'
  <2>1. /\ manual' \in BOOLEAN /\ within' \in BOOLEAN /\ enableAcks' \in BOOLEAN
        /\ doAck' \in BOOLEAN
    BY Zenon DEF TypeOK, options
  <2> QED
    BY <2>1, TakeAssumption DEF TypeOK
<1>2. GeneratorInv' /\ ProcessorInv'
  BY DEF GeneratorInv, ProcessorInv
<1>3. IndexInv'
  BY DEF IndexInv, ProcessorInv
<1>4. FullInv'
  BY TakeAssumption DEF FullInv
<1>5. EventInv'
  BY <1>0, TakeAssumption DEF EventInv, TypeOK
<1>6. Ordered'
  BY DEF Ordered
<1> QED
  BY <1>1, <1>2, <1>3, <1>4, <1>5, <1>6

(* A new event is newer than all the generators and the agent have.        *)
LEMMA GetPreserves ==
    ASSUME TakeInv, Get
    PROVE  TakeInv'
<1> USE DEF TakeInv, Get, Live, Newest, Fresh
<1>0. /\ Len(takes) \in Nat /\ DOMAIN takes = 1..Len(takes)
      /\ \A g \in DOMAIN takes : \A i \in DOMAIN takes[g].buffer :
            takes[g].buffer[i] \in 1..Events
  BY TakesAreFunction
<1>1. TypeOK'
  <2>1. /\ manual' \in BOOLEAN /\ within' \in BOOLEAN /\ enableAcks' \in BOOLEAN
        /\ doAck' \in BOOLEAN
    BY Zenon DEF TypeOK, options
  <2>2. next' \in 1..Events + 1 /\ event' \in 0..Events /\ index' \in Nat
        /\ acked' \subseteq 1..Events
    <3>1. /\ Events \in Nat /\ next \in 1..Events + 1 /\ event \in 0..Events
          /\ index \in Nat /\ acked \subseteq 1..Events
      BY TakeAssumption DEF TypeOK
    <3>2. next' \in 1..Events + 1 /\ next \in 1..Events
      BY <3>1
    <3>3. \/ event' = event /\ index' = index /\ acked' = acked \cup {next}
          \/ event' = next /\ index' = 0 /\ acked' = acked
      BY Zenon
    <3>4. event' \in 0..Events
      BY <3>1, <3>2, <3>3
    <3>5. index' \in Nat
      BY <3>1, <3>3
    <3>6. acked' \subseteq 1..Events
      BY <3>1, <3>2, <3>3
    <3> QED
      BY <3>2, <3>4, <3>5, <3>6
  <2> QED
    BY <2>1, <2>2, TakeAssumption DEF TypeOK
<1>2. GeneratorInv' /\ ProcessorInv'
  BY DEF GeneratorInv, ProcessorInv
<1>3. IndexInv'
  BY DEF IndexInv, ProcessorInv
<1>4. FullInv'
  BY TakeAssumption DEF FullInv
<1>5. EventInv'
  <2>1. /\ next \in Nat /\ next' = next + 1 /\ event \in Nat /\ event < next
        /\ done' = done /\ takes' = takes
    BY TakeAssumption DEF TypeOK, EventInv
  <2>2. \/ event' = event /\ phase' = "start"
        \/ event' = next /\ phase' = "process"
    BY Zenon
  <2>3. \A e \in done : e \in Nat /\ e <= event
    BY DEF TypeOK, EventInv
  <2>4. \A g \in DOMAIN takes : \A i \in DOMAIN takes[g].buffer :
           takes[g].buffer[i] \in Nat /\ takes[g].buffer[i] <= event
    BY <1>0 DEF EventInv
  <2> HIDE DEF Get, TakeInv
  <2>5. CASE event' = event /\ phase' = "start"
    BY <2>1, <2>3, <2>4, <2>5 DEF EventInv
  <2>6. CASE event' = next /\ phase' = "process"
    BY <2>1, <2>3, <2>4, <2>6 DEF EventInv
  <2> QED
    BY <2>2, <2>5, <2>6
<1>6. Ordered'
  BY DEF Ordered
<1> QED
  BY <1>1, <1>2, <1>3, <1>4, <1>5, <1>6

(* The buffer the drainer has waited for is empty.                         *)
LEMMA BufferConsumedPreserves ==
    ASSUME TakeInv, BufferConsumed
    PROVE  TakeInv'
<1> USE DEF TakeInv, BufferConsumed, Live, Newest, Fresh
<1>0. /\ Len(takes) \in Nat /\ DOMAIN takes = 1..Len(takes)
      /\ \A g \in DOMAIN takes : \A i \in DOMAIN takes[g].buffer :
            takes[g].buffer[i] \in 1..Events
  BY TakesAreFunction
<1>1. TypeOK'
  <2>1. /\ manual' \in BOOLEAN /\ within' \in BOOLEAN /\ enableAcks' \in BOOLEAN
        /\ doAck' \in BOOLEAN
    BY Zenon DEF TypeOK, options
  <2> QED
    BY <2>1, TakeAssumption DEF TypeOK
<1>2. GeneratorInv' /\ ProcessorInv'
  BY DEF GeneratorInv, ProcessorInv
<1>3. IndexInv'
  <2>0. Len(processors) \in Nat /\ Len(processors) <= 2 /\ index = 1
    BY LenProperties DEF IndexInv, ProcessorInv, TypeOK
  <2>1. Len(processors) # 2
    <3>0. SUFFICES ASSUME Len(processors) = 2
                   PROVE  FALSE
      OBVIOUS
    <3>1. processors[1] \in DOMAIN takes /\ takes[processors[1]].state = "left"
      BY <3>0 DEF ProcessorInv, TypeOK
    <3> QED
      BY <3>1 DEF IndexInv, FullInv, GeneratorInv
  <2>2. Len(processors) <= 1
    <3>1. \A n \in Nat : n <= 2 /\ n # 2 => n <= 1
      OBVIOUS
    <3> QED
      BY <2>0, <2>1, <3>1, Zenon
  <2>3. index' = 1 /\ phase' = "process" /\ Len(processors') <= 1
    BY <2>0, <2>2
  <2> QED
    BY <2>3, Zenon DEF IndexInv
<1>4. FullInv'
  BY TakeAssumption DEF FullInv
<1>5. EventInv'
  <2>1. ~ Fresh' /\ event >= 1
    BY DEF IndexInv, EventInv
  <2>2. event' = event /\ next' = next /\ done' = done /\ takes' = takes
    OBVIOUS
  <2> HIDE DEF BufferConsumed, Fresh
  <2> QED
    BY <2>1, <2>2 DEF EventInv
<1>6. Ordered'
  BY DEF Ordered
<1> QED
  BY <1>1, <1>2, <1>3, <1>4, <1>5, <1>6

(* The event is done with.                                                 *)
LEMMA AfterPreserves ==
    ASSUME TakeInv, After
    PROVE  TakeInv'
<1> USE DEF TakeInv, After, Live, Newest, Fresh
<1>0. /\ Len(takes) \in Nat /\ DOMAIN takes = 1..Len(takes)
      /\ \A g \in DOMAIN takes : \A i \in DOMAIN takes[g].buffer :
            takes[g].buffer[i] \in 1..Events
  BY TakesAreFunction
<1>1. TypeOK'
  <2>1. /\ manual' \in BOOLEAN /\ within' \in BOOLEAN /\ enableAcks' \in BOOLEAN
        /\ doAck' \in BOOLEAN
    BY Zenon DEF TypeOK, options
  <2>2. acked' \subseteq 1..Events
    BY DEF TypeOK, EventInv
  <2> QED
    BY <2>1, <2>2, TakeAssumption DEF TypeOK
<1>2. GeneratorInv' /\ ProcessorInv'
  BY DEF GeneratorInv, ProcessorInv
<1>3. IndexInv'
  BY DEF IndexInv, ProcessorInv
<1>4. FullInv'
  BY TakeAssumption DEF FullInv
<1>5. EventInv'
  BY <1>0, TakeAssumption DEF EventInv, TypeOK
<1>6. Ordered'
  BY DEF Ordered
<1> QED
  BY <1>1, <1>2, <1>3, <1>4, <1>5, <1>6

(* The event the drainer has goes to the end of the buffer of a generator  *)
(* that the agent is not reading, when no generator is left.               *)
LEMMA AddPreserves ==
    ASSUME TakeInv, NEW g \in DOMAIN takes, Fresh,
           takes[g].state \notin {"yielded", "left"},
           \A h \in DOMAIN takes : takes[h].state # "left",
           g # Newest => /\ takes[Newest].state = "waiting"
                         /\ takes[Newest].buffer = <<>>,
           AddToBuffer(g), index' = 1, at' = g,
           UNCHANGED <<options, enableAcks, processors, event, doAck, next, acked,
                       done, errors>>
    PROVE  TakeInv'
<1> USE DEF TakeInv, Live, Newest
<1>0. TypeOK /\ event \in 1..Events /\ Len(takes) \in Nat /\ DOMAIN takes = 1..Len(takes)
  BY TakesAreFunction, TakeAssumption DEF TypeOK, EventInv, Fresh
<1>1. /\ takes' \in Seq(Generator)
      /\ Len(takes') = Len(takes)
      /\ DOMAIN takes' = DOMAIN takes
      /\ \A h \in DOMAIN takes : h # g => takes'[h] = takes[h]
      /\ takes'[g].state = takes[g].state
      /\ takes'[g].consuming = "none"
      /\ Len(takes'[g].buffer) = Len(takes[g].buffer) + 1
      /\ takes'[g].buffer # <<>>
      /\ \A i \in DOMAIN takes'[g].buffer :
           takes'[g].buffer[i] = IF i = Len(takes[g].buffer) + 1 THEN event
                                 ELSE takes[g].buffer[i]
      /\ DOMAIN takes'[g].buffer = 1..Len(takes[g].buffer) + 1
  BY <1>0, AddToBufferStep
<1>2. \/ /\ Len(takes'[g].buffer) >= MaxBatch
         /\ phase' = "consumed" /\ ~takes'[g].consumed
      \/ /\ ~ (Len(takes'[g].buffer) >= MaxBatch)
         /\ phase' = "process"
  BY <1>0, AddToBufferStep
<1>3. /\ \A h \in DOMAIN takes :
           /\ Len(takes[h].buffer) \in Nat
           /\ DOMAIN takes[h].buffer = 1..Len(takes[h].buffer)
           /\ \A i \in DOMAIN takes[h].buffer : takes[h].buffer[i] \in 1..Events
      /\ Len(processors) \in Nat
      /\ \A i \in 1..Len(processors) : processors[i] \in DOMAIN takes
      /\ DOMAIN processors = 1..Len(processors)
  BY <1>0, TakesAreFunction, ProcessorsAreFunction
<1>4. \A h \in DOMAIN takes : Len(takes[h].buffer) < MaxBatch
  BY <1>3, TakeAssumption DEF FullInv, Fresh
<1>5. phase' \in {"consumed", "process"} /\ ~ Fresh'
  BY <1>2 DEF Fresh
<1>6. processors' = processors /\ event' = event /\ next' = next /\ done' = done
      /\ acked' = acked /\ errors' = errors
  OBVIOUS
<1>7. TypeOK'
  <2>1. /\ manual' \in BOOLEAN /\ within' \in BOOLEAN /\ enableAcks' \in BOOLEAN
        /\ doAck' \in BOOLEAN
    BY Zenon DEF TypeOK, options
  <2>2. \A h \in DOMAIN takes' : Len(takes'[h].buffer) <= MaxBatch
    BY <1>1, <1>3, <1>4, TakeAssumption, SMTT(30)
  <2>3. processors' \in Seq(DOMAIN takes')
    BY <1>1, <1>6 DEF TypeOK
  <2>4. /\ event' \in 0..Events /\ index' \in Nat /\ at' \in 0..Len(takes')
        /\ next' \in 1..Events + 1 /\ acked' \subseteq 1..Events
        /\ done' \subseteq 1..Events /\ errors' \in 0..MaxErrors
    BY <1>0, <1>1, <1>6 DEF TypeOK
  <2> QED
    BY <1>1, <1>5, <2>1, <2>2, <2>3, <2>4, Zenon DEF TypeOK
<1>8. GeneratorInv'
  <2> SUFFICES ASSUME NEW h \in DOMAIN takes
               PROVE  GeneratorInv!(h)'
    BY <1>1 DEF GeneratorInv
  <2> QED
    BY <1>1, <1>6 DEF GeneratorInv
<1>9. Len(processors) # 2
  BY <1>3 DEF ProcessorInv
<1>10. ProcessorInv'
  BY <1>1, <1>3, <1>6, <1>9, SMTT(30) DEF ProcessorInv
<1>11. IndexInv'
  <2>1. Len(processors) <= 1
    <3>1. \A n \in Nat : n <= 2 /\ n # 2 => n <= 1
      OBVIOUS
    <3> QED
      BY <1>3, <1>9, <3>1, Zenon DEF ProcessorInv
  <2>2. \A h \in DOMAIN takes' : takes'[h].state # "left"
    BY <1>1
  <2>3. at' \in DOMAIN takes'
    BY <1>1
  <2>4. at' # Newest' => takes'[Newest'].state = "waiting" /\ takes'[Newest'].buffer = <<>>
    BY <1>0, <1>1
  <2> QED
    BY <1>5, <1>6, <2>1, <2>2, <2>3, <2>4 DEF IndexInv
<1>12. FullInv'
  <2>1. \A h \in DOMAIN takes' : h # g => ~(Len(takes'[h].buffer) >= MaxBatch)
    BY <1>1, <1>3, <1>4, TakeAssumption
  <2> QED
    BY <1>1, <1>2, <2>1 DEF FullInv
<1>13. EventInv'
  <2>1. event \in Nat /\ event < next /\ \A e \in done : e <= event
    BY <1>0, TakeAssumption DEF EventInv
  <2>2. \A h \in DOMAIN takes : \A i \in DOMAIN takes[h].buffer : takes[h].buffer[i] <= event
    BY DEF EventInv
  <2>3. \A i \in DOMAIN takes'[g].buffer : takes'[g].buffer[i] <= event
    BY <1>1, <1>3, <2>1, <2>2, SMTT(30)
  <2>4. \A h \in DOMAIN takes' : \A i \in DOMAIN takes'[h].buffer : takes'[h].buffer[i] <= event
    BY <1>1, <2>2, <2>3
  <2> QED
    BY <1>0, <1>5, <1>6, <2>1, <2>4 DEF EventInv
<1>14. Ordered'
  <2> SUFFICES ASSUME Live(g)
               PROVE  \A i \in DOMAIN takes'[g].buffer :
                        /\ \A e \in done : takes'[g].buffer[i] > e
                        /\ \A j \in 1..i - 1 : takes'[g].buffer[i] > takes'[g].buffer[j]
    BY <1>1, <1>6 DEF Ordered
  <2> TAKE i \in DOMAIN takes'[g].buffer
  <2>0. /\ Len(takes[g].buffer) \in Nat /\ i \in 1..Len(takes[g].buffer) + 1
        /\ DOMAIN takes[g].buffer = 1..Len(takes[g].buffer)
        /\ \A j \in 1..Len(takes[g].buffer) :
              j \in DOMAIN takes'[g].buffer /\ j # Len(takes[g].buffer) + 1
    BY <1>1, <1>3
  <2>1. \A j \in 1..Len(takes[g].buffer) : takes'[g].buffer[j] = takes[g].buffer[j]
    BY <1>1, <2>0
  <2>2. CASE i = Len(takes[g].buffer) + 1
    <3>1. takes'[g].buffer[i] = event
      BY <1>1, <2>2
    <3>2. \A e \in done : event > e
      BY <1>0 DEF EventInv, TypeOK
    <3>3. \A j \in 1..i - 1 : event > takes'[g].buffer[j]
      <4> TAKE j \in 1..i - 1
      <4>1. j \in DOMAIN takes[g].buffer /\ takes'[g].buffer[j] = takes[g].buffer[j]
        BY <2>0, <2>1, <2>2
      <4> QED
        BY <1>0, <1>3, <4>1 DEF EventInv
    <3> QED
      BY <3>1, <3>2, <3>3
  <2>3. CASE i # Len(takes[g].buffer) + 1
    <3>1. i \in DOMAIN takes[g].buffer /\ takes'[g].buffer[i] = takes[g].buffer[i]
      BY <1>1, <1>3, <2>3
    <3>2. \A j \in 1..i - 1 : takes'[g].buffer[j] = takes[g].buffer[j]
      BY <2>0, <2>1, <3>1
    <3> QED
      BY <3>1, <3>2 DEF Ordered
  <2> QED
    BY <2>2, <2>3
<1> QED
  BY <1>7, <1>8, <1>10, <1>11, <1>12, <1>13, <1>14

(* The drainer comes to the first processor only: behind one that is left  *)
(* it would have to wait.                                                  *)
LEMMA ProcessPreserves ==
    ASSUME TakeInv, Process
    PROVE  TakeInv'
<1> USE DEF TakeInv, Live, Newest
<1> DEFINE g == processors[1]
<1>0. /\ Len(takes) \in Nat /\ DOMAIN takes = 1..Len(takes)
      /\ Len(processors) \in Nat /\ DOMAIN processors = 1..Len(processors)
      /\ \A i \in 1..Len(processors) : processors[i] \in DOMAIN takes
  BY TakesAreFunction, ProcessorsAreFunction
<1>1. index = 0 /\ Len(processors) >= 1
  BY <1>0 DEF IndexInv, Process
<1>2. g \in DOMAIN takes /\ index' = 1 /\ at' = g /\ Fresh /\ takes[g].state # "closed"
  BY <1>0, <1>1 DEF Process, Fresh, ProcessorInv
<1>3. \A h \in DOMAIN takes : takes[h].state = "left" => h = g
  BY DEF GeneratorInv
<1>4. takes[g].state \in {"waiting", "yielded", "left"}
  BY <1>2, TakesAreFunction DEF Generator
<1>5. CASE takes[g].consuming = "pending"
  <2>1. /\ phase' = "consuming" /\ takes' = takes /\ processors' = processors
        /\ event' = event /\ next' = next /\ done' = done /\ acked' = acked
        /\ errors' = errors
    BY <1>2, <1>5 DEF Process
  <2>2. g # Newest => takes[Newest].state = "waiting" /\ takes[Newest].buffer = <<>>
    BY <1>2, <1>4, <1>5 DEF GeneratorInv, ProcessorInv
  <2>3. TypeOK'
    <3>1. /\ manual' \in BOOLEAN /\ within' \in BOOLEAN /\ enableAcks' \in BOOLEAN
          /\ doAck' \in BOOLEAN
      BY Zenon DEF TypeOK, Process, options
    <3>2. at' \in 0..Len(takes) /\ index' \in Nat
      BY <1>0, <1>2
    <3> QED
      BY <2>1, <3>1, <3>2 DEF TypeOK
  <2>4. GeneratorInv' /\ ProcessorInv' /\ Ordered'
    BY <2>1 DEF GeneratorInv, ProcessorInv, Ordered
  <2>5. IndexInv'
    BY <1>2, <1>3, <2>1, <2>2 DEF IndexInv
  <2>6. FullInv'
    BY <2>1 DEF FullInv, Process
  <2>7. EventInv'
    BY <1>2, <2>1 DEF EventInv, Fresh
  <2> QED
    BY <2>3, <2>4, <2>5, <2>6, <2>7
<1>6. CASE takes[g].consuming # "pending"
  <2>1. AddToBuffer(g)
    BY <1>2, <1>6 DEF Process
  <2>2. takes[g].state \notin {"yielded", "left"}
    BY <1>2, <1>6 DEF GeneratorInv
  <2>3. \A h \in DOMAIN takes : takes[h].state # "left"
    BY <1>3, <2>2
  <2>4. g = Newest
    BY <1>2, <1>4, <2>2 DEF GeneratorInv
  <2>5. UNCHANGED <<options, enableAcks, processors, event, doAck, next, acked,
                    done, errors>>
    BY DEF Process
  <2> HIDE DEF g
  <2> QED
    BY <1>2, <2>1, <2>2, <2>3, <2>4, <2>5, AddPreserves
<1> QED
  BY <1>5, <1>6

(* A generator that has been closed is not a processor any more, but gets  *)
(* the event that was waiting for it.                                      *)
LEMMA BufferConsumingDonePreserves ==
    ASSUME TakeInv, BufferConsumingDone
    PROVE  TakeInv'
<1> USE DEF TakeInv, Newest
<1>1. at \in DOMAIN takes /\ index' = 1 /\ at' = at /\ Fresh
  BY DEF BufferConsumingDone, IndexInv, Fresh
<1>2. takes[at].state \notin {"yielded", "left"}
  BY <1>1 DEF BufferConsumingDone, GeneratorInv
<1>3. \A h \in DOMAIN takes : takes[h].state # "left"
  BY <1>2 DEF BufferConsumingDone, IndexInv
<1>4. at # Newest => takes[Newest].state = "waiting" /\ takes[Newest].buffer = <<>>
  BY DEF BufferConsumingDone, IndexInv
<1>5. AddToBuffer(at)
      /\ UNCHANGED <<options, enableAcks, processors, event, doAck, next, acked,
                     done, errors>>
  BY DEF BufferConsumingDone
<1> QED
  BY <1>1, <1>2, <1>3, <1>4, <1>5, AddPreserves

-----------------------------------------------------------------------------
(* The steps of generators and the agent preserve the invariant            *)

(* A generator whose state changes keeps its buffer.                       *)
LEMMA StateStep ==
    ASSUME TypeOK, NEW g \in DOMAIN takes, NEW state \in {"yielded", "left"},
           \/ takes' = [takes EXCEPT ![g].state = state, ![g].consuming = "pending"]
           \/ /\ takes' = [takes EXCEPT ![g].state = state]
              /\ takes[g].consuming = "pending"
    PROVE  /\ takes' \in Seq(Generator)
           /\ Len(takes') = Len(takes)
           /\ DOMAIN takes' = DOMAIN takes
           /\ \A h \in DOMAIN takes : h # g => takes'[h] = takes[h]
           /\ takes'[g].state = state
           /\ takes'[g].consuming = "pending"
           /\ takes'[g].buffer = takes[g].buffer
           /\ takes'[g].consumed = takes[g].consumed
<1> DEFINE new == [takes[g] EXCEPT !.state = state, !.consuming = "pending"]
<1>1. takes[g] \in Generator
  BY TakesAreFunction
<1>2. /\ new \in Generator /\ new.state = state /\ new.consuming = "pending"
      /\ new.buffer = takes[g].buffer
  BY <1>1 DEF Generator
<1>3. new.consumed = takes[g].consumed
  BY <1>1 DEF Generator
<1>4. takes' = [takes EXCEPT ![g] = new]
  <2>1. CASE takes' = [takes EXCEPT ![g].state = state, ![g].consuming = "pending"]
    BY <2>1
  <2>2. CASE takes' = [takes EXCEPT ![g].state = state] /\ takes[g].consuming = "pending"
    <3>1. [takes[g] EXCEPT !.state = state] = new
      BY <1>1, <2>2 DEF Generator
    <3> HIDE DEF new
    <3> QED
      BY <2>2, <3>1
  <2> QED
    BY <2>1, <2>2
<1> HIDE DEF new
<1> QED
  BY <1>2, <1>3, <1>4, UpdateOne

(* The agent gets the buffer of the newest generator, which is the only    *)
(* processor since its buffer is not empty.                                *)
LEMMA YieldPreserves ==
    ASSUME TakeInv, NEW g \in DOMAIN takes, Suspended, Yield(g)
    PROVE  TakeInv'
<1> USE DEF TakeInv, Live, Newest
<1>0. /\ Len(takes) \in Nat /\ DOMAIN takes = 1..Len(takes)
      /\ \A h \in DOMAIN takes :
           /\ Len(takes[h].buffer) \in Nat
           /\ DOMAIN takes[h].buffer = 1..Len(takes[h].buffer)
           /\ \A i \in DOMAIN takes[h].buffer : takes[h].buffer[i] \in 1..Events
      /\ Len(processors) \in Nat /\ DOMAIN processors = 1..Len(processors)
      /\ \A i \in 1..Len(processors) : processors[i] \in DOMAIN takes
      /\ processors # <<>> => Len(processors) >= 1
  BY TakesAreFunction, ProcessorsAreFunction
<1>1. takes[g].state = "waiting" /\ takes[g].buffer # <<>> /\ g = Newest
  BY DEF Yield, GeneratorInv
<1>2. /\ takes' \in Seq(Generator)
      /\ Len(takes') = Len(takes)
      /\ DOMAIN takes' = DOMAIN takes
      /\ \A h \in DOMAIN takes : h # g => takes'[h] = takes[h]
      /\ takes'[g].state = "yielded"
      /\ takes'[g].consuming = "pending"
      /\ takes'[g].buffer = takes[g].buffer
      /\ takes'[g].consumed = takes[g].consumed
  BY StateStep DEF Yield
<1>3. /\ processors' = processors /\ event' = event /\ next' = next /\ done' = done
      /\ acked' = acked /\ errors' = errors /\ phase' = phase /\ index' = index
      /\ at' = at
  BY DEF Yield, drainer
<1>4. TypeOK'
  <2>1. /\ manual' \in BOOLEAN /\ within' \in BOOLEAN /\ enableAcks' \in BOOLEAN
        /\ doAck' \in BOOLEAN
    BY Zenon DEF TypeOK, Yield, options, drainer
  <2>2. \A h \in DOMAIN takes' : Len(takes'[h].buffer) <= MaxBatch
    BY <1>2 DEF TypeOK
  <2> QED
    BY <1>2, <1>3, <2>1, <2>2, Zenon DEF TypeOK
<1>5. GeneratorInv'
  <2> SUFFICES ASSUME NEW h \in DOMAIN takes
               PROVE  GeneratorInv!(h)'
    BY <1>2 DEF GeneratorInv
  <2> QED
    BY <1>1, <1>2, <1>3 DEF GeneratorInv
<1>6. ProcessorInv'
  BY <1>0, <1>1, <1>2, <1>3 DEF ProcessorInv
<1>7. IndexInv'
  <2>1. /\ index' \in 0..1
        /\ phase' = "process" /\ index' = 1 => Len(processors') <= 1
    BY <1>3 DEF IndexInv
  <2> SUFFICES ASSUME phase \in {"consuming", "consumed"}
               PROVE  /\ index' = 1 /\ at' \in DOMAIN takes'
                      /\ \A h \in DOMAIN takes' : takes'[h].state = "left" => h = at'
                      /\ at' # Newest' => /\ takes'[Newest'].state = "waiting"
                                          /\ takes'[Newest'].buffer = <<>>
    BY <1>3, <2>1 DEF IndexInv
  <2>2. /\ index = 1 /\ at \in DOMAIN takes
        /\ \A h \in DOMAIN takes : takes[h].state = "left" => h = at
        /\ at = Newest
    BY <1>1 DEF IndexInv
  <2>3. \A h \in DOMAIN takes' : takes'[h].state = "left" => h = at'
    BY <1>2, <1>3, <2>2
  <2> QED
    BY <1>2, <1>3, <2>2, <2>3
<1>8. FullInv'
  <2>1. \A h \in DOMAIN takes' : takes'[h].buffer = takes[h].buffer
    BY <1>2
  <2>2. \A h \in DOMAIN takes' : takes'[h].consumed = takes[h].consumed
    BY <1>2
  <2>3. phase = "consumed" => at \in DOMAIN takes
    BY DEF IndexInv
  <2> QED
    BY <1>2, <1>3, <2>1, <2>2, <2>3 DEF FullInv
<1>9. EventInv' /\ Ordered'
  <2>1. \A h \in DOMAIN takes' : takes'[h].buffer = takes[h].buffer
    BY <1>2
  <2> QED
    BY <1>1, <1>2, <1>3, <2>1 DEF EventInv, Ordered, Fresh
<1> QED
  BY <1>4, <1>5, <1>6, <1>7, <1>8, <1>9

(* The buffer is done with, and empty.                                     *)
LEMMA FinishPreserves ==
    ASSUME TakeInv, NEW g \in DOMAIN takes, Suspended, Finish(g)
    PROVE  TakeInv'
<1> USE DEF TakeInv, Live, Newest
<1>0. /\ Len(takes) \in Nat /\ DOMAIN takes = 1..Len(takes)
      /\ \A h \in DOMAIN takes :
           /\ Len(takes[h].buffer) \in Nat
           /\ DOMAIN takes[h].buffer = 1..Len(takes[h].buffer)
           /\ \A i \in DOMAIN takes[h].buffer : takes[h].buffer[i] \in 1..Events
      /\ Len(processors) \in Nat /\ DOMAIN processors = 1..Len(processors)
      /\ \A i \in 1..Len(processors) : processors[i] \in DOMAIN takes
      /\ processors # <<>> => Len(processors) >= 1
  BY TakesAreFunction, ProcessorsAreFunction
<1>1. takes[g].state = "yielded" /\ g = Newest
  BY DEF Finish, GeneratorInv
<1>2. /\ takes' \in Seq(Generator)
      /\ Len(takes') = Len(takes)
      /\ DOMAIN takes' = DOMAIN takes
      /\ \A h \in DOMAIN takes : h # g => takes'[h] = takes[h]
      /\ takes'[g].state = "waiting"
      /\ takes'[g].consuming = "done"
      /\ takes'[g].buffer = <<>>
  BY ConsumedStep DEF Finish
<1>3. /\ processors' = processors /\ event' = event /\ next' = next
      /\ done' = done \cup ToSet(takes[g].buffer)
      /\ acked' = acked \cup ToSet(takes[g].buffer)
      /\ errors' = errors /\ phase' = phase /\ index' = index
      /\ at' = at
  BY DEF Finish, drainer
<1>4. /\ ToSet(takes[g].buffer) \subseteq 1..Events
      /\ \A e \in ToSet(takes[g].buffer) : e <= event /\ (Fresh => e < event)
      /\ Len(<<>>) = 0 /\ DOMAIN <<>> = {}
  BY <1>0 DEF ToSet, EventInv
<1>5. TypeOK'
  <2>1. /\ manual' \in BOOLEAN /\ within' \in BOOLEAN /\ enableAcks' \in BOOLEAN
        /\ doAck' \in BOOLEAN
    BY Zenon DEF TypeOK, Finish, options, drainer
  <2>2. \A h \in DOMAIN takes' : Len(takes'[h].buffer) <= MaxBatch
    <3>1. \A h \in DOMAIN takes : Len(takes[h].buffer) <= MaxBatch
      BY DEF TypeOK
    <3>2. Len(takes'[g].buffer) <= MaxBatch
      BY <1>2, <1>4, TakeAssumption
    <3> QED
      BY <1>2, <3>1, <3>2
  <2>3. done' \subseteq 1..Events /\ acked' \subseteq 1..Events
    BY <1>3, <1>4 DEF TypeOK
  <2> QED
    BY <1>2, <1>3, <2>1, <2>2, <2>3, Zenon DEF TypeOK
<1>6. GeneratorInv'
  <2> SUFFICES ASSUME NEW h \in DOMAIN takes
               PROVE  GeneratorInv!(h)'
    BY <1>2 DEF GeneratorInv
  <2> QED
    BY <1>1, <1>2, <1>3 DEF GeneratorInv
<1>7. ProcessorInv'
  BY <1>0, <1>1, <1>2, <1>3 DEF ProcessorInv
<1>8. IndexInv'
  BY <1>0, <1>1, <1>2, <1>3 DEF IndexInv
<1>9. FullInv'
  <2>1. \A h \in DOMAIN takes' : Len(takes'[h].buffer) >= MaxBatch => h # g
    BY <1>2, <1>4, TakeAssumption
  <2>2. phase = "consumed" => at \in DOMAIN takes
    BY DEF IndexInv
  <2>3. \A h \in DOMAIN takes' : Len(takes'[h].buffer) >= MaxBatch =>
           phase = "consumed" /\ at = h /\ ~takes'[h].consumed
    BY <1>2, <2>1 DEF FullInv
  <2>4. phase = "consumed" /\ takes'[at].consumed => takes'[at].buffer = <<>>
    BY <1>2, <2>2 DEF FullInv
  <2> QED
    BY <1>3, <2>3, <2>4, Zenon DEF FullInv
<1>10. EventInv'
  BY <1>2, <1>3, <1>4 DEF EventInv, Fresh
<1>11. Ordered'
  <2>1. \A h \in DOMAIN takes' : Live(h)' => h = g
    BY <1>1, <1>2 DEF GeneratorInv
  <2> QED
    BY <1>2, <1>4, <2>1 DEF Ordered
<1> QED
  BY <1>5, <1>6, <1>7, <1>8, <1>9, <1>10, <1>11

(* The agent raises: the generator it was reading is the only processor.   *)
LEMMA ErrorPreserves ==
    ASSUME TakeInv, NEW g \in DOMAIN takes, Suspended, Error(g)
    PROVE  TakeInv'
<1> USE DEF TakeInv, Live, Newest
<1>0. /\ Len(takes) \in Nat /\ DOMAIN takes = 1..Len(takes)
      /\ \A h \in DOMAIN takes :
           /\ Len(takes[h].buffer) \in Nat
           /\ DOMAIN takes[h].buffer = 1..Len(takes[h].buffer)
           /\ \A i \in DOMAIN takes[h].buffer : takes[h].buffer[i] \in 1..Events
      /\ Len(processors) \in Nat /\ DOMAIN processors = 1..Len(processors)
      /\ \A i \in 1..Len(processors) : processors[i] \in DOMAIN takes
      /\ processors # <<>> => Len(processors) >= 1
  BY TakesAreFunction, ProcessorsAreFunction
<1>1. /\ takes[g].state = "yielded" /\ g = Newest /\ takes[g].consuming = "pending"
      /\ processors # <<>> /\ processors[Len(processors)] = g
  BY DEF Error, GeneratorInv
<1>2. /\ takes' \in Seq(Generator)
      /\ Len(takes') = Len(takes)
      /\ DOMAIN takes' = DOMAIN takes
      /\ \A h \in DOMAIN takes : h # g => takes'[h] = takes[h]
      /\ takes'[g].state = "left"
      /\ takes'[g].consuming = "pending"
      /\ takes'[g].buffer = takes[g].buffer
      /\ takes'[g].consumed = takes[g].consumed
  BY <1>1, StateStep DEF Error
<1>3. /\ processors' = processors /\ event' = event /\ next' = next
      /\ done' = done \cup ToSet(takes[g].buffer)
      /\ acked' = acked
      /\ errors' = errors + 1 /\ phase' = phase /\ index' = index
      /\ at' = at
  BY DEF Error, drainer
<1>4. /\ ToSet(takes[g].buffer) \subseteq 1..Events
      /\ \A e \in ToSet(takes[g].buffer) : e <= event /\ (Fresh => e < event)
  BY <1>0 DEF ToSet, EventInv
<1>5. Len(processors) = 1
  <2>1. Len(processors) # 2
    BY <1>1 DEF ProcessorInv
  <2>2. \A n \in Nat : n >= 1 /\ n <= 2 /\ n # 2 => n = 1
    OBVIOUS
  <2> QED
    BY <1>0, <1>1, <2>1, <2>2, Zenon DEF ProcessorInv
<1>6. TypeOK'
  <2>1. /\ manual' \in BOOLEAN /\ within' \in BOOLEAN /\ enableAcks' \in BOOLEAN
        /\ doAck' \in BOOLEAN
    BY Zenon DEF TypeOK, Error, options, drainer
  <2>2. \A h \in DOMAIN takes' : Len(takes'[h].buffer) <= MaxBatch
    BY <1>2 DEF TypeOK
  <2>3. done' \subseteq 1..Events
    BY <1>3, <1>4 DEF TypeOK
  <2>4. errors' \in 0..MaxErrors
    BY <1>3, TakeAssumption, SMTT(30) DEF TypeOK, Error
  <2> QED
    BY <1>2, <1>3, <2>1, <2>2, <2>3, <2>4, Zenon DEF TypeOK
<1>7. GeneratorInv'
  <2> SUFFICES ASSUME NEW h \in DOMAIN takes
               PROVE  GeneratorInv!(h)'
    BY <1>2 DEF GeneratorInv
  <2>1. CASE h = g
    BY <1>0, <1>1, <1>2, <1>3, <1>5, <2>1 DEF GeneratorInv
  <2>2. CASE h # g
    BY <1>1, <1>2, <1>3, <2>2 DEF GeneratorInv
  <2> QED
    BY <2>1, <2>2
<1>8. ProcessorInv'
  BY <1>0, <1>2, <1>3, <1>5 DEF ProcessorInv
<1>9. IndexInv'
  <2>1. phase \in {"consuming", "consumed"} => at = Newest
    BY <1>1 DEF IndexInv
  <2> QED
    BY <1>1, <1>2, <1>3, <2>1 DEF IndexInv
<1>10. FullInv'
  <2>1. \A h \in DOMAIN takes' : takes'[h].buffer = takes[h].buffer
    BY <1>2
  <2>2. \A h \in DOMAIN takes' : takes'[h].consumed = takes[h].consumed
    BY <1>2
  <2>3. phase = "consumed" => at \in DOMAIN takes
    BY DEF IndexInv
  <2> QED
    BY <1>2, <1>3, <2>1, <2>2, <2>3 DEF FullInv
<1>11. EventInv'
  <2>1. \A h \in DOMAIN takes' : takes'[h].buffer = takes[h].buffer
    BY <1>2
  <2> QED
    BY <1>2, <1>3, <1>4, <2>1 DEF EventInv, Fresh
<1>12. Ordered'
  <2>1. \A h \in DOMAIN takes' : ~ Live(h)'
    BY <1>1, <1>2 DEF GeneratorInv
  <2> QED
    BY <2>1 DEF Ordered
<1> QED
  BY <1>6, <1>7, <1>8, <1>9, <1>10, <1>11, <1>12

(* aclose() takes the first processor away; what is left is the newest     *)
(* generator, which got nothing yet, or nothing.                           *)
LEMMA ClosePreserves ==
    ASSUME TakeInv, NEW g \in DOMAIN takes, Suspended, Close(g)
    PROVE  TakeInv'
<1> USE DEF TakeInv, Live, Newest
<1>0. /\ Len(takes) \in Nat /\ DOMAIN takes = 1..Len(takes)
      /\ \A h \in DOMAIN takes :
           /\ Len(takes[h].buffer) \in Nat
           /\ DOMAIN takes[h].buffer = 1..Len(takes[h].buffer)
           /\ \A i \in DOMAIN takes[h].buffer : takes[h].buffer[i] \in 1..Events
      /\ Len(processors) \in Nat /\ DOMAIN processors = 1..Len(processors)
      /\ \A i \in 1..Len(processors) : processors[i] \in DOMAIN takes
      /\ processors # <<>> => Len(processors) >= 1
  BY TakesAreFunction, ProcessorsAreFunction
<1>1. /\ takes[g].state = "left" /\ processors # <<>> /\ processors[1] = g
      /\ g # Newest => Len(processors) = 2
      /\ \A h \in DOMAIN takes : takes[h].state = "left" => h = g
  BY DEF Close, GeneratorInv
<1>2. /\ takes' \in Seq(Generator)
      /\ Len(takes') = Len(takes)
      /\ DOMAIN takes' = DOMAIN takes
      /\ \A h \in DOMAIN takes : h # g => takes'[h] = takes[h]
      /\ takes'[g].state = "closed"
      /\ takes'[g].consuming = "done"
      /\ takes'[g].buffer = <<>>
  BY ConsumedStep DEF Close
<1>3. /\ event' = event /\ next' = next /\ done' = done
      /\ errors' = errors /\ phase' = phase /\ index' = index /\ at' = at
      /\ acked' \subseteq acked \cup ToSet(takes[g].buffer)
  BY DEF Close, drainer
<1>4. ToSet(takes[g].buffer) \subseteq 1..Events /\ Len(<<>>) = 0 /\ DOMAIN <<>> = {}
  BY <1>0 DEF ToSet
<1>5. /\ processors' \in Seq(DOMAIN takes)
      /\ Len(processors') = Len(processors) - 1
      /\ \A i \in 1..Len(processors') : processors'[i] = processors[i + 1]
      /\ DOMAIN processors' = 1..Len(processors')
  <2>1. processors' = Tail(processors) /\ processors \in Seq(DOMAIN takes)
    BY <1>1, RemoveHead DEF Close, TypeOK
  <2>2. /\ processors' \in Seq(DOMAIN takes)
        /\ Len(processors') = Len(processors) - 1
        /\ \A i \in 1..Len(processors') : processors'[i] = processors[i + 1]
    BY <1>1, <2>1, HeadTailProperties
  <2> QED
    BY <2>2, LenProperties
<1>6. /\ Len(processors) = 2 \/ Len(processors) = 1
      /\ Len(processors) = 2 => /\ processors[2] = Newest /\ Newest # g
                                /\ takes[Newest].state = "waiting"
                                /\ takes[Newest].buffer = <<>>
  <2>1. \A n \in Nat : n >= 1 /\ n <= 2 => n = 2 \/ n = 1
    OBVIOUS
  <2>2. Len(processors) = 2 \/ Len(processors) = 1
    BY <1>0, <1>1, <2>1, Zenon DEF ProcessorInv
  <2> QED
    BY <1>1, <2>2 DEF ProcessorInv
<1>7. TypeOK'
  <2>1. manual' \in BOOLEAN /\ within' \in BOOLEAN /\ doAck' \in BOOLEAN
    BY Zenon DEF TypeOK, Close, options, drainer
  <2>2. enableAcks' \in BOOLEAN
    <3>1. takes[g].saved \in BOOLEAN
      BY TakesAreFunction DEF Generator
    <3> QED
      BY <3>1, Zenon DEF Close
  <2>3. \A h \in DOMAIN takes' : Len(takes'[h].buffer) <= MaxBatch
    <3>1. \A h \in DOMAIN takes : Len(takes[h].buffer) <= MaxBatch
      BY DEF TypeOK
    <3>2. Len(takes'[g].buffer) <= MaxBatch
      BY <1>2, <1>4, TakeAssumption
    <3> QED
      BY <1>2, <3>1, <3>2
  <2>4. acked' \subseteq 1..Events
    BY <1>3, <1>4 DEF TypeOK
  <2>5. processors' \in Seq(DOMAIN takes')
    BY <1>2, <1>5
  <2> QED
    BY <1>2, <1>3, <2>1, <2>2, <2>3, <2>4, <2>5, Zenon DEF TypeOK
<1>8. GeneratorInv'
  <2> SUFFICES ASSUME NEW h \in DOMAIN takes
               PROVE  GeneratorInv!(h)'
    BY <1>2 DEF GeneratorInv
  <2>1. CASE h = g
    BY <1>2, <2>1
  <2>2. CASE h # g /\ Live(h)
    <3>1. h = Newest /\ Len(processors) = 2 /\ processors[2] = h
      BY <1>1, <1>6, <2>2 DEF GeneratorInv
    <3>2. Len(processors') = 1 /\ processors'[1] = h /\ processors' # <<>>
      <4>1. Len(processors') = 1
        BY <1>5, <3>1
      <4>2. processors'[1] = h
        BY <1>5, <3>1, <4>1
      <4>3. processors' # <<>>
        BY <1>4, <4>1
      <4> QED
        BY <4>1, <4>2, <4>3
    <3> QED
      BY <1>2, <2>2, <3>1, <3>2 DEF GeneratorInv
  <2>3. CASE h # g /\ ~ Live(h)
    BY <1>1, <1>2, <2>3 DEF GeneratorInv
  <2> QED
    BY <2>1, <2>2, <2>3
<1>9. ProcessorInv'
  <2>1. CASE Len(processors) = 2
    <3>1. Len(processors') = 1
      BY <1>5, <2>1
    <3>2. processors'[1] = Newest
      BY <1>5, <1>6, <2>1, <3>1
    <3>3. takes'[Newest].state = "waiting"
      BY <1>0, <1>2, <1>6, <2>1
    <3> QED
      BY <1>5, <3>1, <3>2, <3>3 DEF ProcessorInv
  <2>2. CASE Len(processors) = 1
    <3>1. Len(processors') = 0
      BY <1>5, <2>2
    <3>2. DOMAIN processors' = {}
      BY <1>5, <3>1
    <3> QED
      BY <3>1, <3>2 DEF ProcessorInv
  <2> QED
    BY <1>6, <2>1, <2>2
<1>10. IndexInv'
  <2>1. phase # "process" /\ index \in 0..1
    BY DEF Suspended, IndexInv
  <2>2. \A h \in DOMAIN takes' : takes'[h].state # "left"
    BY <1>1, <1>2
  <2>3. phase \in {"consuming", "consumed"} => index = 1 /\ at = g
    BY <1>1 DEF IndexInv
  <2>4. g # Newest => takes'[Newest].state = "waiting" /\ takes'[Newest].buffer = <<>>
    BY <1>0, <1>1, <1>2, <1>6
  <2> QED
    BY <1>2, <1>3, <2>1, <2>2, <2>3, <2>4 DEF IndexInv
<1>11. FullInv'
  <2>1. \A h \in DOMAIN takes' : Len(takes'[h].buffer) >= MaxBatch => h # g
    BY <1>2, <1>4, TakeAssumption
  <2>2. phase = "consumed" => at \in DOMAIN takes
    BY DEF IndexInv
  <2>3. \A h \in DOMAIN takes' : Len(takes'[h].buffer) >= MaxBatch =>
           phase = "consumed" /\ at = h /\ ~takes'[h].consumed
    BY <1>2, <2>1 DEF FullInv
  <2>4. phase = "consumed" /\ takes'[at].consumed => takes'[at].buffer = <<>>
    BY <1>2, <2>2 DEF FullInv
  <2> QED
    BY <1>3, <2>3, <2>4, Zenon DEF FullInv
<1>12. EventInv'
  BY <1>2, <1>3, <1>4 DEF EventInv, Fresh
<1>13. Ordered'
  <2>1. \A h \in DOMAIN takes' : Live(h)' => h # g /\ Live(h)
    BY <1>2
  <2> QED
    BY <1>2, <1>3, <2>1 DEF Ordered
<1> QED
  BY <1>7, <1>8, <1>9, <1>10, <1>11, <1>12, <1>13

(* A new generator is added behind one that is left, if there still is.    *)
LEMMA RestartPreserves ==
    ASSUME TakeInv, Suspended, Restart
    PROVE  TakeInv'
<1> USE DEF TakeInv, Live, Newest
<1>0. /\ Len(takes) \in Nat /\ DOMAIN takes = 1..Len(takes)
      /\ \A h \in DOMAIN takes :
           /\ Len(takes[h].buffer) \in Nat
           /\ DOMAIN takes[h].buffer = 1..Len(takes[h].buffer)
           /\ \A i \in DOMAIN takes[h].buffer : takes[h].buffer[i] \in 1..Events
      /\ Len(processors) \in Nat /\ DOMAIN processors = 1..Len(processors)
      /\ \A i \in 1..Len(processors) : processors[i] \in DOMAIN takes
      /\ processors # <<>> => Len(processors) >= 1
  BY TakesAreFunction, ProcessorsAreFunction
<1> DEFINE new == NewTake(enableAcks)
           n == Len(takes) + 1
<1>1. /\ new \in Generator /\ new.state = "waiting" /\ new.buffer = <<>>
      /\ new.consuming = "none"
  <2>1. enableAcks \in BOOLEAN
    BY Zenon DEF TypeOK
  <2>2. <<>> \in Seq(1..Events)
    BY EmptySeq
  <2> QED
    BY <2>1, <2>2 DEF NewTake, Generator
<1> HIDE DEF new
<1>2. /\ takes' \in Seq(Generator) /\ Len(takes') = n
      /\ \A h \in 1..Len(takes) : takes'[h] = takes[h]
      /\ takes'[n] = new
  <2>1. takes' = Append(takes, new) /\ takes \in Seq(Generator)
    BY DEF Restart, new, TypeOK
  <2> QED
    BY <1>1, <2>1, AppendProperties
<1>3. DOMAIN takes' = 1..n
  BY <1>2, LenProperties
<1>4. /\ processors' \in Seq(1..n) /\ Len(processors') = Len(processors) + 1
      /\ \A i \in 1..Len(processors) : processors'[i] = processors[i]
      /\ processors'[Len(processors) + 1] = n
  <2>1. processors \in Seq(1..n)
    <3>1. processors \in [1..Len(processors) -> 1..n]
      <4>1. processors \in Seq(DOMAIN takes)
        BY DEF TypeOK
      <4>2. processors \in [1..Len(processors) -> 1..Len(takes)]
        BY <1>0, <4>1
      <4>3. \A i \in 1..Len(processors) : processors[i] \in 1..n
        BY <1>0, <4>2
      <4> QED
        BY <4>2, <4>3
    <3> QED
      BY <1>0, <3>1, SeqDef
  <2>2. processors' = Append(processors, n) /\ n \in 1..n
    BY <1>0, <1>2 DEF Restart
  <2> HIDE DEF n
  <2> QED
    BY <2>1, <2>2, AppendProperties
<1>5. DOMAIN processors' = 1..Len(processors')
  BY <1>4, LenProperties
<1>6. /\ event' = event /\ next' = next /\ done' = done /\ acked' = acked
      /\ errors' = errors /\ phase' = phase /\ index' = index /\ at' = at
  BY DEF Restart, drainer
<1>7. /\ \A h \in DOMAIN takes : takes[h].state \in {"left", "closed"}
      /\ Len(<<>>) = 0 /\ DOMAIN <<>> = {}
  BY DEF Restart
<1>8. Len(processors) = 0 \/ Len(processors) = 1
  <2>1. ASSUME Len(processors) = 2 PROVE FALSE
    <3>1. processors[2] \in DOMAIN takes
      BY <1>0, <2>1
    <3> QED
      BY <1>7, <2>1, <3>1 DEF ProcessorInv
  <2>2. \A k \in Nat : k <= 2 /\ k # 2 => k = 0 \/ k = 1
    OBVIOUS
  <2> QED
    BY <1>0, <2>1, <2>2, Zenon DEF ProcessorInv
<1>9. TypeOK'
  <2>1. /\ manual' \in BOOLEAN /\ within' \in BOOLEAN /\ enableAcks' \in BOOLEAN
        /\ doAck' \in BOOLEAN
    BY Zenon DEF TypeOK, Restart, options, drainer
  <2>2. \A h \in DOMAIN takes' : Len(takes'[h].buffer) <= MaxBatch
    <3>1. \A h \in DOMAIN takes : Len(takes[h].buffer) <= MaxBatch
      BY DEF TypeOK
    <3>2. Len(takes'[n].buffer) <= MaxBatch
      BY <1>1, <1>2, <1>7, TakeAssumption
    <3> QED
      BY <1>0, <1>2, <1>3, <3>1, <3>2
  <2>3. at' \in 0..Len(takes')
    BY <1>0, <1>2, <1>6 DEF TypeOK
  <2>4. processors' \in Seq(DOMAIN takes')
    BY <1>3, <1>4
  <2> QED
    BY <1>2, <1>6, <2>1, <2>2, <2>3, <2>4, Zenon DEF TypeOK
<1>10. GeneratorInv'
  <2> SUFFICES ASSUME NEW h \in 1..n
               PROVE  GeneratorInv!(h)'
    BY <1>3 DEF GeneratorInv
  <2>1. CASE h = n
    <3>1. processors' # <<>> /\ processors'[Len(processors')] = n
      BY <1>0, <1>4, <1>7
    <3> QED
      BY <1>1, <1>2, <2>1, <3>1
  <2>2. CASE h # n
    <3>1. h \in DOMAIN takes /\ takes'[h] = takes[h] /\ h # Newest'
      BY <1>0, <1>2, <2>2
    <3>2. takes[h].state = "left" => /\ processors' # <<>> /\ processors'[1] = h
                                     /\ Len(processors') = 2
      <4> SUFFICES ASSUME takes[h].state = "left"
                   PROVE  /\ processors' # <<>> /\ processors'[1] = h
                          /\ Len(processors') = 2
        OBVIOUS
      <4>1. Len(processors) = 1 /\ processors[1] = h
        BY <1>0, <1>8, <3>1 DEF GeneratorInv
      <4>2. Len(processors') = 2 /\ processors'[1] = h
        BY <1>4, <4>1
      <4> QED
        BY <1>7, <4>2, SMTT(30)
    <3> QED
      BY <1>7, <3>1, <3>2 DEF GeneratorInv
  <2> QED
    BY <2>1, <2>2
<1>11. ProcessorInv'
  <2>1. CASE Len(processors) = 0
    <3>1. Len(processors') = 1
      BY <1>4, <2>1
    <3>2. processors'[1] = n
      BY <1>4, <2>1
    <3> QED
      BY <1>1, <1>2, <1>5, <3>1, <3>2 DEF ProcessorInv
  <2>2. CASE Len(processors) = 1
    <3>1. processors[1] \in DOMAIN takes /\ takes[processors[1]].state = "left"
      BY <1>0, <1>7, <2>2 DEF ProcessorInv
    <3>2. /\ Len(processors') = 2
          /\ processors'[1] = processors[1] /\ processors'[2] = n
      BY <1>4, <2>2
    <3>3. takes'[processors'[1]].state = "left"
      BY <1>0, <1>2, <3>1, <3>2
    <3> QED
      BY <1>1, <1>2, <1>5, <3>2, <3>3 DEF ProcessorInv
  <2> QED
    BY <1>8, <2>1, <2>2
<1>12. IndexInv'
  <2>1. phase # "process" /\ index \in 0..1
    BY DEF Suspended, IndexInv
  <2>2. phase \in {"consuming", "consumed"} =>
           /\ index = 1 /\ at \in DOMAIN takes
           /\ \A h \in DOMAIN takes : takes[h].state = "left" => h = at
    BY DEF IndexInv
  <2>3. \A h \in DOMAIN takes' : takes'[h].state = "left" =>
           h \in DOMAIN takes /\ takes[h].state = "left"
    BY <1>0, <1>1, <1>2, <1>3
  <2>4. takes'[Newest'].state = "waiting" /\ takes'[Newest'].buffer = <<>>
    BY <1>1, <1>2
  <2>5. DOMAIN takes \subseteq DOMAIN takes'
    BY <1>0, <1>3
  <2> QED
    BY <1>6, <2>1, <2>2, <2>3, <2>4, <2>5 DEF IndexInv
<1>13. \A h \in 1..n : \/ h \in DOMAIN takes /\ takes'[h] = takes[h]
                       \/ h = n /\ takes'[h] = new
  <2>1. \A h \in 1..n : h \in 1..Len(takes) \/ h = n
    BY <1>0
  <2> TAKE h \in 1..n
  <2>2. CASE h \in 1..Len(takes)
    BY <1>0, <1>2, <2>2
  <2>3. CASE h = n
    BY <1>2, <2>3
  <2> QED
    BY <2>1, <2>2, <2>3
<1>14. FullInv'
  <2>1. ~(Len(new.buffer) >= MaxBatch)
    BY <1>1, <1>7, TakeAssumption
  <2>2. phase = "consumed" => at \in DOMAIN takes /\ takes'[at] = takes[at]
    BY <1>0, <1>2 DEF IndexInv
  <2> QED
    BY <1>3, <1>6, <1>13, <2>1, <2>2 DEF FullInv
<1>15. EventInv'
  BY <1>1, <1>3, <1>6, <1>7, <1>13 DEF EventInv, Fresh
<1>16. Ordered'
  BY <1>1, <1>3, <1>7, <1>13 DEF Ordered
<1> QED
  BY <1>9, <1>10, <1>11, <1>12, <1>14, <1>15, <1>16

-----------------------------------------------------------------------------
(* The theorems                                                            *)

(* A stream that take() was just called on.                                *)
LEMMA InitTakeInv ==
    ASSUME Init
    PROVE  TakeInv /\ NoErrorInv
<1> DEFINE new == NewTake(TRUE)
<1>1. new \in Generator /\ new.state = "waiting" /\ new.buffer = <<>>
      /\ new.consuming = "none"
  <2>1. <<>> \in Seq(1..Events)
    BY EmptySeq
  <2> QED
    BY <2>1 DEF NewTake, Generator
<1>2. /\ takes \in Seq(Generator) /\ Len(takes) = 1 /\ DOMAIN takes = {1}
      /\ takes[1].state = "waiting" /\ takes[1].buffer = <<>>
      /\ takes[1].consuming = "none"
  <2>1. takes = <<new>>
    BY DEF Init
  <2> HIDE DEF new
  <2>2. Len(<<new>>) = 1 /\ <<new>>[1] = new /\ DOMAIN <<new>> = 1..1
    OBVIOUS
  <2>3. <<new>> \in Seq(Generator)
    BY <1>1
  <2> QED
    BY <1>1, <2>1, <2>2, <2>3
<1>2A. /\ processors = <<1>> /\ processors \in Seq(DOMAIN takes)
       /\ Len(processors) = 1 /\ DOMAIN processors = {1} /\ processors[1] = 1
  <2>1. processors = <<1>>
    BY DEF Init
  <2>2. <<1>> \in Seq({1}) /\ Len(<<1>>) = 1 /\ DOMAIN <<1>> = 1..1 /\ <<1>>[1] = 1
    OBVIOUS
  <2> QED
    BY <1>2, <2>1, <2>2
<1>3. Len(<<>>) = 0 /\ DOMAIN <<>> = {} /\ processors # <<>>
  BY <1>2A
<1>4. TypeOK
  <2>1. /\ manual \in BOOLEAN /\ within \in BOOLEAN /\ enableAcks \in BOOLEAN
        /\ doAck \in BOOLEAN
    BY Zenon DEF Init
  <2>2. /\ phase = "start" /\ event = 0 /\ index = 0 /\ at = 0 /\ next = 1
        /\ acked = {} /\ done = {} /\ errors = 0
    BY DEF Init
  <2>3. \A g \in DOMAIN takes : Len(takes[g].buffer) <= MaxBatch
    BY <1>2, <1>3, TakeAssumption
  <2>4. /\ event \in 0..Events /\ index \in Nat /\ at \in 0..Len(takes)
        /\ next \in 1..Events + 1 /\ acked \subseteq 1..Events
        /\ done \subseteq 1..Events /\ errors \in 0..MaxErrors
    BY <1>2, <2>2, TakeAssumption
  <2> QED
    BY <1>2, <1>2A, <2>1, <2>2, <2>3, <2>4, Zenon DEF TypeOK
<1>5. GeneratorInv /\ ProcessorInv
  BY <1>2, <1>2A, <1>3 DEF GeneratorInv, ProcessorInv, Live, Newest
<1>6. IndexInv
  BY <1>2 DEF IndexInv, Init
<1>7. FullInv
  <2>1. \A g \in DOMAIN takes : Len(takes[g].buffer) = 0
    BY <1>2, <1>3
  <2>2. phase = "start"
    BY DEF Init
  <2> QED
    BY <2>1, <2>2, TakeAssumption DEF FullInv
<1>8. EventInv
  <2>1. event = 0 /\ next = 1 /\ phase = "start" /\ done = {}
    BY DEF Init
  <2> QED
    BY <1>2, <1>3, <2>1 DEF EventInv
<1>9. Ordered
  BY <1>2, <1>3 DEF Ordered
<1>10. NoErrorInv
  <2>1. ~enableAcks /\ ~doAck
    BY Zenon DEF Init
  <2> QED
    BY <1>2, <2>1 DEF NoErrorInv, Init, Live, Newest
<1> QED
  BY <1>4, <1>5, <1>6, <1>7, <1>8, <1>9, <1>10 DEF TakeInv

(* Every step preserves the invariant.                                     *)
LEMMA NextTakeInv ==
    ASSUME TakeInv, [Next]_vars
    PROVE  TakeInv'
<1>1. CASE Drain
  BY <1>1, StartPreserves, GetPreserves, ProcessPreserves,
     BufferConsumingDonePreserves, BufferConsumedPreserves, AfterPreserves DEF Drain
<1>2. ASSUME NEW g \in DOMAIN takes, Suspended,
             Yield(g) \/ Finish(g) \/ Error(g) \/ Close(g)
      PROVE  TakeInv'
  BY <1>2, YieldPreserves, FinishPreserves, ErrorPreserves, ClosePreserves
<1>3. CASE Suspended /\ Restart
  BY <1>3, RestartPreserves
<1>4. CASE UNCHANGED vars
  <2>1. /\ takes' = takes /\ processors' = processors /\ phase' = phase
        /\ event' = event /\ index' = index /\ at' = at /\ next' = next
        /\ acked' = acked /\ done' = done /\ errors' = errors
        /\ manual' = manual /\ within' = within /\ enableAcks' = enableAcks
        /\ doAck' = doAck
    BY <1>4 DEF vars, options, drainer
  <2>2. TypeOK'
    BY <2>1, Zenon DEF TakeInv, TypeOK
  <2>3. GeneratorInv' /\ ProcessorInv' /\ Ordered'
    BY <2>1 DEF TakeInv, GeneratorInv, ProcessorInv, Ordered, Live, Newest
  <2>4. IndexInv' /\ FullInv' /\ EventInv'
    BY <2>1 DEF TakeInv, IndexInv, FullInv, EventInv, Live, Newest, Fresh
  <2> QED
    BY <2>2, <2>3, <2>4 DEF TakeInv
<1> QED
  BY <1>1, <1>2, <1>3, <1>4 DEF Next

(* Whatever the drainer, generators, agent and supervisor do, the invariant*)
(* holds: there are at most two processors, and only one is ever added to. *)
THEOREM InvariantCorrect == Spec => []TakeInv
<1>1. Init => TakeInv
  BY InitTakeInv
<1>2. TakeInv /\ [Next]_vars => TakeInv'
  BY NextTakeInv
<1> QED
  BY <1>1, <1>2, PTL DEF Spec

(* A batch never has more than max_ values, whenever timeouts, errors and  *)
(* restarts come.                                                          *)
THEOREM TypeCorrect == Spec => []TypeOK
<1>1. TakeInv => TypeOK
  BY DEF TakeInv
<1> QED
  BY <1>1, InvariantCorrect, PTL

(* Events reach the agent in the order of the channel, and once, through   *)
(* whichever generator.                                                    *)
THEOREM InOrderCorrect == Spec => []InOrder
<1>1. TakeInv => InOrder
  BY OrderedIsInOrder DEF TakeInv
<1> QED
  BY <1>1, InvariantCorrect, PTL

(* The generator that empties its buffer does so when the agent is done    *)
(* with it, and the drainer does not ack as long as no error made a        *)
(* generator give enable_acks back.                                        *)
LEMMA NextNoErrorInv ==
    ASSUME TakeInv, NoErrorInv, [Next]_vars
    PROVE  NoErrorInv'
<1> SUFFICES ASSUME errors' = 0
             PROVE  /\ Newest' = 1 /\ Live(1)'
                    /\ ~enableAcks' /\ ~doAck'
                    /\ acked' \subseteq done' \cup Filtered
  BY DEF NoErrorInv
<1>0. /\ errors \in Nat /\ Len(takes) \in Nat /\ DOMAIN takes = 1..Len(takes)
      /\ TypeOK
  BY TakesAreFunction, TakeAssumption DEF TakeInv, TypeOK
<1>1. errors = 0
  <2>1. errors' = errors \/ errors' = errors + 1
    BY DEF Next, Drain, Start, Get, Process, BufferConsumingDone, BufferConsumed,
           After, Yield, Finish, Error, Close, Restart, vars
  <2> QED
    BY <1>0, <2>1
<1>2. Len(takes) = 1 /\ Live(1) /\ 1 \in DOMAIN takes
      /\ acked \subseteq done \cup Filtered
  BY <1>0, <1>1 DEF NoErrorInv, Newest
<1>3. ~enableAcks /\ ~doAck
  BY <1>1, Zenon DEF NoErrorInv
<1>4. CASE Start
  <2>1. ~enableAcks' /\ ~doAck'
    BY <1>3, <1>4, Zenon DEF Start
  <2> QED
    BY <1>2, <1>4, <2>1 DEF Start, Live, Newest
<1>5. CASE Get
  <2>1. ~enableAcks' /\ ~doAck'
    BY <1>3, <1>5, Zenon DEF Get
  <2> QED
    BY <1>2, <1>5, <2>1 DEF Get, Live, Newest
<1>6. CASE Process \/ BufferConsumingDone
  <2>1. ~enableAcks' /\ ~doAck'
    <3>1. enableAcks' = enableAcks /\ doAck' = doAck
      BY <1>6 DEF Process, BufferConsumingDone
    <3> QED
      BY <1>3, <3>1, Zenon
  <2>2. acked' = acked /\ done' = done
    BY <1>6 DEF Process, BufferConsumingDone
  <2>3. \/ takes' = takes
        \/ Len(takes') = Len(takes) /\ takes'[1].state = takes[1].state
    <3>1. ASSUME NEW g \in DOMAIN takes, event \in 1..Events, AddToBuffer(g)
          PROVE  Len(takes') = Len(takes) /\ takes'[1].state = takes[1].state
      BY <1>0, <1>2, <3>1, AddToBufferStep
    <3>2. event \in 1..Events
      BY <1>0, <1>6, TakeAssumption DEF TakeInv, TypeOK, EventInv, Process,
         BufferConsumingDone
    <3>3. CASE BufferConsumingDone
      BY <3>1, <3>2, <3>3 DEF BufferConsumingDone, TakeInv, IndexInv
    <3>4. CASE Process
      <4>1. at' \in DOMAIN takes
        BY <1>0, <3>4, ProcessorsAreFunction DEF Process, TakeInv, TypeOK
      <4> QED
        BY <3>1, <3>2, <3>4, <4>1 DEF Process
    <3> QED
      BY <1>6, <3>3, <3>4
  <2> QED
    BY <1>2, <2>1, <2>2, <2>3 DEF Live, Newest
<1>7. CASE BufferConsumed
  <2>1. ~enableAcks' /\ ~doAck'
    BY <1>3, <1>7, Zenon DEF BufferConsumed
  <2> QED
    BY <1>2, <1>7, <2>1 DEF BufferConsumed, Live, Newest
<1>8. CASE After
  <2>1. ~enableAcks' /\ ~doAck' /\ acked' = acked
    BY <1>3, <1>8, Zenon DEF After
  <2> QED
    BY <1>2, <1>8, <2>1 DEF After, Live, Newest
<1>9. ASSUME NEW g \in DOMAIN takes, Yield(g) \/ Finish(g)
      PROVE  /\ Newest' = 1 /\ Live(1)'
             /\ ~enableAcks' /\ ~doAck'
             /\ acked' \subseteq done' \cup Filtered
  <2>1. ~enableAcks' /\ ~doAck'
    <3>1. enableAcks' = enableAcks /\ doAck' = doAck
      BY <1>9 DEF Yield, Finish, drainer
    <3> QED
      BY <1>3, <3>1, Zenon
  <2>2. g = 1
    BY <1>0, <1>2
  <2>3. CASE Yield(g)
    <3>1. Len(takes') = Len(takes) /\ takes'[g].state = "yielded"
      BY <1>0, <2>3, StateStep DEF Yield
    <3> QED
      BY <1>2, <2>1, <2>2, <2>3, <3>1 DEF Yield, Live, Newest
  <2>4. CASE Finish(g)
    <3>1. Len(takes') = Len(takes) /\ takes'[g].state = "waiting"
      BY <1>0, <2>4, ConsumedStep DEF Finish
    <3> QED
      BY <1>2, <2>1, <2>2, <2>4, <3>1 DEF Finish, Live, Newest
  <2> QED
    BY <1>9, <2>3, <2>4
<1>10. ASSUME NEW g \in DOMAIN takes, Error(g) \/ Close(g)
       PROVE  FALSE
  <2>1. g = 1
    BY <1>0, <1>2
  <2>2. ~ Close(g)
    BY <1>2, <2>1 DEF Close, Live
  <2>3. ~ Error(g)
    BY <1>1 DEF Error
  <2> QED
    BY <1>10, <2>2, <2>3
<1>11. ~ Restart
  BY <1>2 DEF Restart, Live
<1>12. CASE UNCHANGED vars
  <2>1. ~enableAcks' /\ ~doAck'
    BY <1>3, <1>12, Zenon DEF vars, drainer
  <2>2. takes' = takes /\ acked' = acked /\ done' = done
    BY <1>12 DEF vars
  <2> QED
    BY <1>2, <2>1, <2>2 DEF Live, Newest
<1> QED
  BY <1>4, <1>5, <1>6, <1>7, <1>8, <1>9, <1>10, <1>11, <1>12 DEF Next, Drain

(* As long as the agent has not raised, no event is acked before the agent *)
(* is done with the batch it is in.                                        *)
THEOREM AckedCorrect == Spec => []AckedAfterDone
<1>1. Init => TakeInv /\ NoErrorInv
  BY InitTakeInv
<1>2. TakeInv /\ NoErrorInv /\ [Next]_vars => (TakeInv /\ NoErrorInv)'
  BY NextTakeInv, NextNoErrorInv
<1>3. NoErrorInv => AckedAfterDone
  BY DEF NoErrorInv, AckedAfterDone
<1> QED
  BY <1>1, <1>2, <1>3, PTL DEF Spec
=============================================================================

-------------------------- MODULE TransactionsProofs --------------------------
(***************************************************************************)
(* Theorems about Transactions for any workers, partitions, events and     *)
(* faults; and the refinement of AtomicCommit.                             *)
(***************************************************************************)
EXTENDS Transactions, SequenceTheorems, FiniteSetTheorems, WellFoundedInduction,
        TLAPS

-----------------------------------------------------------------------------
(* The inductive invariant                                                 *)

(* The worker has the partition and has read its offset.                   *)
Active(w, p) ==
    p \in mine[w] /\ phase[w] \in {"running", "draining", "ended", "joined"}

(* Nobody has fenced its producer off.                                     *)
Unfenced(w, p) == producer[w][p] # 0 /\ producer[w][p] = epoch[p]

(* Producers have epochs of their own.                                     *)
FenceInv ==
    \A w \in Workers, p \in Partitions :
        /\ producer[w][p] <= epoch[p]
        /\ \A v \in Workers :
              producer[v][p] = producer[w][p] /\ producer[w][p] # 0 => v = w

(* A worker gets to run only with a producer for every partition it has,   *)
(* and has none for others.                                                *)
StartedInv ==
    \A w \in Workers :
        /\ assigned[w] \subseteq mine[w]
        /\ phase[w] # "starting" => assigned[w] = {}
        /\ phase[w] = "down" => mine[w] = {}
        /\ \A p \in mine[w] \ assigned[w] : producer[w][p] # 0
        /\ \A p \in Partitions \ mine[w] : producer[w][p] = 0

(* An event is never in an agent outside of a transaction.                 *)
TxnInv ==
    \A w \in Workers, p \in Partitions :
        /\ Busy(w, p) => /\ p \in mine[w] /\ phase[w] \in {"running", "draining"}
                         /\ inTxn[w][p]
        /\ p \in mine[w] \ assigned[w] /\ phase[w] \in {"starting", "running"}
              => inTxn[w][p]

(* The commit that ends transactions is waited for.                        *)
CommitInv ==
    \A w \in Workers, p \in Partitions :
        commit[w][p] # 0 /\ ending[w] => phase[w] = "ended"

(* What an owner knows of the offset is what is committed, or nothing; a   *)
(* new producer finds nothing left from before.                            *)
OwnerInv ==
    Leftovers \/ \A w \in Workers, p \in Partitions :
        /\ p \in mine[w] /\ producer[w][p] = 0 => NothingLeft(w, p)
        /\ Unfenced(w, p) => done[w][p] \in {0, offset[p]}
        /\ Unfenced(w, p) /\ phase[w] = "running" => done[w][p] = offset[p]

(* The records of events below an offset are in the log.                   *)
LogInv ==
    Leftovers \/ \A p \in Partitions : \A e \in Direct :
        e <= offset[p] => e \in Evs(log[p])

(* The records of events that an owner is through with, or that are acked  *)
(* or being committed, are in the log, or will be when the transaction is  *)
(* committed.                                                              *)
Covered(p, a) ==
    \A e \in Direct : e <= a => e \in Evs(log[p]) \cup Evs(open[p])

OpenInv ==
    Leftovers \/ \A w \in Workers, p \in Partitions : Unfenced(w, p) =>
        /\ Covered(p, commit[w][p])
        /\ \A a \in acked[w][p] : Covered(p, a)
        /\ Active(w, p) => Covered(p, finished[w][p])
        /\ Active(w, p) /\ sent[w][p] => Covered(p, taken[w][p])

TransactionsInv ==
    /\ TypeOK /\ FenceInv /\ StartedInv /\ TxnInv /\ CommitInv
    /\ OwnerInv /\ LogInv /\ OpenInv
-----------------------------------------------------------------------------
(* Lemmas about functions and sequences                                    *)

(* The events of records: one that is added, and a transaction that is.    *)
LEMMA EvsAppend ==
    ASSUME NEW s \in Seq(Record), NEW r \in Record
    PROVE  Append(s, r) \in Seq(Record) /\ Evs(Append(s, r)) = Evs(s) \cup {r.ev}
<1> DEFINE t == Append(s, r)
<1>1. /\ t \in Seq(Record) /\ Len(t) = Len(s) + 1 /\ Len(s) \in Nat
      /\ \A i \in 1..Len(s) : t[i] = s[i]
      /\ t[Len(s) + 1] = r
  BY AppendProperties, LenProperties
<1>2. DOMAIN s = 1..Len(s) /\ DOMAIN t = 1..Len(s) + 1
  BY <1>1, LenProperties
<1> HIDE DEF t
<1>3. Range(t) = Range(s) \cup {r}
  BY <1>1, <1>2 DEF Range
<1>4. Evs(t) = Evs(s) \cup {r.ev}
  BY <1>3 DEF Evs
<1> QED
  BY <1>1, <1>4 DEF t

(* The events of two sequences, one after the other, are those of both.    *)
LEMMA EvsConcat ==
    ASSUME NEW s \in Seq(Record), NEW t \in Seq(Record)
    PROVE  s \o t \in Seq(Record) /\ Evs(s \o t) = Evs(s) \cup Evs(t)
<1> DEFINE u == s \o t
<1>1. /\ u \in Seq(Record) /\ Len(u) = Len(s) + Len(t)
      /\ Len(s) \in Nat /\ Len(t) \in Nat
      /\ \A i \in 1..Len(u) : u[i] = IF i <= Len(s) THEN s[i] ELSE t[i - Len(s)]
  BY ConcatProperties, LenProperties
<1>2. DOMAIN s = 1..Len(s) /\ DOMAIN t = 1..Len(t) /\ DOMAIN u = 1..Len(u)
  BY <1>1, LenProperties
<1> HIDE DEF u
<1>3. \A x \in Range(u) : x \in Range(s) \/ x \in Range(t)
  <2> SUFFICES ASSUME NEW i \in 1..Len(u)
               PROVE  u[i] \in Range(s) \/ u[i] \in Range(t)
    BY <1>2 DEF Range
  <2>1. CASE i <= Len(s)
    BY <1>1, <1>2, <2>1 DEF Range
  <2>2. CASE ~(i <= Len(s))
    <3>1. i - Len(s) \in 1..Len(t)
      BY <1>1, <2>2
    <3> QED
      BY <1>1, <1>2, <2>2, <3>1 DEF Range
  <2> QED
    BY <2>1, <2>2
<1>4. \A x \in Range(s) : x \in Range(u)
  BY <1>1, <1>2 DEF Range
<1>5. \A x \in Range(t) : x \in Range(u)
  <2> SUFFICES ASSUME NEW i \in 1..Len(t)
               PROVE  t[i] \in Range(u)
    BY <1>2 DEF Range
  <2>1. /\ i + Len(s) \in 1..Len(u) /\ ~(i + Len(s) <= Len(s))
        /\ (i + Len(s)) - Len(s) = i
    BY <1>1
  <2>2. u[i + Len(s)] = t[i]
    BY <1>1, <2>1
  <2> QED
    BY <1>2, <2>1, <2>2 DEF Range
<1>6. Evs(u) = Evs(s) \cup Evs(t)
  BY <1>3, <1>4, <1>5 DEF Evs
<1> QED
  BY <1>1, <1>6 DEF u

(* The greatest of some numbers is one of them.                            *)
LEMMA MaxIn ==
    ASSUME NEW n \in Nat, NEW S \in SUBSET (1..n), S # {}
    PROVE  Max(S) \in S
<1> DEFINE D == {n - j : j \in S}
<1>1. D \in SUBSET Nat /\ D # {}
  <2>1. \A j \in S : n - j \in Nat
    <3> TAKE j \in S
    <3>1. j \in 1..n
      OBVIOUS
    <3> QED
      BY <3>1
  <2>2. PICK j \in S : TRUE
    OBVIOUS
  <2>3. n - j \in D
    OBVIOUS
  <2> QED
    BY <2>1, <2>3
<1>2. \A x, y \in Nat : x < y => <<x, y>> \in OpToRel(<, Nat)
  BY Zenon DEF OpToRel
<1>3. PICK d \in D : \A y \in D : ~ (<<y, d>> \in OpToRel(<, Nat))
  BY <1>1, WFMin, NatLessThanWellFounded
<1>4. \A y \in D : d <= y
  <2>1. \A y \in D : ~ (y < d)
    BY <1>1, <1>2, <1>3, Zenon
  <2> QED
    BY <1>1, <2>1
<1>5. PICK m \in S : d = n - m
  OBVIOUS
<1>6. \A j \in S : m >= j
  <2> TAKE j \in S
  <2>1. n - m <= n - j /\ m \in 1..n /\ j \in 1..n
    BY <1>4, <1>5
  <2> QED
    BY <2>1
<1> QED
  BY <1>6, Zenon DEF Max

(* A record that is produced joins the transaction unless the producer is  *)
(* fenced.                                                                 *)
LEMMA ProduceStep ==
    ASSUME TypeOK, NEW w \in Workers, NEW p \in Partitions, NEW r \in Record,
           Produce(w, p, r)
    PROVE  /\ open' \in [Partitions -> Seq(Record)]
           /\ \A q \in Partitions : Evs(open[q]) \subseteq Evs(open'[q])
           /\ producer[w][p] = epoch[p] => r.ev \in Evs(open'[p])
<1>1. open \in [Partitions -> Seq(Record)] /\ open[p] \in Seq(Record)
  BY DEF TypeOK
<1>2. CASE producer[w][p] = epoch[p]
  <2>1. open' = [open EXCEPT ![p] = Append(open[p], r)]
    BY <1>2 DEF Produce
  <2>2. Append(open[p], r) \in Seq(Record)
        /\ Evs(Append(open[p], r)) = Evs(open[p]) \cup {r.ev}
    BY <1>1, EvsAppend
  <2> QED
    BY <1>1, <2>1, <2>2
<1>3. CASE producer[w][p] # epoch[p]
  BY <1>1, <1>3 DEF Produce
<1> QED
  BY <1>2, <1>3

-----------------------------------------------------------------------------
(* The agent                                                               *)

(* An event is taken only when the one before is finished.                   *)
LEMMA TakePreserves ==
    ASSUME TransactionsInv, NEW w \in Workers, NEW p \in Partitions, Take(w, p)
    PROVE  TransactionsInv'
<1> USE DEF TransactionsInv
<1>1. /\ members' = members /\ joining' = joining /\ epoch' = epoch
      /\ open' = open /\ log' = log /\ offset' = offset /\ phase' = phase
      /\ mine' = mine /\ assigned' = assigned /\ producer' = producer
      /\ inTxn' = inTxn /\ count' = count /\ finished' = finished
      /\ acked' = acked /\ done' = done
      /\ commit' = commit /\ ending' = ending /\ buffer' = buffer
      /\ faults' = faults
  BY DEF Take, brokerVars, commitVars
<1>2. /\ taken \in PerWorker(0..Events) /\ finished \in PerWorker(0..Events)
      /\ taken[w][p] \in 0..Events /\ finished[w][p] \in 0..Events
      /\ taken[w][p] - finished[w][p] \in 0..1
  BY DEF TypeOK, PerWorker
<1>3. /\ taken[w][p] = finished[w][p] /\ taken[w][p] + 1 \in 0..Events
      /\ phase[w] = "running" /\ p \in mine[w]
  BY <1>2, TransactionsAssumption DEF Take, Busy
<1>4. /\ taken' \in PerWorker(0..Events) /\ taken'[w][p] = taken[w][p] + 1
      /\ \A v \in Workers, q \in Partitions : v # w \/ q # p => taken'[v][q] = taken[v][q]
  <2>1. taken' = [taken EXCEPT ![w][p] = taken[w][p] + 1]
    BY DEF Take
  <2> QED
    BY <1>2, <1>3, <2>1 DEF PerWorker
<1>5. /\ sent' \in PerWorker(BOOLEAN) /\ sent'[w][p] = FALSE
      /\ \A v \in Workers, q \in Partitions : v # w \/ q # p => sent'[v][q] = sent[v][q]
  <2>1. sent' = [sent EXCEPT ![w][p] = FALSE] /\ sent \in PerWorker(BOOLEAN)
    BY DEF Take, TypeOK
  <2> QED
    BY <2>1 DEF PerWorker
<1>6. TypeOK'
  <2>1. \A v \in Workers, q \in Partitions : taken'[v][q] - finished[v][q] \in 0..1
    <3> TAKE v \in Workers, q \in Partitions
    <3>1. taken[v][q] - finished[v][q] \in 0..1
      BY DEF TypeOK
    <3>2. CASE v = w /\ q = p
      BY <1>2, <1>3, <1>4, <3>2
    <3>3. CASE v # w \/ q # p
      BY <1>4, <3>1, <3>3
    <3> QED
      BY <3>2, <3>3
  <2> QED
    BY <1>1, <1>4, <1>5, <2>1, Zenon DEF TypeOK
<1>7. FenceInv' /\ StartedInv' /\ OwnerInv' /\ LogInv'
  BY <1>1 DEF FenceInv, StartedInv, OwnerInv, LogInv, Unfenced, NothingLeft
<1>8. inTxn[w][p]
  BY <1>3 DEF TxnInv, StartedInv
<1>9. TxnInv'
  <2> SUFFICES ASSUME NEW v \in Workers, NEW q \in Partitions
               PROVE  TxnInv!(v, q)'
    BY DEF TxnInv
  <2>1. CASE v = w /\ q = p
    BY <1>1, <1>3, <1>8, <2>1 DEF TxnInv
  <2>2. CASE v # w \/ q # p
    BY <1>1, <1>4, <2>2 DEF TxnInv, Busy
  <2> QED
    BY <2>1, <2>2
<1>10. CommitInv'
  BY <1>1 DEF CommitInv
<1>11. OpenInv'
  BY <1>1, <1>4, <1>5 DEF OpenInv, Active, Unfenced, Covered
<1> QED
  BY <1>6, <1>7, <1>9, <1>10, <1>11

(* Records are sent in a transaction, so the record of an event is there   *)
(* before the event is finished.                                             *)
LEMMA SendPreserves ==
    ASSUME TransactionsInv, NEW w \in Workers, NEW p \in Partitions, Send(w, p)
    PROVE  TransactionsInv'
<1> USE DEF TransactionsInv
<1>1. /\ members' = members /\ joining' = joining /\ epoch' = epoch
      /\ log' = log /\ offset' = offset /\ phase' = phase /\ mine' = mine
      /\ assigned' = assigned /\ producer' = producer /\ inTxn' = inTxn
      /\ count' = count /\ taken' = taken /\ finished' = finished
      /\ acked' = acked /\ done' = done
      /\ commit' = commit /\ ending' = ending /\ buffer' = buffer
      /\ faults' = faults
  BY DEF Send, commitVars
<1> DEFINE r == [ev |-> taken[w][p], cnt |-> 0]
<1>2. /\ taken[w][p] \in 0..Events /\ finished[w][p] \in 0..Events
      /\ taken[w][p] > finished[w][p] /\ taken[w][p] \in 1..Events
  BY TransactionsAssumption DEF TypeOK, PerWorker, Send, Busy
<1>3. r \in Record /\ r.ev = taken[w][p]
  BY <1>2 DEF Record
<1> HIDE DEF r
<1>4. p \in mine[w] /\ phase[w] \in {"running", "draining"} /\ CanSend(w, p)
  BY DEF Send, TxnInv, StartedInv, CanSend
<1>5. /\ open' \in [Partitions -> Seq(Record)]
      /\ \A q \in Partitions : Evs(open[q]) \subseteq Evs(open'[q])
      /\ producer[w][p] = epoch[p] => taken[w][p] \in Evs(open'[p])
  <2>1. Produce(w, p, r)
    BY <1>4 DEF Send, r
  <2> QED
    BY <1>3, <2>1, ProduceStep
<1>6. /\ sent' \in PerWorker(BOOLEAN) /\ sent'[w][p] = TRUE
      /\ \A v \in Workers, q \in Partitions : v # w \/ q # p => sent'[v][q] = sent[v][q]
  <2>1. sent' = [sent EXCEPT ![w][p] = TRUE] /\ sent \in PerWorker(BOOLEAN)
    BY DEF Send, TypeOK
  <2> QED
    BY <2>1 DEF PerWorker
<1>7. TypeOK'
  BY <1>1, <1>5, <1>6, Zenon DEF TypeOK
<1>8. FenceInv' /\ StartedInv' /\ OwnerInv' /\ LogInv'
  BY <1>1 DEF FenceInv, StartedInv, OwnerInv, LogInv, Unfenced, NothingLeft
<1>9. TxnInv' /\ CommitInv'
  BY <1>1 DEF TxnInv, CommitInv, Busy
<1>10. OpenInv'
  <2>1. \A a : \A q \in Partitions : Covered(q, a) => Covered(q, a)'
    BY <1>1, <1>5 DEF Covered
  <2>2. /\ \A v \in Workers, q \in Partitions : Unfenced(v, q)' <=> Unfenced(v, q)
        /\ \A v \in Workers, q \in Partitions : Active(v, q)' <=> Active(v, q)
    BY <1>1 DEF Unfenced, Active
  <2>3. ASSUME Covered(p, finished[w][p]), Unfenced(w, p)
        PROVE  Covered(p, taken[w][p])'
    <3>1. /\ taken[w][p] - finished[w][p] \in 0..1
          /\ \A e \in Direct : e \in 1..Events
      BY DEF Direct, TypeOK
    <3>2. \A e \in Direct : e <= taken[w][p] => e <= finished[w][p] \/ e = taken[w][p]
      BY <1>2, <3>1, TransactionsAssumption
    <3> QED
      BY <1>1, <1>5, <2>3, <3>2 DEF Covered, Unfenced
  <2> QED
    BY <1>1, <1>6, <2>1, <2>2, <2>3 DEF OpenInv
<1> QED
  BY <1>7, <1>8, <1>9, <1>10

(* What a table counts goes to the buffer, and into no transaction yet.    *)
LEMMA CountPreserves ==
    ASSUME TransactionsInv, NEW w \in Workers, NEW p \in Partitions, Count(w, p)
    PROVE  TransactionsInv'
<1> USE DEF TransactionsInv
<1>1. /\ members' = members /\ joining' = joining /\ epoch' = epoch
      /\ open' = open /\ log' = log /\ offset' = offset /\ phase' = phase
      /\ mine' = mine /\ assigned' = assigned /\ producer' = producer
      /\ inTxn' = inTxn /\ taken' = taken /\ finished' = finished
      /\ acked' = acked /\ done' = done
      /\ commit' = commit /\ ending' = ending /\ faults' = faults
  <2>1. UNCHANGED <<brokerVars, phase, mine, assigned, producer, inTxn, taken,
                    finished, commitVars, faults>>
    BY DEF Count
  <2> QED
    BY <2>1 DEF brokerVars, commitVars
<1>2. /\ taken[w][p] \in 0..Events /\ finished[w][p] \in 0..Events
      /\ taken[w][p] > finished[w][p] /\ taken[w][p] \in 1..Events
      /\ taken[w][p] \in TableEvents
  BY TransactionsAssumption DEF TypeOK, PerWorker, Count, Busy
<1>3. count' \in PerWorker(Nat) /\ count'[w][p] \in Nat
  <2>1. count' = [count EXCEPT ![w][p] = @ + 1] /\ count \in PerWorker(Nat)
    BY DEF Count, TypeOK
  <2> QED
    BY <2>1 DEF PerWorker
<1>4. buffer' \in [Workers -> Seq(Partitions \X Record)]
  <2> DEFINE r == [ev |-> taken[w][p], cnt |-> count'[w][p]]
             b == Append(buffer[w], <<p, r>>)
  <2>1. r \in Record
    BY <1>2, <1>3 DEF Record
  <2>2. buffer' = [buffer EXCEPT ![w] = b] /\ buffer \in [Workers -> Seq(Partitions \X Record)]
    BY DEF Count, TypeOK
  <2> HIDE DEF r
  <2>3. <<p, r>> \in Partitions \X Record /\ buffer[w] \in Seq(Partitions \X Record)
    BY <2>1, <2>2
  <2>4. b \in Seq(Partitions \X Record)
    BY <2>3, AppendProperties
  <2> HIDE DEF b
  <2> QED
    BY <2>2, <2>4
<1>5. /\ sent' \in PerWorker(BOOLEAN) /\ sent'[w][p] = TRUE
      /\ \A v \in Workers, q \in Partitions : v # w \/ q # p => sent'[v][q] = sent[v][q]
  <2>1. sent' = [sent EXCEPT ![w][p] = TRUE] /\ sent \in PerWorker(BOOLEAN)
    BY DEF Count, TypeOK
  <2> QED
    BY <2>1 DEF PerWorker
<1>6. TypeOK'
  BY <1>1, <1>3, <1>4, <1>5, Zenon DEF TypeOK
<1>7. FenceInv' /\ StartedInv' /\ OwnerInv' /\ LogInv'
  BY <1>1 DEF FenceInv, StartedInv, OwnerInv, LogInv, Unfenced, NothingLeft
<1>8. TxnInv' /\ CommitInv'
  BY <1>1 DEF TxnInv, CommitInv, Busy
<1>9. OpenInv'
  <2>1. ASSUME Covered(p, finished[w][p])
        PROVE  Covered(p, taken[w][p])
    <3>1. /\ taken[w][p] - finished[w][p] \in 0..1
          /\ \A e \in Direct : e \in 1..Events /\ e # taken[w][p]
      BY DEF Direct, TypeOK, Count
    <3>2. /\ taken[w][p] \in 0..Events /\ finished[w][p] \in 0..Events
      BY DEF TypeOK, PerWorker
    <3>3. \A e \in Direct : e <= taken[w][p] => e <= finished[w][p]
      BY <3>1, <3>2, TransactionsAssumption
    <3> QED
      BY <2>1, <3>3 DEF Covered
  <2>2. \A a : \A q \in Partitions : Covered(q, a)' <=> Covered(q, a)
    BY <1>1 DEF Covered
  <2>3. /\ \A v \in Workers, q \in Partitions : Unfenced(v, q)' <=> Unfenced(v, q)
        /\ \A v \in Workers, q \in Partitions : Active(v, q)' <=> Active(v, q)
    BY <1>1 DEF Unfenced, Active
  <2> QED
    BY <1>1, <1>5, <2>1, <2>2, <2>3 DEF OpenInv
<1> QED
  BY <1>6, <1>7, <1>8, <1>9

(* An event is finished when its record is sent.                             *)
LEMMA AckPreserves ==
    ASSUME TransactionsInv, NEW w \in Workers, NEW p \in Partitions, Ack(w, p)
    PROVE  TransactionsInv'
<1> USE DEF TransactionsInv
<1>1. /\ members' = members /\ joining' = joining /\ epoch' = epoch
      /\ open' = open /\ log' = log /\ offset' = offset /\ phase' = phase
      /\ mine' = mine /\ assigned' = assigned /\ producer' = producer
      /\ inTxn' = inTxn /\ count' = count /\ taken' = taken /\ sent' = sent
      /\ done' = done /\ commit' = commit /\ ending' = ending
      /\ buffer' = buffer /\ faults' = faults
  BY DEF Ack, brokerVars, commitVars
<1>0. /\ acked' \in PerWorker(SUBSET (1..Events))
      /\ acked'[w][p] \subseteq acked[w][p] \cup {taken[w][p]}
      /\ \A v \in Workers, q \in Partitions : v # w \/ q # p => acked'[v][q] = acked[v][q]
  <2>1. acked \in PerWorker(SUBSET (1..Events)) /\ taken \in PerWorker(0..Events)
        /\ finished \in PerWorker(0..Events)
    BY DEF TypeOK
  <2>2. taken[w][p] \in 1..Events
    BY <2>1, TransactionsAssumption DEF Ack, Busy, PerWorker
  <2> DEFINE row == acked[w][p] \cup {taken[w][p]}
  <2>3. row \in SUBSET (1..Events)
    BY <2>1, <2>2 DEF PerWorker
  <2>4. acked' = [acked EXCEPT ![w][p] = row] \/ acked' = acked
    BY DEF Ack
  <2> HIDE DEF row
  <2>5. CASE acked' = [acked EXCEPT ![w][p] = row]
    <3>1. acked'[w][p] = row
      BY <2>1, <2>5 DEF PerWorker
    <3> QED
      BY <2>1, <2>3, <2>5, <3>1 DEF PerWorker, row
  <2>6. CASE acked' = acked
    BY <2>1, <2>6
  <2> QED
    BY <2>4, <2>5, <2>6
<1>2. /\ taken[w][p] \in 0..Events /\ finished[w][p] \in 0..Events
      /\ taken[w][p] - finished[w][p] \in 0..1 /\ taken[w][p] > finished[w][p]
      /\ finished \in PerWorker(0..Events)
  <2>1. /\ taken \in PerWorker(0..Events) /\ finished \in PerWorker(0..Events)
        /\ taken[w][p] - finished[w][p] \in 0..1
    BY DEF TypeOK
  <2>2. taken[w][p] \in 0..Events /\ finished[w][p] \in 0..Events
    BY <2>1 DEF PerWorker
  <2>3. taken[w][p] > finished[w][p]
    BY DEF Ack, Busy
  <2> QED
    BY <2>1, <2>2, <2>3
<1>3. taken[w][p] = finished[w][p] + 1 /\ finished[w][p] + 1 \in 0..Events
  BY <1>2
<1>4. /\ finished' \in PerWorker(0..Events) /\ finished'[w][p] = taken[w][p]
      /\ \A v \in Workers, q \in Partitions : v # w \/ q # p => finished'[v][q] = finished[v][q]
  <2>1. finished' = [finished EXCEPT ![w][p] = finished[w][p] + 1]
    BY DEF Ack
  <2> QED
    BY <1>2, <1>3, <2>1 DEF PerWorker
<1>5. \A v \in Workers, q \in Partitions :
         taken[v][q] \in 0..Events /\ finished[v][q] \in 0..Events
         /\ taken[v][q] - finished[v][q] \in 0..1
  BY DEF TypeOK, PerWorker
<1>6. \A v \in Workers, q \in Partitions :
         finished[v][q] <= finished'[v][q] /\ taken[v][q] - finished'[v][q] \in 0..1
  BY <1>2, <1>3, <1>4, <1>5
<1>7. TypeOK'
  BY <1>0, <1>1, <1>4, <1>6, Zenon DEF TypeOK
<1>8. FenceInv' /\ StartedInv' /\ LogInv' /\ CommitInv'
  BY <1>1 DEF FenceInv, StartedInv, LogInv, CommitInv
<1>9. \A v \in Workers, q \in Partitions :
         taken[v][q] > finished'[v][q] => taken[v][q] > finished[v][q]
  BY <1>2, <1>3, <1>4
<1>10. TxnInv'
  BY <1>1, <1>9 DEF TxnInv, Busy
<1>11. p \in mine[w] /\ Active(w, p) /\ producer[w][p] # 0
  BY DEF Ack, TxnInv, StartedInv, Active
<1>12. OwnerInv'
  BY <1>1, <1>0, <1>11 DEF OwnerInv, Unfenced, NothingLeft
<1>13. OpenInv'
  <2>1. \A a : \A q \in Partitions : Covered(q, a)' <=> Covered(q, a)
    BY <1>1 DEF Covered
  <2>2. /\ \A v \in Workers, q \in Partitions : Unfenced(v, q)' <=> Unfenced(v, q)
        /\ \A v \in Workers, q \in Partitions : Active(v, q)' <=> Active(v, q)
    BY <1>1 DEF Unfenced, Active
  <2>3. sent[w][p]
    BY DEF Ack
  <2> SUFFICES ASSUME ~Leftovers, NEW v \in Workers, NEW q \in Partitions, Unfenced(v, q)
               PROVE  /\ Covered(q, commit[v][q])
                      /\ \A a \in acked'[v][q] : Covered(q, a)
                      /\ Active(v, q) => Covered(q, finished'[v][q])
                      /\ Active(v, q) /\ sent[v][q] => Covered(q, taken[v][q])
    BY <1>1, <2>1, <2>2 DEF OpenInv
  <2>4. CASE v = w /\ q = p
    BY <1>0, <1>4, <1>11, <2>3, <2>4 DEF OpenInv
  <2>5. CASE v # w \/ q # p
    BY <1>0, <1>4, <2>5 DEF OpenInv
  <2> QED
    BY <2>4, <2>5
<1> QED
  BY <1>7, <1>8, <1>10, <1>12, <1>13

-----------------------------------------------------------------------------
(* Workers that end                                                        *)

(* A worker that ends owns nothing; others and the brokers do not notice.  *)
LEMMA EndsPreserves ==
    ASSUME TransactionsInv, NEW w \in Workers, Ends(w), faults' \in 0..MaxFaults,
           UNCHANGED <<members, joining, epoch, open, log, offset>>
    PROVE  TransactionsInv'
<1> USE DEF TransactionsInv
<1>1. /\ phase' \in [Workers -> {"running", "draining", "ended", "joined", "starting", "down"}]
      /\ phase'[w] = "down" /\ \A v \in Workers : v # w => phase'[v] = phase[v]
  BY DEF Ends, TypeOK
<1>2. /\ mine' \in [Workers -> SUBSET Partitions] /\ mine'[w] = {}
      /\ assigned' \in [Workers -> SUBSET Partitions] /\ assigned'[w] = {}
      /\ \A v \in Workers : v # w => mine'[v] = mine[v] /\ assigned'[v] = assigned[v]
  BY DEF Ends, TypeOK
<1>3. /\ producer' \in PerWorker(Nat) /\ count' \in PerWorker(Nat)
      /\ \A p \in Partitions : producer'[w][p] = 0 /\ count'[w][p] = 0
      /\ \A v \in Workers : v # w => producer'[v] = producer[v] /\ count'[v] = count[v]
  <2>1. producer \in PerWorker(Nat) /\ producer' = [producer EXCEPT ![w] = [p \in Partitions |-> 0]]
    BY DEF Ends, TypeOK, All
  <2>2. count \in PerWorker(Nat) /\ count' = [count EXCEPT ![w] = [p \in Partitions |-> 0]]
    BY DEF Ends, TypeOK, All
  <2>3. 0 \in Nat
    OBVIOUS
  <2>4. /\ producer' \in PerWorker(Nat)
        /\ \A p \in Partitions : producer'[w][p] = 0
        /\ \A v \in Workers : v # w => producer'[v] = producer[v]
    BY <2>1, <2>3 DEF PerWorker
  <2>5. /\ count' \in PerWorker(Nat)
        /\ \A p \in Partitions : count'[w][p] = 0
        /\ \A v \in Workers : v # w => count'[v] = count[v]
    BY <2>2, <2>3 DEF PerWorker
  <2> QED
    BY <2>4, <2>5
<1>4. /\ taken' \in PerWorker(0..Events) /\ finished' \in PerWorker(0..Events)
      /\ \A p \in Partitions : taken'[w][p] = 0 /\ finished'[w][p] = 0
      /\ \A v \in Workers : v # w => taken'[v] = taken[v] /\ finished'[v] = finished[v]
  <2>1. taken \in PerWorker(0..Events) /\ taken' = [taken EXCEPT ![w] = [p \in Partitions |-> 0]]
    BY DEF Ends, TypeOK, All
  <2>2. finished \in PerWorker(0..Events) /\ finished' = [finished EXCEPT ![w] = [p \in Partitions |-> 0]]
    BY DEF Ends, TypeOK, All
  <2>3. 0 \in 0..Events
    BY TransactionsAssumption
  <2>4. /\ taken' \in PerWorker(0..Events)
        /\ \A p \in Partitions : taken'[w][p] = 0
        /\ \A v \in Workers : v # w => taken'[v] = taken[v]
    BY <2>1, <2>3 DEF PerWorker
  <2>5. /\ finished' \in PerWorker(0..Events)
        /\ \A p \in Partitions : finished'[w][p] = 0
        /\ \A v \in Workers : v # w => finished'[v] = finished[v]
    BY <2>2, <2>3 DEF PerWorker
  <2> QED
    BY <2>4, <2>5
<1>5. /\ done' \in PerWorker(0..Events) /\ commit' \in PerWorker(0..Events)
      /\ \A p \in Partitions : done'[w][p] = 0 /\ commit'[w][p] = 0
      /\ \A v \in Workers : v # w => done'[v] = done[v] /\ commit'[v] = commit[v]
  <2>1. done \in PerWorker(0..Events) /\ done' = [done EXCEPT ![w] = [p \in Partitions |-> 0]]
    BY DEF Ends, TypeOK, All
  <2>2. commit \in PerWorker(0..Events) /\ commit' = [commit EXCEPT ![w] = [p \in Partitions |-> 0]]
    BY DEF Ends, TypeOK, All
  <2>3. 0 \in 0..Events
    BY TransactionsAssumption
  <2>4. /\ done' \in PerWorker(0..Events)
        /\ \A p \in Partitions : done'[w][p] = 0
        /\ \A v \in Workers : v # w => done'[v] = done[v]
    BY <2>1, <2>3 DEF PerWorker
  <2>5. /\ commit' \in PerWorker(0..Events)
        /\ \A p \in Partitions : commit'[w][p] = 0
        /\ \A v \in Workers : v # w => commit'[v] = commit[v]
    BY <2>2, <2>3 DEF PerWorker
  <2> QED
    BY <2>4, <2>5
<1>0. /\ acked' \in PerWorker(SUBSET (1..Events))
      /\ \A p \in Partitions : acked'[w][p] = {}
      /\ \A v \in Workers : v # w => acked'[v] = acked[v]
  <2>1. /\ acked \in PerWorker(SUBSET (1..Events))
        /\ acked' = [acked EXCEPT ![w] = [p \in Partitions |-> {}]]
    BY DEF Ends, TypeOK, All
  <2>2. {} \in SUBSET (1..Events)
    OBVIOUS
  <2> QED
    BY <2>1, <2>2 DEF PerWorker
<1>6. /\ inTxn' \in PerWorker(BOOLEAN) /\ sent' \in PerWorker(BOOLEAN)
      /\ \A v \in Workers : v # w => inTxn'[v] = inTxn[v] /\ sent'[v] = sent[v]
  <2>1. inTxn \in PerWorker(BOOLEAN) /\ inTxn' = [inTxn EXCEPT ![w] = [p \in Partitions |-> FALSE]]
    BY DEF Ends, TypeOK, All
  <2>2. sent \in PerWorker(BOOLEAN) /\ sent' = [sent EXCEPT ![w] = [p \in Partitions |-> FALSE]]
    BY DEF Ends, TypeOK, All
  <2>3. FALSE \in BOOLEAN
    OBVIOUS
  <2>4. /\ inTxn' \in PerWorker(BOOLEAN)
        /\ \A p \in Partitions : inTxn'[w][p] = FALSE
        /\ \A v \in Workers : v # w => inTxn'[v] = inTxn[v]
    BY <2>1, <2>3 DEF PerWorker
  <2>5. /\ sent' \in PerWorker(BOOLEAN)
        /\ \A p \in Partitions : sent'[w][p] = FALSE
        /\ \A v \in Workers : v # w => sent'[v] = sent[v]
    BY <2>2, <2>3 DEF PerWorker
  <2> QED
    BY <2>4, <2>5
<1>7. ending' \in [Workers -> BOOLEAN] /\ \A v \in Workers : v # w => ending'[v] = ending[v]
  BY DEF Ends, TypeOK
<1>8. buffer' \in [Workers -> Seq(Partitions \X Record)]
  <2>1. <<>> \in Seq(Partitions \X Record)
    BY EmptySeq
  <2> QED
    BY <2>1 DEF Ends, TypeOK
<1>9. TypeOK'
  <2>1. \A v \in Workers, p \in Partitions : taken'[v][p] - finished'[v][p] \in 0..1
    <3> TAKE v \in Workers, p \in Partitions
    <3>1. taken[v][p] - finished[v][p] \in 0..1
      BY DEF TypeOK
    <3>2. CASE v = w
      BY <1>4, <3>2
    <3>3. CASE v # w
      BY <1>4, <3>1, <3>3
    <3> QED
      BY <3>2, <3>3
  <2>2. members' = members /\ joining' = joining /\ epoch' = epoch /\ open' = open
        /\ log' = log /\ offset' = offset
    OBVIOUS
  <2> QED
    BY <1>0, <1>1, <1>2, <1>3, <1>4, <1>5, <1>6, <1>7, <1>8, <2>1, <2>2, Zenon DEF TypeOK
<1>10. epoch \in [Partitions -> Nat]
  BY DEF TypeOK
<1>11. FenceInv'
  BY <1>3, <1>10 DEF FenceInv
<1>12. StartedInv'
  BY <1>1, <1>2, <1>3 DEF StartedInv
<1>13. TxnInv'
  BY <1>1, <1>2, <1>4, <1>6 DEF TxnInv, Busy
<1>14. CommitInv'
  BY <1>1, <1>5, <1>7 DEF CommitInv
<1>15. OwnerInv' /\ LogInv'
  BY <1>0, <1>1, <1>2, <1>3, <1>5 DEF OwnerInv, LogInv, Unfenced, NothingLeft
<1>16. OpenInv'
  BY <1>0, <1>1, <1>2, <1>3, <1>4, <1>5, <1>6 DEF OpenInv, Active, Unfenced, Covered
<1> QED
  BY <1>9, <1>11, <1>12, <1>13, <1>14, <1>15, <1>16

(* A worker ends, and its transactions with it.                            *)
LEMMA CrashPreserves ==
    ASSUME TransactionsInv, NEW w \in Workers, Crash(w)
    PROVE  TransactionsInv'
<1>1. faults' \in 0..MaxFaults
  BY TransactionsAssumption DEF Crash, TransactionsInv, TypeOK
<1>2. UNCHANGED <<members, joining, epoch, open, log, offset>>
  BY DEF Crash, brokerVars
<1> QED
  BY <1>1, <1>2, EndsPreserves DEF Crash

(* A worker comes up with no partitions.                                   *)
LEMMA RestartPreserves ==
    ASSUME TransactionsInv, NEW w \in Workers, Restart(w)
    PROVE  TransactionsInv'
<1> USE DEF TransactionsInv
<1>1. /\ members' = members /\ joining' = joining /\ epoch' = epoch
      /\ open' = open /\ log' = log /\ offset' = offset /\ mine' = mine
      /\ assigned' = assigned /\ producer' = producer /\ inTxn' = inTxn
      /\ count' = count /\ taken' = taken /\ finished' = finished
      /\ acked' = acked /\ sent' = sent
      /\ done' = done /\ commit' = commit /\ ending' = ending
      /\ buffer' = buffer /\ faults' = faults
  BY DEF Restart, brokerVars, agentVars, commitVars
<1>2. /\ phase' \in [Workers -> {"running", "draining", "ended", "joined", "starting", "down"}]
      /\ phase'[w] = "running" /\ \A v \in Workers : v # w => phase'[v] = phase[v]
      /\ phase[w] = "down"
  BY DEF Restart, TypeOK
<1>3. mine[w] = {} /\ assigned[w] = {}
  BY <1>2 DEF StartedInv
<1>4. TypeOK'
  BY <1>1, <1>2, Zenon DEF TypeOK
<1>5. FenceInv' /\ LogInv'
  BY <1>1 DEF FenceInv, LogInv
<1>6. StartedInv'
  BY <1>1, <1>2, <1>3 DEF StartedInv
<1>7. TxnInv'
  BY <1>1, <1>2, <1>3 DEF TxnInv, Busy
<1>8. CommitInv'
  BY <1>1, <1>2 DEF CommitInv
<1>9. OwnerInv'
  BY <1>1, <1>2, <1>3 DEF OwnerInv, StartedInv, Unfenced, NothingLeft
<1>10. OpenInv'
  BY <1>1, <1>2, <1>3 DEF OpenInv, Active, Unfenced, Covered
<1> QED
  BY <1>4, <1>5, <1>6, <1>7, <1>8, <1>9, <1>10

(* Records of the buffer are those of table events.                        *)
LEMMA HandlePendingPreserves ==
    ASSUME TransactionsInv, NEW w \in Workers, HandlePending(w)
    PROVE  TransactionsInv'
<1> USE DEF TransactionsInv
<1> DEFINE p == Head(buffer[w])[1]
           r == Head(buffer[w])[2]
<1>1. /\ p \in Partitions /\ r \in Record
      /\ Tail(buffer[w]) \in Seq(Partitions \X Record)
      /\ buffer \in [Workers -> Seq(Partitions \X Record)]
  <2>1. buffer[w] \in Seq(Partitions \X Record) /\ buffer[w] # <<>>
        /\ buffer \in [Workers -> Seq(Partitions \X Record)]
    BY DEF TypeOK, HandlePending
  <2>2. Head(buffer[w]) \in Partitions \X Record
        /\ Tail(buffer[w]) \in Seq(Partitions \X Record)
    BY <2>1, HeadTailProperties
  <2> QED
    BY <2>1, <2>2
<1>2. CASE /\ Produce(w, p, r)
           /\ buffer' = [buffer EXCEPT ![w] = Tail(@)]
           /\ UNCHANGED <<phase, mine, assigned, producer, inTxn, agentVars, commitVars>>
  <2>1. /\ members' = members /\ joining' = joining /\ epoch' = epoch
        /\ log' = log /\ offset' = offset /\ phase' = phase /\ mine' = mine
        /\ assigned' = assigned /\ producer' = producer /\ inTxn' = inTxn
        /\ count' = count /\ taken' = taken /\ finished' = finished
      /\ acked' = acked /\ sent' = sent
        /\ done' = done /\ commit' = commit /\ ending' = ending
        /\ faults' = faults
    BY <1>2 DEF HandlePending, agentVars, commitVars
  <2>2. buffer' \in [Workers -> Seq(Partitions \X Record)]
    BY <1>1, <1>2
  <2> HIDE DEF p, r
  <2>3. /\ open' \in [Partitions -> Seq(Record)]
        /\ \A q \in Partitions : Evs(open[q]) \subseteq Evs(open'[q])
    BY <1>1, <1>2, ProduceStep
  <2>4. TypeOK'
    BY <2>1, <2>2, <2>3, Zenon DEF TypeOK
  <2>5. FenceInv' /\ StartedInv' /\ OwnerInv' /\ LogInv'
    BY <2>1 DEF FenceInv, StartedInv, OwnerInv, LogInv, Unfenced, NothingLeft
  <2>6. TxnInv' /\ CommitInv'
    BY <2>1 DEF TxnInv, CommitInv, Busy
  <2>7. OpenInv'
    BY <2>1, <2>3 DEF OpenInv, Active, Unfenced, Covered
  <2> QED
    BY <2>4, <2>5, <2>6, <2>7
<1>3. CASE Ends(w) /\ UNCHANGED open
  <2>1. faults' \in 0..MaxFaults
    BY DEF HandlePending, TypeOK
  <2>2. UNCHANGED <<members, joining, epoch, open, log, offset>>
    BY <1>3 DEF HandlePending
  <2> QED
    BY <1>3, <2>1, <2>2, EndsPreserves
<1> QED
  BY <1>2, <1>3 DEF HandlePending

-----------------------------------------------------------------------------
(* Commits                                                                 *)

(* A commit takes events off those that are acked.                         *)
LEMMA CommitFacts ==
    ASSUME TypeOK, NEW w \in Workers, NEW end \in BOOLEAN, Commit(w, end)
    PROVE  /\ commit' \in PerWorker(0..Events) /\ acked' \in PerWorker(SUBSET (1..Events))
           /\ ending' \in [Workers -> BOOLEAN] /\ (ending'[w] <=> end)
           /\ \A v \in Workers : v # w => /\ commit'[v] = commit[v] /\ acked'[v] = acked[v]
                                          /\ ending'[v] = ending[v]
           /\ \A p \in Partitions : /\ acked'[w][p] \subseteq acked[w][p]
                                    /\ commit'[w][p] \in acked[w][p] \cup {0}
<1>1. /\ acked \in PerWorker(SUBSET (1..Events)) /\ commit \in PerWorker(0..Events)
      /\ ending \in [Workers -> BOOLEAN]
  BY DEF TypeOK
<1>2. \A p \in Partitions : acked[w][p] \subseteq 1..Events
  BY <1>1 DEF PerWorker
<1>3. \A p \in Partitions : Batch(w, p) \subseteq acked[w][p]
  BY DEF Batch
<1>4. \A p \in Partitions : ToCommit(w, p) \in acked[w][p] \cup {0}
  <2> TAKE p \in Partitions
  <2>1. CASE Batch(w, p) = {}
    BY <2>1 DEF ToCommit
  <2>2. CASE Batch(w, p) # {}
    <3>1. Max(Batch(w, p)) \in Batch(w, p)
      BY <1>2, <1>3, <2>2, MaxIn, TransactionsAssumption
    <3> QED
      BY <1>3, <3>1 DEF ToCommit
  <2> QED
    BY <2>1, <2>2
<1>5. \A p \in Partitions : ToCommit(w, p) \in 0..Events
  <2> TAKE p \in Partitions
  <2>1. ToCommit(w, p) = 0 \/ ToCommit(w, p) \in 1..Events
    BY <1>2, <1>4
  <2> QED
    BY <2>1, TransactionsAssumption
<1> DEFINE row == [p \in Partitions |-> ToCommit(w, p)]
           left == [p \in Partitions |-> acked[w][p] \ Batch(w, p)]
<1>6. row \in [Partitions -> 0..Events] /\ \A p \in Partitions : row[p] = ToCommit(w, p)
  BY <1>5
<1>7. left \in [Partitions -> SUBSET (1..Events)]
      /\ \A p \in Partitions : left[p] \subseteq acked[w][p]
  BY <1>2
<1>8. /\ commit' = [commit EXCEPT ![w] = row] /\ acked' = [acked EXCEPT ![w] = left]
      /\ ending' = [ending EXCEPT ![w] = end]
  BY DEF Commit
<1> HIDE DEF row, left
<1>9. /\ commit' \in PerWorker(0..Events) /\ commit'[w] = row
      /\ \A v \in Workers : v # w => commit'[v] = commit[v]
  BY <1>1, <1>6, <1>8 DEF PerWorker
<1>10. /\ acked' \in PerWorker(SUBSET (1..Events)) /\ acked'[w] = left
       /\ \A v \in Workers : v # w => acked'[v] = acked[v]
  BY <1>1, <1>7, <1>8 DEF PerWorker
<1>11. /\ ending' \in [Workers -> BOOLEAN] /\ ending'[w] = end
       /\ \A v \in Workers : v # w => ending'[v] = ending[v]
  BY <1>1, <1>8
<1> QED
  BY <1>4, <1>6, <1>7, <1>9, <1>10, <1>11

(* What is committed has been acked, so its records are covered.           *)
LEMMA CommitOpen ==
    ASSUME TransactionsInv, NEW w \in Workers, NEW end \in BOOLEAN, Commit(w, end),
           UNCHANGED <<epoch, open, log, offset, mine, producer, taken, finished, sent, done>>,
           \A v \in Workers : /\ v # w => phase'[v] = phase[v]
                              /\ \A p \in Partitions : Active(v, p)' => Active(v, p),
           phase'[w] = phase[w] \/ phase'[w] # "running"
    PROVE  OwnerInv' /\ LogInv' /\ OpenInv'
<1> USE DEF TransactionsInv
<1>1. /\ \A v \in Workers : v # w => commit'[v] = commit[v] /\ acked'[v] = acked[v]
      /\ \A p \in Partitions : /\ acked'[w][p] \subseteq acked[w][p]
                               /\ commit'[w][p] \in acked[w][p] \cup {0}
  BY CommitFacts
<1>2. OwnerInv'
  BY <1>1 DEF OwnerInv, Unfenced, NothingLeft
<1>3. LogInv'
  BY DEF LogInv
<1>4. OpenInv'
  <2>1. \A a : \A q \in Partitions : Covered(q, a)' <=> Covered(q, a)
    BY DEF Covered
  <2>2. \A q \in Partitions : Covered(q, 0)
    BY DEF Covered, Direct
  <2>3. \A v \in Workers, q \in Partitions : Unfenced(v, q)' <=> Unfenced(v, q)
    BY DEF Unfenced
  <2> SUFFICES ASSUME ~Leftovers, NEW v \in Workers, NEW q \in Partitions, Unfenced(v, q)
               PROVE  Covered(q, commit'[v][q]) /\ \A a \in acked'[v][q] : Covered(q, a)
    BY <2>1, <2>3 DEF OpenInv
  <2>4. Covered(q, commit[v][q]) /\ \A a \in acked[v][q] : Covered(q, a)
    BY DEF OpenInv
  <2>5. CASE v # w
    BY <1>1, <2>4, <2>5
  <2>6. CASE v = w
    BY <1>1, <2>2, <2>4, <2>6
  <2> QED
    BY <2>5, <2>6
<1> QED
  BY <1>2, <1>3, <1>4

(* The commit handler leaves the rebalance alone.                          *)
LEMMA CommitStartPreserves ==
    ASSUME TransactionsInv, NEW w \in Workers, CommitStart(w)
    PROVE  TransactionsInv'
<1> USE DEF TransactionsInv
<1>1. /\ members' = members /\ joining' = joining /\ epoch' = epoch
      /\ open' = open /\ log' = log /\ offset' = offset /\ phase' = phase
      /\ mine' = mine /\ assigned' = assigned /\ producer' = producer
      /\ inTxn' = inTxn /\ count' = count /\ taken' = taken
      /\ finished' = finished /\ sent' = sent /\ done' = done
      /\ buffer' = buffer /\ faults' = faults
  BY DEF CommitStart, brokerVars, agentVars
<1>2. Commit(w, FALSE)
  BY DEF CommitStart
<1>3. /\ commit' \in PerWorker(0..Events) /\ acked' \in PerWorker(SUBSET (1..Events))
      /\ ending' \in [Workers -> BOOLEAN] /\ ~ending'[w]
      /\ \A v \in Workers : v # w => commit'[v] = commit[v] /\ ending'[v] = ending[v]
  BY <1>2, CommitFacts
<1>4. TypeOK'
  BY <1>1, <1>3, Zenon DEF TypeOK
<1>5. FenceInv' /\ StartedInv' /\ TxnInv'
  BY <1>1 DEF FenceInv, StartedInv, TxnInv, Busy
<1>6. CommitInv'
  BY <1>1, <1>3 DEF CommitInv
<1>7. OwnerInv' /\ LogInv' /\ OpenInv'
  <2>1. \A v \in Workers, p \in Partitions : Active(v, p)' => Active(v, p)
    BY <1>1 DEF Active
  <2> QED
    BY <1>1, <1>2, <2>1, CommitOpen
<1> QED
  BY <1>4, <1>5, <1>6, <1>7

(* A worker that is not fenced commits offset and records together.        *)
LEMMA CommittedPreserves ==
    ASSUME TransactionsInv, NEW w \in Workers, NEW p \in Partitions,
           CommitTransactions(w, p), Unfenced(w, p)
    PROVE  /\ TransactionsInv'
           /\ offset' = [offset EXCEPT ![p] = commit[w][p]]
           /\ log' = [log EXCEPT ![p] = log[p] \o open[p]]
           /\ ~Leftovers => \A e \in Direct : e <= commit[w][p] => e \in Evs(log'[p])
<1> USE DEF TransactionsInv
<1>1. /\ members' = members /\ joining' = joining /\ epoch' = epoch
      /\ phase' = phase /\ mine' = mine /\ assigned' = assigned
      /\ producer' = producer /\ count' = count /\ taken' = taken
      /\ finished' = finished /\ acked' = acked /\ sent' = sent /\ ending' = ending /\ buffer' = buffer
      /\ faults' = faults
  BY DEF CommitTransactions, agentVars, Unfenced
<1>2. /\ offset' = [offset EXCEPT ![p] = commit[w][p]]
      /\ log' = [log EXCEPT ![p] = log[p] \o open[p]]
      /\ open' = [open EXCEPT ![p] = <<>>]
      /\ done' = [done EXCEPT ![w][p] = commit[w][p]]
      /\ commit' = [commit EXCEPT ![w][p] = 0]
      /\ inTxn' = [inTxn EXCEPT ![w][p] = ~ending[w]]
      /\ commit[w][p] # 0
  BY DEF CommitTransactions, Unfenced
<1>3. /\ offset \in [Partitions -> 0..Events] /\ log \in [Partitions -> Seq(Record)]
      /\ open \in [Partitions -> Seq(Record)] /\ commit \in PerWorker(0..Events)
      /\ done \in PerWorker(0..Events) /\ inTxn \in PerWorker(BOOLEAN)
      /\ finished \in PerWorker(0..Events)
  BY DEF TypeOK
<1>4. commit[w][p] \in 0..Events /\ offset[p] \in 0..Events
  BY <1>3 DEF PerWorker
<1>7. /\ offset' \in [Partitions -> 0..Events] /\ offset'[p] = commit[w][p]
      /\ \A q \in Partitions : q # p => offset'[q] = offset[q]
  BY <1>2, <1>3, <1>4
<1>8. /\ log' \in [Partitions -> Seq(Record)]
      /\ Evs(log'[p]) = Evs(log[p]) \cup Evs(open[p])
      /\ \A q \in Partitions : q # p => log'[q] = log[q]
  <2>1. log[p] \o open[p] \in Seq(Record)
        /\ Evs(log[p] \o open[p]) = Evs(log[p]) \cup Evs(open[p])
    BY <1>3, EvsConcat
  <2> QED
    BY <1>2, <1>3, <2>1
<1>9. /\ open' \in [Partitions -> Seq(Record)]
      /\ \A q \in Partitions : q # p => open'[q] = open[q]
  <2>1. <<>> \in Seq(Record)
    BY EmptySeq
  <2> QED
    BY <1>2, <1>3, <2>1
<1>10. /\ done' \in PerWorker(0..Events) /\ done'[w][p] = commit[w][p]
       /\ \A v \in Workers, q \in Partitions : v # w \/ q # p => done'[v][q] = done[v][q]
  BY <1>2, <1>3, <1>4 DEF PerWorker
<1>11. /\ commit' \in PerWorker(0..Events) /\ commit'[w][p] = 0
       /\ \A v \in Workers, q \in Partitions : v # w \/ q # p => commit'[v][q] = commit[v][q]
  BY <1>2, <1>3, TransactionsAssumption DEF PerWorker
<1>12. /\ inTxn' \in PerWorker(BOOLEAN) /\ (inTxn'[w][p] <=> ~ending[w])
       /\ \A v \in Workers, q \in Partitions : v # w \/ q # p => inTxn'[v][q] = inTxn[v][q]
  <2>1. (~ending[w]) \in BOOLEAN
    OBVIOUS
  <2> QED
    BY <1>2, <1>3, <2>1 DEF PerWorker
<1>13. TypeOK'
  BY <1>1, <1>7, <1>8, <1>9, <1>10, <1>11, <1>12, Zenon DEF TypeOK
<1>14. FenceInv' /\ StartedInv'
  BY <1>1 DEF FenceInv, StartedInv
<1>15. TxnInv'
  <2> SUFFICES ASSUME NEW v \in Workers, NEW q \in Partitions
               PROVE  TxnInv!(v, q)'
    BY DEF TxnInv
  <2>1. CASE v = w /\ q = p
    <3>1. ending[w] => phase[w] = "ended"
      BY <1>2 DEF CommitInv
    <3>2. ending[w] \/ inTxn'[w][p]
      BY <1>12
    <3> QED
      BY <1>1, <2>1, <3>1, <3>2 DEF TxnInv, Busy
  <2>2. CASE v # w \/ q # p
    BY <1>1, <1>12, <2>2 DEF TxnInv, Busy
  <2> QED
    BY <2>1, <2>2
<1>16. CommitInv'
  BY <1>1, <1>11 DEF CommitInv
<1>17. \A v \in Workers : Unfenced(v, p) => v = w
  BY DEF Unfenced, FenceInv
<1>18. \A v \in Workers, q \in Partitions : Unfenced(v, q)' <=> Unfenced(v, q)
  BY <1>1 DEF Unfenced
<1>19. OwnerInv'
  <2> SUFFICES ASSUME ~Leftovers, NEW v \in Workers, NEW q \in Partitions
               PROVE  /\ q \in mine[v] /\ producer[v][q] = 0 => NothingLeft(v, q)'
                      /\ Unfenced(v, q) => done'[v][q] \in {0, offset'[q]}
                      /\ Unfenced(v, q) /\ phase[v] = "running" => done'[v][q] = offset'[q]
    BY <1>1, <1>18 DEF OwnerInv
  <2>1. CASE v = w /\ q = p
    BY <1>7, <1>10, <2>1 DEF Unfenced
  <2>2. CASE v # w /\ q = p
    <3>1. ~Unfenced(v, q)
      BY <1>17, <2>2
    <3> QED
      BY <1>1, <1>10, <1>11, <2>2, <3>1 DEF OwnerInv, NothingLeft
  <2>3. CASE q # p
    BY <1>1, <1>7, <1>10, <1>11, <2>3 DEF OwnerInv, NothingLeft
  <2> QED
    BY <2>1, <2>2, <2>3
<1>20. ~Leftovers => \A e \in Direct : e <= commit[w][p] => e \in Evs(log'[p])
  BY <1>8 DEF OpenInv, Covered
<1>21. LogInv'
  BY <1>7, <1>8, <1>20 DEF LogInv
<1>22. \A a : \A q \in Partitions : Covered(q, a) => Covered(q, a)'
  BY <1>8, <1>9 DEF Covered
<1>23. \A q \in Partitions : Covered(q, 0)'
  BY DEF Covered, Direct
<1>24. OpenInv'
  <2> SUFFICES ASSUME ~Leftovers, NEW v \in Workers, NEW q \in Partitions, Unfenced(v, q)
               PROVE  /\ Covered(q, commit[v][q])'
                      /\ \A a \in acked[v][q] : Covered(q, a)'
                      /\ Active(v, q) => Covered(q, finished[v][q])'
                      /\ Active(v, q) /\ sent[v][q] => Covered(q, taken[v][q])'
    <3>1. \A v \in Workers, q \in Partitions : Active(v, q)' <=> Active(v, q)
      BY <1>1 DEF Active
    <3> QED
      BY <1>1, <1>18, <3>1 DEF OpenInv
  <2>1. CASE commit'[v][q] = commit[v][q]
    BY <1>1, <1>22, <2>1 DEF OpenInv
  <2>2. CASE commit'[v][q] = 0
    BY <1>1, <1>22, <1>23, <2>2 DEF OpenInv
  <2> QED
    BY <1>11, <2>1, <2>2
<1> QED
  BY <1>2, <1>13, <1>14, <1>15, <1>16, <1>19, <1>20, <1>21, <1>24

(* The transaction of a partition is committed.                            *)
LEMMA CommitTransactionsPreserves ==
    ASSUME TransactionsInv, NEW w \in Workers, NEW p \in Partitions,
           CommitTransactions(w, p)
    PROVE  TransactionsInv'
<1>1. CASE Unfenced(w, p)
  BY <1>1, CommittedPreserves
<1>2. CASE producer[w][p] \notin {0, epoch[p]}
  <2>1. faults' \in 0..MaxFaults
    BY DEF CommitTransactions, TransactionsInv, TypeOK
  <2>2. Ends(w) /\ UNCHANGED <<members, joining, epoch, open, log, offset>>
    BY <1>2 DEF CommitTransactions
  <2> QED
    BY <2>1, <2>2, EndsPreserves
<1>3. CASE producer[w][p] = 0
  <2> USE DEF TransactionsInv
  <2>1. /\ members' = members /\ joining' = joining /\ epoch' = epoch
        /\ open' = open /\ log' = log /\ offset' = offset /\ phase' = phase
        /\ mine' = mine /\ assigned' = assigned /\ producer' = producer
        /\ inTxn' = inTxn /\ count' = count /\ taken' = taken
        /\ finished' = finished
      /\ acked' = acked /\ sent' = sent
        /\ ending' = ending /\ buffer' = buffer /\ faults' = faults
    BY <1>3 DEF CommitTransactions, agentVars
  <2>2. /\ done' = [done EXCEPT ![w][p] = commit[w][p]]
        /\ commit' = [commit EXCEPT ![w][p] = 0] /\ commit[w][p] # 0
    BY <1>3 DEF CommitTransactions
  <2>3. done \in PerWorker(0..Events) /\ commit \in PerWorker(0..Events)
    BY DEF TypeOK
  <2>4. commit[w][p] \in 0..Events /\ 0 \in 0..Events
    BY <2>3, TransactionsAssumption DEF PerWorker
  <2>5. /\ done' \in PerWorker(0..Events)
        /\ \A v \in Workers, q \in Partitions : v # w \/ q # p => done'[v][q] = done[v][q]
    BY <2>2, <2>3, <2>4 DEF PerWorker
  <2>6. /\ commit' \in PerWorker(0..Events) /\ commit'[w][p] = 0
        /\ \A v \in Workers, q \in Partitions : v # w \/ q # p => commit'[v][q] = commit[v][q]
    BY <2>2, <2>3, <2>4 DEF PerWorker
  <2>7. TypeOK'
    BY <2>1, <2>5, <2>6, Zenon DEF TypeOK
  <2>8. FenceInv' /\ StartedInv' /\ TxnInv' /\ LogInv'
    BY <2>1 DEF FenceInv, StartedInv, TxnInv, LogInv, Busy
  <2>9. CommitInv'
    BY <2>1, <2>6 DEF CommitInv
  <2>10. ~Leftovers => p \notin mine[w]
    BY <1>3, <2>2 DEF OwnerInv, NothingLeft
  <2>11. OwnerInv'
    BY <1>3, <2>1, <2>5, <2>6, <2>10 DEF OwnerInv, Unfenced, NothingLeft
  <2>12. OpenInv'
    BY <1>3, <2>1, <2>6 DEF OpenInv, Active, Unfenced, Covered
  <2> QED
    BY <2>7, <2>8, <2>9, <2>11, <2>12
<1> QED
  BY <1>1, <1>2, <1>3 DEF Unfenced

-----------------------------------------------------------------------------
(* Rebalances                                                              *)

(* The group counts the workers it gives up.                               *)
LEMMA RebalancePreserves ==
    ASSUME TransactionsInv, NEW S \in SUBSET Workers, Rebalance(S)
    PROVE  TransactionsInv'
<1> USE DEF TransactionsInv
<1>1. /\ epoch' = epoch /\ open' = open /\ log' = log /\ offset' = offset
      /\ phase' = phase /\ mine' = mine /\ assigned' = assigned
      /\ producer' = producer /\ inTxn' = inTxn /\ count' = count
      /\ taken' = taken /\ finished' = finished /\ sent' = sent
      /\ acked' = acked /\ done' = done
      /\ commit' = commit /\ ending' = ending /\ buffer' = buffer
  BY DEF Rebalance, agentVars, commitVars
<1>2. faults' \in 0..MaxFaults
  <2> DEFINE late == {w \in members \ S : phase[w] # "down"}
  <2>1. late \subseteq Workers
    BY DEF TypeOK
  <2>2. IsFiniteSet(late)
    BY <2>1, TransactionsAssumption, FS_Subset
  <2>3. Cardinality(late) \in Nat
    BY <2>2, FS_CardinalityType
  <2>4. faults' = faults + Cardinality(late) /\ faults + Cardinality(late) <= MaxFaults
    BY DEF Rebalance
  <2>5. faults \in 0..MaxFaults
    BY DEF TypeOK
  <2> HIDE DEF late
  <2> QED
    BY <2>3, <2>4, <2>5, TransactionsAssumption
<1>3. members' \subseteq Workers /\ joining' \in BOOLEAN
  BY DEF Rebalance
<1>4. TypeOK'
  BY <1>1, <1>2, <1>3, Zenon DEF TypeOK
<1>5. FenceInv' /\ StartedInv' /\ OwnerInv' /\ LogInv' /\ TxnInv'
  BY <1>1 DEF FenceInv, StartedInv, OwnerInv, LogInv, TxnInv,
              Unfenced, NothingLeft, Busy
<1>6. CommitInv' /\ OpenInv'
  BY <1>1 DEF CommitInv, OpenInv, Active, Unfenced, Covered
<1> QED
  BY <1>4, <1>5, <1>6

(* The flow stops, agents go on, and what they have acked is forgotten.    *)
LEMMA RevokePreserves ==
    ASSUME TransactionsInv, NEW w \in Workers, Revoke(w)
    PROVE  TransactionsInv'
<1> USE DEF TransactionsInv
<1>1. /\ members' = members /\ joining' = joining /\ epoch' = epoch
      /\ open' = open /\ log' = log /\ offset' = offset /\ mine' = mine
      /\ assigned' = assigned /\ producer' = producer /\ inTxn' = inTxn
      /\ count' = count /\ taken' = taken /\ finished' = finished /\ sent' = sent
      /\ commit' = commit /\ ending' = ending /\ buffer' = buffer
      /\ faults' = faults
  BY DEF Revoke, brokerVars, agentVars
<1>2. /\ phase' \in [Workers -> {"running", "draining", "ended", "joined", "starting", "down"}]
      /\ phase'[w] = IF mine[w] = {} THEN "joined" ELSE "draining"
      /\ \A v \in Workers : v # w => phase'[v] = phase[v]
      /\ phase[w] = "running"
  BY DEF Revoke, TypeOK
<1>3. /\ acked \in PerWorker(SUBSET (1..Events)) /\ done \in PerWorker(0..Events)
      /\ acked' = [acked EXCEPT ![w] =
                      [p \in Partitions |-> IF p \in mine[w] THEN {} ELSE acked[w][p]]]
      /\ done' = [done EXCEPT ![w] =
                      [p \in Partitions |-> IF p \in mine[w] THEN 0 ELSE done[w][p]]]
  BY DEF Revoke, TypeOK
<1>4. /\ acked' \in PerWorker(SUBSET (1..Events))
      /\ \A p \in Partitions : acked'[w][p] = IF p \in mine[w] THEN {} ELSE acked[w][p]
      /\ \A v \in Workers : v # w => acked'[v] = acked[v]
  BY <1>3 DEF PerWorker
<1>5. /\ done' \in PerWorker(0..Events)
      /\ \A p \in Partitions : done'[w][p] = IF p \in mine[w] THEN 0 ELSE done[w][p]
      /\ \A v \in Workers : v # w => done'[v] = done[v]
  BY <1>3, TransactionsAssumption DEF PerWorker
<1>6. TypeOK'
  BY <1>1, <1>2, <1>4, <1>5, Zenon DEF TypeOK
<1>7. FenceInv' /\ LogInv'
  BY <1>1 DEF FenceInv, LogInv
<1>8. StartedInv'
  BY <1>1, <1>2 DEF StartedInv
<1>9. TxnInv'
  BY <1>1, <1>2 DEF TxnInv, Busy
<1>10. CommitInv'
  BY <1>1, <1>2 DEF CommitInv
<1>11. OwnerInv'
  <2> SUFFICES ASSUME ~Leftovers, NEW v \in Workers, NEW q \in Partitions
               PROVE  /\ q \in mine[v] /\ producer[v][q] = 0 => NothingLeft(v, q)'
                      /\ Unfenced(v, q) => done'[v][q] \in {0, offset[q]}
                      /\ Unfenced(v, q) /\ phase'[v] = "running" => done'[v][q] = offset[q]
    BY <1>1 DEF OwnerInv, Unfenced
  <2>1. CASE v = w
    BY <1>1, <1>2, <1>4, <1>5, <2>1 DEF OwnerInv, NothingLeft
  <2>2. CASE v # w
    BY <1>1, <1>2, <1>4, <1>5, <2>2 DEF OwnerInv, NothingLeft
  <2> QED
    BY <2>1, <2>2
<1>12. OpenInv'
  <2>1. \A v \in Workers, q \in Partitions : acked'[v][q] \subseteq acked[v][q]
    BY <1>4
  <2>2. \A v \in Workers, q \in Partitions : Active(v, q)' => Active(v, q)
    BY <1>1, <1>2 DEF Active
  <2> QED
    BY <1>1, <2>1, <2>2 DEF OpenInv, Unfenced, Covered
<1> QED
  BY <1>6, <1>7, <1>8, <1>9, <1>10, <1>11, <1>12

(* The last commit, when agents are through, unless one is under way.      *)
LEMMA EndTransactionsPreserves ==
    ASSUME TransactionsInv, NEW w \in Workers, EndTransactions(w)
    PROVE  TransactionsInv'
<1> USE DEF TransactionsInv
<1>1. /\ members' = members /\ joining' = joining /\ epoch' = epoch
      /\ open' = open /\ log' = log /\ offset' = offset /\ mine' = mine
      /\ assigned' = assigned /\ producer' = producer /\ inTxn' = inTxn
      /\ count' = count /\ taken' = taken /\ finished' = finished /\ sent' = sent
      /\ done' = done /\ buffer' = buffer /\ faults' = faults
  BY DEF EndTransactions, brokerVars, agentVars
<1>2. /\ phase' \in [Workers -> {"running", "draining", "ended", "joined", "starting", "down"}]
      /\ phase'[w] = "ended" /\ \A v \in Workers : v # w => phase'[v] = phase[v]
      /\ phase[w] = "draining"
  BY DEF EndTransactions, TypeOK
<1>3. \A p \in Partitions : ~Busy(w, p)
  BY DEF EndTransactions, TxnInv
<1>4. FenceInv' /\ StartedInv'
  BY <1>1, <1>2 DEF FenceInv, StartedInv
<1>5. TxnInv'
  BY <1>1, <1>2, <1>3 DEF TxnInv, Busy
<1>6. \A v \in Workers, p \in Partitions : Active(v, p)' => Active(v, p)
  BY <1>1, <1>2 DEF Active
<1>7. CASE Commit(w, TRUE)
  <2>1. /\ commit' \in PerWorker(0..Events) /\ acked' \in PerWorker(SUBSET (1..Events))
        /\ ending' \in [Workers -> BOOLEAN]
        /\ \A v \in Workers : v # w => commit'[v] = commit[v] /\ ending'[v] = ending[v]
    BY <1>7, CommitFacts
  <2>2. TypeOK'
    BY <1>1, <1>2, <2>1, Zenon DEF TypeOK
  <2>3. CommitInv'
    BY <1>2, <2>1 DEF CommitInv
  <2>4. OwnerInv' /\ LogInv' /\ OpenInv'
    BY <1>1, <1>2, <1>6, <1>7, CommitOpen
  <2> QED
    BY <1>4, <1>5, <2>2, <2>3, <2>4
<1>8. CASE UNCHANGED <<acked, commit, ending>>
  <2>1. TypeOK'
    BY <1>1, <1>2, <1>8, Zenon DEF TypeOK
  <2>2. CommitInv'
    BY <1>2, <1>8 DEF CommitInv
  <2>3. OwnerInv' /\ LogInv'
    BY <1>1, <1>2, <1>8 DEF OwnerInv, LogInv, Unfenced, NothingLeft
  <2>4. OpenInv'
    BY <1>1, <1>6, <1>8 DEF OpenInv, Unfenced, Covered
  <2> QED
    BY <1>4, <1>5, <2>1, <2>2, <2>3, <2>4
<1> QED
  BY <1>7, <1>8 DEF EndTransactions

(* The last commit is done.                                                *)
LEMMA DrainedPreserves ==
    ASSUME TransactionsInv, NEW w \in Workers, Drained(w)
    PROVE  TransactionsInv'
<1> USE DEF TransactionsInv
<1>1. /\ members' = members /\ joining' = joining /\ epoch' = epoch
      /\ open' = open /\ log' = log /\ offset' = offset /\ mine' = mine
      /\ assigned' = assigned /\ producer' = producer /\ inTxn' = inTxn
      /\ count' = count /\ taken' = taken /\ finished' = finished
      /\ acked' = acked /\ sent' = sent
      /\ done' = done /\ commit' = commit /\ ending' = ending
      /\ buffer' = buffer
  BY DEF Drained, brokerVars, agentVars, commitVars
<1>2. /\ phase' \in [Workers -> {"running", "draining", "ended", "joined", "starting", "down"}]
      /\ phase'[w] = "joined" /\ \A v \in Workers : v # w => phase'[v] = phase[v]
      /\ phase[w] = "ended"
  BY DEF Drained, TypeOK
<1>3. /\ \A p \in Partitions : ~Busy(w, p) /\ commit[w][p] = 0
      /\ faults' \in 0..MaxFaults
  <2>1. \A p \in Partitions : ~Busy(w, p) /\ commit[w][p] = 0
    BY <1>2 DEF Drained, Idle, TxnInv
  <2>2. faults' \in 0..MaxFaults
    BY TransactionsAssumption DEF Drained, TypeOK
  <2> QED
    BY <2>1, <2>2
<1>4. TypeOK'
  BY <1>1, <1>2, <1>3, Zenon DEF TypeOK
<1>5. FenceInv' /\ LogInv'
  BY <1>1 DEF FenceInv, LogInv
<1>6. StartedInv'
  BY <1>1, <1>2 DEF StartedInv
<1>7. TxnInv'
  BY <1>1, <1>2, <1>3 DEF TxnInv, Busy
<1>8. CommitInv'
  BY <1>1, <1>2, <1>3 DEF CommitInv
<1>9. OwnerInv'
  BY <1>1, <1>2 DEF OwnerInv, Unfenced, NothingLeft
<1>10. OpenInv'
  BY <1>1, <1>2 DEF OpenInv, Active, Unfenced, Covered
<1> QED
  BY <1>4, <1>5, <1>6, <1>7, <1>8, <1>9, <1>10

(* Members of the group have stopped before any partition changes hands;   *)
(* workers that the group has given up do not know.                        *)
LEMMA AssignPreserves ==
    ASSUME TransactionsInv, NEW owner \in [Partitions -> members], Assign(owner)
    PROVE  TransactionsInv'
<1> USE DEF TransactionsInv
<1>1. /\ members' = members /\ epoch' = epoch /\ open' = open /\ log' = log
      /\ offset' = offset /\ count' = count /\ taken' = taken /\ finished' = finished
      /\ acked' = acked
      /\ sent' = sent /\ done' = done /\ commit' = commit /\ ending' = ending
      /\ buffer' = buffer /\ faults' = faults
  BY DEF Assign, agentVars, commitVars
<1>2. members \subseteq Workers /\ \A w \in members : phase[w] = "joined"
  BY DEF Assign, TypeOK
<1>3. /\ phase' \in [Workers -> {"running", "draining", "ended", "joined", "starting", "down"}]
      /\ \A w \in Workers : phase'[w] = IF w \in members THEN "starting" ELSE phase[w]
  BY DEF Assign, TypeOK
<1>4. /\ mine' \in [Workers -> SUBSET Partitions]
      /\ \A w \in Workers : w \notin members => mine'[w] = mine[w]
  BY DEF Assign, TypeOK
<1>5. /\ assigned' \in [Workers -> SUBSET Partitions]
      /\ \A w \in Workers : assigned'[w] = IF w \in members THEN mine'[w] ELSE assigned[w]
  BY <1>4 DEF Assign, TypeOK
<1>6. /\ producer' \in PerWorker(Nat)
      /\ \A w \in Workers, p \in Partitions :
            producer'[w][p] = IF w \in members /\ p \notin mine'[w] THEN 0
                              ELSE producer[w][p]
  <2>1. producer' = [w \in Workers |-> [p \in Partitions |->
                      IF w \in members /\ p \notin mine'[w] THEN 0
                      ELSE producer[w][p]]]
    BY DEF Assign
  <2>2. producer \in PerWorker(Nat)
    BY DEF TypeOK
  <2> QED
    BY <2>1, <2>2 DEF PerWorker
<1>7. /\ inTxn' \in PerWorker(BOOLEAN)
      /\ \A w \in Workers, p \in Partitions :
            inTxn'[w][p] <=> inTxn[w][p] /\ producer'[w][p] # 0
  <2>1. inTxn' = [w \in Workers |-> [p \in Partitions |->
                   inTxn[w][p] /\ producer'[w][p] # 0]]
    BY DEF Assign
  <2> QED
    BY <2>1 DEF PerWorker
<1>8. joining' \in BOOLEAN
  BY DEF Assign
<1>9. TypeOK'
  BY <1>1, <1>3, <1>4, <1>5, <1>6, <1>7, <1>8, Zenon DEF TypeOK
<1>10. FenceInv'
  <2>1. epoch \in [Partitions -> Nat]
    BY DEF TypeOK
  <2> QED
    BY <1>1, <1>6, <2>1 DEF FenceInv
<1>11. StartedInv'
  <2> SUFFICES ASSUME NEW w \in Workers
               PROVE  StartedInv!(w)'
    BY DEF StartedInv
  <2>1. CASE w \in members
    BY <1>3, <1>5, <1>6, <2>1 DEF StartedInv
  <2>2. CASE w \notin members
    <3>1. mine[w] \subseteq Partitions
      BY DEF TypeOK
    <3> QED
      BY <1>3, <1>4, <1>5, <1>6, <2>2, <3>1 DEF StartedInv
  <2> QED
    BY <2>1, <2>2
<1>12. TxnInv'
  <2> SUFFICES ASSUME NEW w \in Workers, NEW p \in Partitions
               PROVE  TxnInv!(w, p)'
    BY DEF TxnInv
  <2>1. CASE w \in members
    <3>1. ~Busy(w, p)
      BY <1>2, <2>1 DEF TxnInv
    <3> QED
      BY <1>1, <1>5, <2>1, <3>1 DEF TxnInv, Busy
  <2>2. CASE w \notin members
    <3>1. /\ phase'[w] = phase[w] /\ mine'[w] = mine[w] /\ assigned'[w] = assigned[w]
          /\ producer'[w][p] = producer[w][p]
      BY <1>3, <1>4, <1>5, <1>6, <2>2
    <3>2. p \in mine[w] \ assigned[w] => producer[w][p] # 0
      BY DEF StartedInv
    <3>3. Busy(w, p) => p \in mine[w] \ assigned[w]
      BY DEF TxnInv, StartedInv
    <3>4. inTxn'[w][p] <=> inTxn[w][p] /\ producer[w][p] # 0
      BY <1>7, <3>1
    <3> QED
      BY <1>1, <3>1, <3>2, <3>3, <3>4 DEF TxnInv, Busy
  <2> QED
    BY <2>1, <2>2
<1>13. CommitInv'
  BY <1>1, <1>2, <1>3 DEF CommitInv
<1>14. \A w \in Workers, p \in Partitions :
          /\ Unfenced(w, p)' => Unfenced(w, p)
          /\ Active(w, p)' => Active(w, p)
  <2>1. \A w \in Workers, p \in Partitions : Unfenced(w, p)' => Unfenced(w, p)
    BY <1>1, <1>6 DEF Unfenced
  <2>2. \A w \in Workers, p \in Partitions : Active(w, p)' => Active(w, p)
    BY <1>3, <1>4 DEF Active
  <2> QED
    BY <2>1, <2>2
<1>15. OwnerInv'
  <2> SUFFICES ASSUME ~Leftovers, NEW w \in Workers, NEW p \in Partitions
               PROVE  /\ p \in mine'[w] /\ producer'[w][p] = 0 => NothingLeft(w, p)'
                      /\ Unfenced(w, p)' => done[w][p] \in {0, offset[p]}
                      /\ Unfenced(w, p)' /\ phase'[w] = "running" => done[w][p] = offset[p]
    BY <1>1 DEF OwnerInv
  <2>1. ASSUME p \in mine'[w], producer'[w][p] = 0
        PROVE  NothingLeft(w, p)'
    <3>1. producer[w][p] = 0
      BY <1>6, <2>1
    <3>2. CASE w \in members
      <4>1. owner[p] = w
        BY <2>1, <3>2 DEF Assign
      <4>2. p \notin mine[w]
        BY <1>2, <3>1, <3>2 DEF StartedInv
      <4> QED
        BY <1>1, <4>1, <4>2 DEF Assign, NothingLeft
    <3>3. CASE w \notin members
      BY <1>1, <1>4, <2>1, <3>1, <3>3 DEF OwnerInv, NothingLeft
    <3> QED
      BY <3>2, <3>3
  <2> QED
    BY <1>3, <1>14, <2>1 DEF OwnerInv
<1>16. LogInv'
  BY <1>1 DEF LogInv
<1>17. OpenInv'
  BY <1>1, <1>14 DEF OpenInv, Covered
<1> QED
  BY <1>9, <1>10, <1>11, <1>12, <1>13, <1>15, <1>16, <1>17

(* A producer that is started anew fences off the one before, and with it  *)
(* the worker that owned the partition.                                    *)
LEMMA BeginPreserves ==
    ASSUME TransactionsInv, NEW w \in Workers, NEW p \in Partitions, Begin(w, p)
    PROVE  TransactionsInv'
<1> USE DEF TransactionsInv
<1>1. /\ members' = members /\ joining' = joining /\ log' = log
      /\ offset' = offset /\ phase' = phase /\ mine' = mine /\ count' = count
      /\ taken' = taken /\ finished' = finished /\ sent' = sent
      /\ acked' = acked /\ done' = done
      /\ commit' = commit /\ ending' = ending /\ buffer' = buffer
      /\ faults' = faults
  BY DEF Begin, agentVars, commitVars
<1>2. /\ phase[w] = "starting" /\ p \in assigned[w] /\ p \in mine[w]
      /\ epoch \in [Partitions -> Nat] /\ open \in [Partitions -> Seq(Record)]
      /\ producer \in PerWorker(Nat)
  BY DEF Begin, TypeOK, StartedInv
<1>3. /\ assigned' \in [Workers -> SUBSET Partitions] /\ assigned'[w] = assigned[w] \ {p}
      /\ \A v \in Workers : v # w => assigned'[v] = assigned[v]
  BY DEF Begin, TypeOK
<1>4. /\ inTxn' \in PerWorker(BOOLEAN) /\ inTxn'[w][p]
      /\ \A v \in Workers, q \in Partitions : v # w \/ q # p => inTxn'[v][q] = inTxn[v][q]
  <2>1. inTxn' = [inTxn EXCEPT ![w][p] = TRUE] /\ inTxn \in PerWorker(BOOLEAN)
    BY DEF Begin, TypeOK
  <2> QED
    BY <2>1 DEF PerWorker
<1>5. /\ epoch' \in [Partitions -> Nat] /\ open' \in [Partitions -> Seq(Record)]
      /\ producer' \in PerWorker(Nat) /\ producer'[w][p] # 0
      /\ \A q \in Partitions : q # p => epoch'[q] = epoch[q] /\ open'[q] = open[q]
      /\ \A v \in Workers, q \in Partitions :
            v # w \/ q # p => producer'[v][q] = producer[v][q]
      /\ \/ epoch'[p] = epoch[p] /\ open'[p] = open[p] /\ producer'[w][p] = producer[w][p]
         \/ /\ epoch'[p] = epoch[p] + 1 /\ producer'[w][p] = epoch[p] + 1
            /\ producer[w][p] = 0
  <2>1. CASE producer[w][p] = 0
    <3>1. /\ epoch' = [epoch EXCEPT ![p] = epoch[p] + 1]
          /\ open' = [open EXCEPT ![p] = <<>>]
          /\ producer' = [producer EXCEPT ![w][p] = epoch'[p]]
      BY <2>1 DEF Begin
    <3>2. epoch[p] \in Nat /\ epoch[p] + 1 \in Nat /\ epoch[p] + 1 # 0
      BY <1>2
    <3>3. /\ epoch' \in [Partitions -> Nat] /\ epoch'[p] = epoch[p] + 1
          /\ \A q \in Partitions : q # p => epoch'[q] = epoch[q]
      BY <1>2, <3>1, <3>2
    <3>4. <<>> \in Seq(Record)
      BY EmptySeq
    <3>5. /\ open' \in [Partitions -> Seq(Record)]
          /\ \A q \in Partitions : q # p => open'[q] = open[q]
      BY <1>2, <3>1, <3>4
    <3>6. /\ producer' \in PerWorker(Nat) /\ producer'[w][p] = epoch[p] + 1
          /\ \A v \in Workers, q \in Partitions :
                v # w \/ q # p => producer'[v][q] = producer[v][q]
      BY <1>2, <3>1, <3>2, <3>3 DEF PerWorker
    <3> QED
      BY <2>1, <3>2, <3>3, <3>5, <3>6
  <2>2. CASE producer[w][p] # 0
    BY <1>2, <2>2 DEF Begin
  <2> QED
    BY <2>1, <2>2
<1>6. TypeOK'
  BY <1>1, <1>3, <1>4, <1>5, Zenon DEF TypeOK
<1>7. FenceInv'
  <2>1. \A v \in Workers, q \in Partitions : producer[v][q] \in Nat /\ epoch[q] \in Nat
    BY <1>2 DEF PerWorker
  <2> SUFFICES ASSUME NEW v \in Workers, NEW q \in Partitions, NEW u \in Workers
               PROVE  /\ producer'[v][q] <= epoch'[q]
                      /\ producer'[u][q] = producer'[v][q] /\ producer'[v][q] # 0 => u = v
    BY DEF FenceInv
  <2>2. CASE q # p
    <3>1. epoch'[q] = epoch[q] /\ \A x \in Workers : producer'[x][q] = producer[x][q]
      BY <1>5, <2>2
    <3> QED
      BY <3>1 DEF FenceInv
  <2>3. CASE q = p /\ epoch'[p] = epoch[p]
    <3>1. \A x \in Workers : producer'[x][p] = producer[x][p]
      BY <1>2, <1>5, <2>1, <2>3
    <3> QED
      BY <2>3, <3>1 DEF FenceInv
  <2>4. CASE q = p /\ epoch'[p] = epoch[p] + 1 /\ producer'[w][p] = epoch[p] + 1
    <3>1. \A x \in Workers : x # w => producer'[x][p] = producer[x][p]
      BY <1>5
    <3>2. \A x \in Workers : producer[x][p] <= epoch[p]
      BY DEF FenceInv
    <3> QED
      BY <2>1, <2>4, <3>1, <3>2 DEF FenceInv
  <2> QED
    BY <1>5, <2>2, <2>3, <2>4
<1>8. StartedInv'
  <2> SUFFICES ASSUME NEW v \in Workers
               PROVE  StartedInv!(v)'
    BY DEF StartedInv
  <2>1. mine[v] \subseteq Partitions
    BY DEF TypeOK
  <2>2. CASE v = w
    <3>1. \A q \in mine[w] \ assigned'[w] : producer'[w][q] # 0
      <4> TAKE q \in mine[w] \ assigned'[w]
      <4>1. q = p \/ q \in mine[w] \ assigned[w]
        BY <1>3
      <4>2. q \in Partitions
        BY <2>1, <2>2
      <4> QED
        BY <1>5, <4>1, <4>2 DEF StartedInv
    <3>2. assigned'[w] \subseteq mine[w]
      BY <1>3 DEF StartedInv
    <3>3. \A q \in Partitions \ mine[w] : producer'[w][q] = 0
      <4> TAKE q \in Partitions \ mine[w]
      <4>1. q # p /\ producer[w][q] = 0
        BY <1>2 DEF StartedInv
      <4> QED
        BY <1>5, <4>1
    <3> QED
      BY <1>1, <1>2, <2>2, <3>1, <3>2, <3>3 DEF StartedInv
  <2>3. CASE v # w
    <3>1. assigned'[v] = assigned[v]
      BY <1>3, <2>3
    <3>2. \A q \in Partitions : producer'[v][q] = producer[v][q]
      BY <1>5, <2>3
    <3>3. StartedInv!(v)
      BY DEF StartedInv
    <3> QED
      BY <1>1, <2>1, <3>1, <3>2, <3>3
  <2> QED
    BY <2>2, <2>3
<1>9. TxnInv'
  <2> SUFFICES ASSUME NEW v \in Workers, NEW q \in Partitions
               PROVE  TxnInv!(v, q)'
    BY DEF TxnInv
  <2>1. CASE v = w /\ q = p
    BY <1>1, <1>4, <2>1 DEF TxnInv, Busy
  <2>2. CASE v # w
    BY <1>1, <1>3, <1>4, <2>2 DEF TxnInv, Busy
  <2>3. CASE v = w /\ q # p
    BY <1>1, <1>3, <1>4, <2>3 DEF TxnInv, Busy
  <2> QED
    BY <2>1, <2>2, <2>3
<1>10. CommitInv' /\ LogInv'
  BY <1>1 DEF CommitInv, LogInv, Busy
<1>11. ASSUME NEW v \in Workers, NEW q \in Partitions, Unfenced(v, q)'
       PROVE  \/ Unfenced(v, q) /\ open'[q] = open[q]
              \/ v = w /\ q = p /\ producer[w][p] = 0
  <2>1. /\ producer'[v][q] = epoch'[q] /\ producer'[v][q] # 0
        /\ producer[v][q] <= epoch[q] /\ producer[v][q] \in Nat /\ epoch[q] \in Nat
    BY <1>2, <1>11 DEF Unfenced, FenceInv, PerWorker
  <2>2. CASE q # p
    BY <1>5, <2>1, <2>2 DEF Unfenced
  <2>3. CASE q = p /\ v # w
    <3>1. producer'[v][q] = producer[v][q]
      BY <1>5, <2>3
    <3>2. epoch'[p] # epoch[p] + 1
      <4>1. epoch'[p] \in Nat /\ epoch[p] \in Nat /\ epoch'[p] <= epoch[p]
        BY <2>1, <2>3, <3>1
      <4>2. \A m, n \in Nat : m <= n => m # n + 1
        OBVIOUS
      <4> QED
        BY <4>1, <4>2
    <3> QED
      BY <1>5, <2>1, <2>3, <3>1, <3>2 DEF Unfenced
  <2>4. CASE q = p /\ v = w
    BY <1>5, <2>1, <2>4 DEF Unfenced
  <2> QED
    BY <2>2, <2>3, <2>4
<1>12. ASSUME ~Leftovers, producer[w][p] = 0
       PROVE  NothingLeft(w, p)
  BY <1>2, <1>12 DEF OwnerInv
<1>13. OwnerInv'
  <2> SUFFICES ASSUME ~Leftovers, NEW v \in Workers, NEW q \in Partitions
               PROVE  /\ q \in mine[v] /\ producer'[v][q] = 0 => NothingLeft(v, q)'
                      /\ Unfenced(v, q)' => done[v][q] \in {0, offset[q]}
                      /\ Unfenced(v, q)' /\ phase[v] = "running" => done[v][q] = offset[q]
    BY <1>1 DEF OwnerInv
  <2>1. producer'[v][q] = 0 => producer[v][q] = 0
    BY <1>5
  <2>2. q \in mine[v] /\ producer'[v][q] = 0 => NothingLeft(v, q)'
    BY <1>1, <2>1 DEF OwnerInv, NothingLeft
  <2>3. CASE v = w /\ q = p /\ producer[w][p] = 0
    BY <1>2, <1>12, <2>2, <2>3 DEF NothingLeft
  <2>4. CASE ~(v = w /\ q = p /\ producer[w][p] = 0)
    BY <1>11, <2>2, <2>4 DEF OwnerInv
  <2> QED
    BY <2>3, <2>4
<1>14. OpenInv'
  <2> SUFFICES ASSUME ~Leftovers, NEW v \in Workers, NEW q \in Partitions,
                      Unfenced(v, q)'
               PROVE  /\ Covered(q, commit[v][q])'
                      /\ \A a \in acked[v][q] : Covered(q, a)'
                      /\ Active(v, q)' => Covered(q, finished[v][q])'
                      /\ Active(v, q)' /\ sent[v][q] => Covered(q, taken[v][q])'
    BY <1>1 DEF OpenInv, Covered
  <2>1. CASE Unfenced(v, q) /\ open'[q] = open[q]
    <3>1. \A a : Covered(q, a) => Covered(q, a)'
      BY <1>1, <2>1 DEF Covered
    <3>2. Active(v, q)' <=> Active(v, q)
      BY <1>1 DEF Active
    <3> QED
      BY <1>1, <2>1, <3>1, <3>2 DEF OpenInv
  <2>2. CASE v = w /\ q = p /\ producer[w][p] = 0
    <3>1. commit[v][q] = 0 /\ acked[v][q] = {} /\ ~Active(v, q)'
      BY <1>1, <1>2, <1>12, <2>2 DEF NothingLeft, Active
    <3>2. Covered(q, commit[v][q])'
      <4>1. \A e \in Direct : ~(e <= 0)
        BY DEF Direct
      <4> QED
        BY <1>1, <3>1, <4>1 DEF Covered
    <3> QED
      BY <3>1, <3>2
  <2> QED
    BY <1>11, <2>1, <2>2
<1> QED
  BY <1>6, <1>7, <1>8, <1>9, <1>10, <1>13, <1>14

(* The count a worker recovers is a number.                                *)
LEMMA RecoveredType ==
    ASSUME TypeOK, NEW p \in Partitions
    PROVE  Recovered(p) \in Nat
<1> DEFINE counts == {j \in 1..Len(log[p]) : log[p][j].cnt # 0}
<1>1. log[p] \in Seq(Record) /\ Len(log[p]) \in Nat
      /\ \A j \in 1..Len(log[p]) : log[p][j] \in Record
  BY LenProperties DEF TypeOK
<1>2. counts # {} => Max(counts) \in counts
  BY <1>1, MaxIn
<1>3. \A j \in 1..Len(log[p]) : log[p][j].cnt \in Nat
  BY <1>1 DEF Record
<1>4. Recovered(p) = IF counts = {} THEN 0 ELSE log[p][Max(counts)].cnt
  BY DEF Recovered
<1> HIDE DEF counts
<1>5. CASE counts = {}
  BY <1>4, <1>5
<1>6. CASE counts # {}
  <2>1. Max(counts) \in 1..Len(log[p])
    BY <1>2, <1>6 DEF counts
  <2>2. log[p][Max(counts)].cnt \in Nat
    BY <1>3, <2>1, Zenon
  <2> QED
    BY <1>4, <1>6, <2>2, Zenon
<1> QED
  BY <1>5, <1>6

(* The offset is read after the producers are started: nobody else can     *)
(* commit any more.                                                        *)
LEMMA SeekPreserves ==
    ASSUME TransactionsInv, NEW w \in Workers, Seek(w)
    PROVE  TransactionsInv'
<1> USE DEF TransactionsInv
<1>1. /\ members' = members /\ joining' = joining /\ epoch' = epoch
      /\ open' = open /\ log' = log /\ offset' = offset /\ mine' = mine
      /\ assigned' = assigned /\ producer' = producer /\ inTxn' = inTxn
      /\ sent' = sent /\ acked' = acked /\ commit' = commit /\ ending' = ending
      /\ buffer' = buffer /\ faults' = faults
  BY DEF Seek, brokerVars
<1>2. /\ phase' \in [Workers -> {"running", "draining", "ended", "joined", "starting", "down"}]
      /\ phase'[w] = "running" /\ \A v \in Workers : v # w => phase'[v] = phase[v]
      /\ phase[w] = "starting" /\ assigned[w] = {}
  BY DEF Seek, TypeOK
<1> DEFINE row == [p \in Partitions |-> IF p \in mine[w] THEN offset[p] ELSE 0]
<1>3. row \in [Partitions -> 0..Events] /\ \A p \in mine[w] : row[p] = offset[p]
  BY TransactionsAssumption DEF TypeOK
<1>4. taken' = [taken EXCEPT ![w] = row] /\ taken \in PerWorker(0..Events)
  BY DEF Seek, TypeOK
<1> HIDE DEF row
<1>5. /\ taken' \in PerWorker(0..Events) /\ taken'[w] = row
      /\ \A v \in Workers : v # w => taken'[v] = taken[v]
  BY <1>3, <1>4 DEF PerWorker
<1>6. /\ finished' \in PerWorker(0..Events) /\ finished'[w] = row
      /\ \A v \in Workers : v # w => finished'[v] = finished[v]
  <2>1. finished' = [finished EXCEPT ![w] = taken'[w]] /\ finished \in PerWorker(0..Events)
    BY DEF Seek, TypeOK
  <2> QED
    BY <1>3, <1>5, <2>1 DEF PerWorker
<1>7. /\ done' \in PerWorker(0..Events)
      /\ \A q \in Partitions :
            done'[w][q] = IF q \in mine[w] /\ offset[q] # 0 THEN offset[q] ELSE done[w][q]
      /\ \A v \in Workers : v # w => done'[v] = done[v]
  <2> DEFINE d == [q \in Partitions |->
                     IF q \in mine[w] /\ offset[q] # 0 THEN offset[q] ELSE done[w][q]]
  <2>1. done' = [done EXCEPT ![w] = d] /\ done \in PerWorker(0..Events)
    BY DEF Seek, TypeOK
  <2>2. /\ d \in [Partitions -> 0..Events]
        /\ \A q \in Partitions :
            d[q] = IF q \in mine[w] /\ offset[q] # 0 THEN offset[q] ELSE done[w][q]
    BY <2>1 DEF TypeOK, PerWorker
  <2> HIDE DEF d
  <2> QED
    BY <2>1, <2>2 DEF PerWorker
<1>8. count' \in PerWorker(Nat)
  <2> DEFINE counts == [p \in Partitions |-> IF p \in mine[w] THEN Recovered(p) ELSE 0]
  <2>1. counts \in [Partitions -> Nat]
    BY RecoveredType
  <2>2. count' = [count EXCEPT ![w] = counts] /\ count \in PerWorker(Nat)
    BY DEF Seek, TypeOK
  <2> HIDE DEF counts
  <2> QED
    BY <2>1, <2>2 DEF PerWorker
<1>9. TypeOK'
  <2>1. \A v \in Workers, p \in Partitions : taken'[v][p] - finished'[v][p] \in 0..1
    <3> TAKE v \in Workers, p \in Partitions
    <3>1. taken[v][p] - finished[v][p] \in 0..1
      BY DEF TypeOK
    <3>2. row[p] \in 0..Events
      BY <1>3
    <3>3. CASE v = w
      BY <1>5, <1>6, <3>2, <3>3
    <3>4. CASE v # w
      BY <1>5, <1>6, <3>1, <3>4
    <3> QED
      BY <3>3, <3>4
  <2> QED
    BY <1>1, <1>2, <1>5, <1>6, <1>7, <1>8, <2>1, Zenon DEF TypeOK
<1>10. FenceInv' /\ LogInv'
  BY <1>1 DEF FenceInv, LogInv
<1>11. StartedInv'
  BY <1>1, <1>2 DEF StartedInv
<1>12. TxnInv'
  <2> SUFFICES ASSUME NEW v \in Workers, NEW q \in Partitions
               PROVE  TxnInv!(v, q)'
    BY DEF TxnInv
  <2>1. CASE v # w
    BY <1>1, <1>2, <1>5, <1>6, <2>1 DEF TxnInv, Busy
  <2>2. CASE v = w
    <3>1. row[q] \in 0..Events
      BY <1>3
    <3>2. ~Busy(w, q)'
      BY <1>5, <1>6, <3>1 DEF Busy
    <3> QED
      BY <1>1, <1>2, <2>2, <3>2 DEF TxnInv
  <2> QED
    BY <2>1, <2>2
<1>13. CommitInv'
  BY <1>1, <1>2 DEF CommitInv
<1>14. OwnerInv'
  <2> SUFFICES ASSUME ~Leftovers, NEW v \in Workers, NEW q \in Partitions
               PROVE  /\ q \in mine[v] /\ producer[v][q] = 0 => NothingLeft(v, q)'
                      /\ Unfenced(v, q) => done'[v][q] \in {0, offset[q]}
                      /\ Unfenced(v, q) /\ phase'[v] = "running" => done'[v][q] = offset[q]
    BY <1>1 DEF OwnerInv, Unfenced
  <2>1. CASE v = w
    <3>1. q \in mine[w] => producer[w][q] # 0
      BY <1>2 DEF StartedInv
    <3>2. Unfenced(w, q) => q \in mine[w] /\ done[w][q] \in {0, offset[q]}
      BY DEF StartedInv, OwnerInv, Unfenced
    <3> QED
      BY <1>7, <2>1, <3>1, <3>2
  <2>2. CASE v # w
    BY <1>1, <1>2, <1>7, <2>2 DEF OwnerInv, NothingLeft
  <2> QED
    BY <2>1, <2>2
<1>15. OpenInv'
  <2>1. \A a : \A q \in Partitions : Covered(q, a) => Covered(q, a)'
    BY <1>1 DEF Covered
  <2> SUFFICES ASSUME ~Leftovers, NEW v \in Workers, NEW q \in Partitions,
                      Unfenced(v, q), Active(v, q)'
               PROVE  /\ Covered(q, finished'[v][q])
                      /\ sent[v][q] => Covered(q, taken'[v][q])
    BY <1>1, <2>1 DEF OpenInv, Unfenced, Covered
  <2>2. CASE v = w
    <3>1. q \in mine[w]
      BY <1>1, <2>2 DEF Active
    <3>2. finished'[w][q] = offset[q] /\ taken'[w][q] = offset[q]
      BY <1>3, <1>5, <1>6, <3>1
    <3>3. Covered(q, offset[q])
      BY DEF LogInv, Covered
    <3> QED
      BY <2>2, <3>2, <3>3
  <2>3. CASE v # w
    BY <1>1, <1>2, <1>5, <1>6, <2>3 DEF OpenInv, Active
  <2> QED
    BY <2>2, <2>3
<1> QED
  BY <1>9, <1>10, <1>11, <1>12, <1>13, <1>14, <1>15

-----------------------------------------------------------------------------
(* The theorems                                                            *)

(* Workers that have just been started.                                    *)
LEMMA InitTransactionsInv ==
    ASSUME Init
    PROVE  TransactionsInv
<1>1. \A w \in Workers : mine[w] = {} /\ assigned[w] = {} /\ phase[w] = "running"
  BY DEF Init
<1>2. \A w \in Workers, p \in Partitions :
         /\ producer[w][p] = 0 /\ taken[w][p] = 0 /\ finished[w][p] = 0
         /\ commit[w][p] = 0 /\ epoch[p] = 0
  BY DEF Init, All
<1>3. \A p \in Partitions : offset[p] = 0
  BY DEF Init
<1>4. TypeOK
  <2>1. /\ producer \in PerWorker(Nat) /\ count \in PerWorker(Nat)
        /\ taken \in PerWorker(0..Events) /\ finished \in PerWorker(0..Events)
        /\ done \in PerWorker(0..Events) /\ commit \in PerWorker(0..Events)
    BY TransactionsAssumption DEF Init, All, PerWorker
  <2>2. /\ inTxn \in PerWorker(BOOLEAN) /\ sent \in PerWorker(BOOLEAN)
        /\ acked \in PerWorker(SUBSET (1..Events))
        /\ ending \in [Workers -> BOOLEAN] /\ joining \in BOOLEAN
    BY DEF Init, All, PerWorker
  <2>3. <<>> \in Seq(Record) /\ <<>> \in Seq(Partitions \X Record)
    BY EmptySeq
  <2>4. /\ open \in [Partitions -> Seq(Record)] /\ log \in [Partitions -> Seq(Record)]
        /\ buffer \in [Workers -> Seq(Partitions \X Record)]
    BY <2>3 DEF Init
  <2>5. /\ members \subseteq Workers /\ epoch \in [Partitions -> Nat]
        /\ offset \in [Partitions -> 0..Events] /\ faults \in 0..MaxFaults
        /\ mine \in [Workers -> SUBSET Partitions]
        /\ assigned \in [Workers -> SUBSET Partitions]
    BY TransactionsAssumption DEF Init
  <2>6. phase \in [Workers -> {"running", "draining", "ended", "joined", "starting", "down"}]
    BY DEF Init
  <2>7. \A w \in Workers, p \in Partitions : taken[w][p] - finished[w][p] \in 0..1
    BY <1>2
  <2> QED
    BY <2>1, <2>2, <2>4, <2>5, <2>6, <2>7, Zenon DEF TypeOK
<1>5. FenceInv /\ StartedInv
  BY <1>1, <1>2 DEF FenceInv, StartedInv
<1>6. TxnInv /\ CommitInv
  BY <1>1, <1>2 DEF TxnInv, CommitInv, Busy
<1>7. OwnerInv /\ OpenInv
  BY <1>1, <1>2 DEF OwnerInv, OpenInv, Unfenced
<1>8. LogInv
  BY <1>3 DEF LogInv, Direct
<1> QED
  BY <1>4, <1>5, <1>6, <1>7, <1>8 DEF TransactionsInv

(* Every step preserves the invariant.                                     *)
LEMMA NextTransactionsInv ==
    ASSUME TransactionsInv, [Next]_vars
    PROVE  TransactionsInv'
<1>1. ASSUME NEW w \in Workers, Work(w)
      PROVE  TransactionsInv'
  BY <1>1, TakePreserves, SendPreserves, CountPreserves, AckPreserves,
     HandlePendingPreserves DEF Work
<1>2. ASSUME NEW w \in Workers, Committing(w)
      PROVE  TransactionsInv'
  BY <1>2, CommitStartPreserves, CommitTransactionsPreserves DEF Committing
<1>3. ASSUME NEW w \in Workers, Rebalancing(w)
      PROVE  TransactionsInv'
  BY <1>3, RevokePreserves, EndTransactionsPreserves, DrainedPreserves,
     SeekPreserves, BeginPreserves DEF Rebalancing
<1>4. ASSUME NEW w \in Workers, Crash(w) \/ Restart(w)
      PROVE  TransactionsInv'
  BY <1>4, CrashPreserves, RestartPreserves
<1>5. ASSUME NEW S \in SUBSET Workers, Rebalance(S)
      PROVE  TransactionsInv'
  BY <1>5, RebalancePreserves
<1>6. ASSUME NEW owner \in [Partitions -> members], Assign(owner)
      PROVE  TransactionsInv'
  BY <1>6, AssignPreserves
<1>7. CASE UNCHANGED vars
  <2>1. /\ members' = members /\ joining' = joining /\ epoch' = epoch
        /\ open' = open /\ log' = log /\ offset' = offset /\ phase' = phase
        /\ mine' = mine /\ assigned' = assigned /\ producer' = producer
        /\ inTxn' = inTxn /\ count' = count /\ taken' = taken /\ finished' = finished
      /\ acked' = acked
        /\ sent' = sent /\ done' = done /\ commit' = commit /\ ending' = ending
        /\ buffer' = buffer /\ faults' = faults
    BY <1>7 DEF vars, brokerVars, agentVars, commitVars
  <2>2. TypeOK'
    BY <2>1, Zenon DEF TransactionsInv, TypeOK
  <2>3. FenceInv' /\ StartedInv' /\ TxnInv' /\ CommitInv'
    BY <2>1 DEF TransactionsInv, FenceInv, StartedInv, TxnInv, CommitInv, Busy
  <2>4. OwnerInv' /\ LogInv' /\ OpenInv'
    BY <2>1 DEF TransactionsInv, OwnerInv, LogInv, OpenInv, Active,
              Unfenced, NothingLeft, Covered
  <2> QED
    BY <2>2, <2>3, <2>4 DEF TransactionsInv
<1> QED
  BY <1>1, <1>2, <1>3, <1>4, <1>5, <1>6, <1>7 DEF Next

(* The invariant holds whatever workers, group and brokers do.             *)
THEOREM InvariantCorrect == Spec => []TransactionsInv
<1>1. Init => TransactionsInv
  BY InitTransactionsInv
<1>2. TransactionsInv /\ [Next]_vars => TransactionsInv'
  BY NextTransactionsInv
<1> QED
  BY <1>1, <1>2, PTL DEF Spec

(* An agent never has more than one event of a partition, faults stay in   *)
(* their bound, and all else has its type.                                 *)
THEOREM TypeCorrect == Spec => []TypeOK
<1>1. TransactionsInv => TypeOK
  BY DEF TransactionsInv
<1> QED
  BY <1>1, InvariantCorrect, PTL

(* Nobody commits behind the back of a worker that has the partition and   *)
(* is not fenced, if none is given a partition it has something left of.   *)
THEOREM OwnerCorrect ==
    ASSUME ~Leftovers
    PROVE  Spec => []OwnerKnows
<1>1. TransactionsInv => OwnerKnows
  <2> SUFFICES ASSUME TransactionsInv, NEW w \in Workers, NEW p \in mine[w],
                      phase[w] = "running", producer[w][p] = epoch[p]
               PROVE  done[w][p] = offset[p]
    BY DEF OwnerKnows
  <2>1. p \in Partitions
    BY DEF TransactionsInv, TypeOK
  <2>2. producer[w][p] # 0
    BY DEF TransactionsInv, StartedInv
  <2> QED
    BY <2>1, <2>2 DEF TransactionsInv, OwnerInv, Unfenced
<1> QED
  BY <1>1, InvariantCorrect, PTL

(* A step that is not a commit changes neither offsets nor logs.           *)
LEMMA OnlyCommits ==
    ASSUME TransactionsInv, [Next]_vars
    PROVE  \/ UNCHANGED <<offset, log>>
           \/ \E w \in Workers, p \in Partitions :
                CommitTransactions(w, p) /\ Unfenced(w, p)
<1>1. ASSUME NEW w \in Workers, Work(w)
      PROVE  UNCHANGED <<offset, log>>
  BY <1>1 DEF Work, Take, Send, Count, Ack, HandlePending, brokerVars
<1>2. ASSUME NEW w \in Workers, Committing(w)
      PROVE  \/ UNCHANGED <<offset, log>>
             \/ \E p \in Partitions :
                  CommitTransactions(w, p) /\ Unfenced(w, p)
  <2>1. ASSUME CommitStart(w)
        PROVE  UNCHANGED <<offset, log>>
    BY <2>1 DEF CommitStart, brokerVars
  <2>2. ASSUME NEW p \in Partitions, CommitTransactions(w, p), ~Unfenced(w, p)
        PROVE  UNCHANGED <<offset, log>>
    BY <2>2 DEF CommitTransactions, Unfenced
  <2> QED
    BY <1>2, <2>1, <2>2 DEF Committing
<1>3. ASSUME NEW w \in Workers, Rebalancing(w)
      PROVE  UNCHANGED <<offset, log>>
  BY <1>3 DEF Rebalancing, Revoke, EndTransactions, Drained, Seek, Begin, brokerVars
<1>4. ASSUME NEW w \in Workers, Crash(w) \/ Restart(w)
      PROVE  UNCHANGED <<offset, log>>
  BY <1>4 DEF Crash, Restart, brokerVars
<1>5. ASSUME NEW S \in SUBSET Workers, Rebalance(S)
      PROVE  UNCHANGED <<offset, log>>
  BY <1>5 DEF Rebalance
<1>6. ASSUME NEW owner \in [Partitions -> members], Assign(owner)
      PROVE  UNCHANGED <<offset, log>>
  BY <1>6 DEF Assign
<1>7. CASE UNCHANGED vars
  BY <1>7 DEF vars, brokerVars
<1> QED
  BY <1>1, <1>2, <1>3, <1>4, <1>5, <1>6, <1>7 DEF Next

(* The workers together implement AtomicCommit: to readers of committed    *)
(* records, the offset of a partition moves in one step with records, and  *)
(* never past an event whose record is missing, however many workers       *)
(* believe to have the partition and whatever is left in an open           *)
(* transaction; if none is given a partition it has something left of.     *)
THEOREM AtomicCorrect ==
    ASSUME ~Leftovers
    PROVE  Spec => CommitsAtomically
<1>1. Init => Abstract!Init
  <2> SUFFICES ASSUME Init
               PROVE  Abstract!Init
    OBVIOUS
  <2>1. offset = [p \in Partitions |-> 0] /\ \A p \in Partitions : log[p] = <<>>
    BY DEF Init
  <2>2. Evs(<<>>) = {}
    BY DEF Evs, Range
  <2>3. written = [p \in Partitions |-> {}]
    BY <2>1, <2>2 DEF written
  <2> QED
    BY <2>1, <2>3 DEF Abstract!Init
<1>2. TransactionsInv /\ [Next]_vars => [Abstract!Next]_(Abstract!vars)
  <2> SUFFICES ASSUME TransactionsInv, [Next]_vars
               PROVE  [Abstract!Next]_(Abstract!vars)
    OBVIOUS
  <2>1. CASE UNCHANGED <<offset, log>>
    BY <2>1 DEF Abstract!vars, written
  <2>2. ASSUME NEW w \in Workers, NEW p \in Partitions,
               CommitTransactions(w, p), Unfenced(w, p)
        PROVE  Abstract!Commit(p, commit[w][p]) /\ commit[w][p] \in 1..Events
    <3>1. /\ offset' = [offset EXCEPT ![p] = commit[w][p]]
          /\ log' = [log EXCEPT ![p] = log[p] \o open[p]]
          /\ \A e \in Direct : e <= commit[w][p] => e \in Evs(log'[p])
      BY <2>2, CommittedPreserves
    <3>2. /\ log \in [Partitions -> Seq(Record)] /\ open \in [Partitions -> Seq(Record)]
          /\ commit[w][p] \in 0..Events /\ offset[p] \in 0..Events
      BY DEF TransactionsInv, TypeOK, PerWorker
    <3>3. /\ Evs(log[p]) \subseteq Evs(log'[p])
          /\ \A q \in Partitions : q # p => log'[q] = log[q]
      <4>1. Evs(log[p] \o open[p]) = Evs(log[p]) \cup Evs(open[p])
        BY <3>2, EvsConcat
      <4> QED
        BY <3>1, <3>2, <4>1
    <3>4. commit[w][p] \in 1..Events
      BY <2>2, <3>2, TransactionsAssumption DEF CommitTransactions
    <3>5. /\ written' \in [Partitions -> SUBSET Direct]
          /\ \A q \in Partitions \ {p} : written'[q] = written[q]
      BY <3>3 DEF written
    <3>6. written[p] \cup (Direct \cap 1..commit[w][p]) \subseteq written'[p]
      <4>1. \A e \in Direct \cap 1..commit[w][p] : e \in Evs(log'[p])
        BY <3>1, <3>4
      <4> QED
        BY <3>3, <4>1 DEF written
    <3> QED
      BY <3>1, <3>4, <3>5, <3>6 DEF Abstract!Commit
  <2> QED
    BY <2>1, <2>2, OnlyCommits DEF Abstract!Next
<1> QED
  BY <1>1, <1>2, InvariantCorrect, PTL DEF Spec, CommitsAtomically, Abstract!Spec

=============================================================================

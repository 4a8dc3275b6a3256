----------------------------- MODULE TableProofs -----------------------------
(***************************************************************************)
(* Theorems about Table and Windows for any window, number of events,      *)
(* crashes and failed sends, and size of the batches of a recovery.        *)
(***************************************************************************)
EXTENDS Table, SequenceTheorems, FiniteSetTheorems, WellFoundedInduction, TLAPS

-----------------------------------------------------------------------------
(* The inductive invariant                                                 *)

(* What a commit under way commits has been processed, and a table that is *)
(* recovered has nothing on its way to the changelog.                      *)
CommitInv ==
    /\ target <= next
    /\ phase = "recovering" => /\ pending = <<>> /\ sending = <<>> /\ accum = <<>>
                               /\ unacked = 0
                               /\ driver = "rocksdb" => persisted = cursor

(* Values are numbers of events the source topic has.                      *)
Written == [key : Keys, val : 0..Len(source)]

ValueInv ==
    /\ store \in [Keys -> 0..Len(source)]
    /\ pending \in Seq(Written) /\ sending \in Seq(Written)
    /\ accum \in Seq(Written) /\ changelog \in Seq(Written)

(* What the changelog, and the records on their way to it, make of an      *)
(* entry.                                                                  *)
LogValue(k) ==
    LastVal(pending, k, LastVal(sending, k, LastVal(accum, k, LastVal(changelog, k, 0))))

(* The records recovery has not applied yet.                               *)
Rest == SubSeq(changelog, cursor + 1, Len(changelog))

(* While the table is recovered, the records that are left make it what    *)
(* the changelog stands for.                                               *)
RecoveryInv ==
    phase = "recovering" =>
        \A k \in Keys \ unlogged : LastVal(Rest, k, store[k]) = LastVal(changelog, k, 0)

(* A running table is what its changelog and the records on their way make *)
(* of it.                                                                  *)
RunningInv ==
    phase = "running" => \A k \in Keys \ unlogged : store[k] = LogValue(k)

LogInv == RecoveryInv /\ RunningInv

-----------------------------------------------------------------------------
(* Windows                                                                 *)

(* Python's floor division.                                                *)
LEMMA FloorDivision ==
    ASSUME NEW x \in Int, NEW d \in Nat \ {0}
    PROVE  x \div d \in Int /\ d * (x \div d) \in Int /\ d * (x \div d) <= x
OBVIOUS

(* Windows start at whole seconds, not after the timestamp.                *)
LEMMA RangesType ==
    ASSUME NEW ts \in Int
    PROVE  StartInitialRange(ts) \in Int /\ Ranges(ts) \subseteq StartInitialRange(ts)..ts
<1>1. size \in Int /\ step \in Nat \ {0}
  BY WindowAssumption
<1>2. ts \div step \in Int /\ (ts \div step) * step \in Int
  BY <1>1, FloorDivision
<1> QED
  BY <1>1, <1>2 DEF StartInitialRange, Ranges

(* Windows are known by whole numbers.                                     *)
LEMMA KeysType == Keys \subseteq Int
BY RangesType, TableAssumption DEF Keys

(* The current window does not start in the future.                        *)
LEMMA CurrentStarted ==
    ASSUME NEW ts \in Int
    PROVE  CurrentStart(ts) \in Int /\ CurrentStart(ts) <= ts
<1> DEFINE start == StartInitialRange(ts)
<1>1. start \in Int /\ step \in Nat \ {0}
  BY RangesType, WindowAssumption
<1>2. CurrentStart(ts) = start + step * ((ts - start) \div step)
  BY DEF CurrentStart
<1> HIDE DEF start
<1>3. ts - start \in Int
  BY <1>1
<1>4. step * ((ts - start) \div step) \in Int /\ step * ((ts - start) \div step) <= ts - start
  BY <1>1, <1>3, FloorDivision
<1> DEFINE q == step * ((ts - start) \div step)
<1>5. q \in Int /\ q <= ts - start /\ CurrentStart(ts) = start + q
  BY <1>2, <1>4
<1> HIDE DEF q
<1> QED
  BY <1>1, <1>5

(* A window is stale only when it has been over for the time it is kept.   *)
LEMMA StaleOver ==
    ASSUME NEW k \in Int, NEW t \in Int, Stale(k, t)
    PROVE  k + size <= t - expires
<1>1. size \in Int /\ expires \in Int /\ t - expires \in Int
  BY WindowAssumption
<1>2. CurrentStart(t - expires) \in Int /\ CurrentStart(t - expires) <= t - expires
  BY <1>1, CurrentStarted
<1>3. 10 * (k + size) - 1 <= 10 * CurrentStart(t - expires)
  BY DEF Stale, RangeEnd
<1> QED
  BY <1>1, <1>2, <1>3

-----------------------------------------------------------------------------
(* Order                                                                   *)

(* A set of natural numbers that is not empty has a least element.         *)
LEMMA LeastNat ==
    ASSUME NEW D \in SUBSET Nat, D # {}
    PROVE  \E d \in D : \A y \in D : d <= y
<1>1. \A x, y \in Nat : x < y => <<x, y>> \in OpToRel(<, Nat)
  BY Zenon DEF OpToRel
<1>2. PICK d \in D : \A y \in D : ~ (<<y, d>> \in OpToRel(<, Nat))
  BY WFMin, NatLessThanWellFounded
<1>3. \A y \in D : ~ (y < d)
  BY <1>1, <1>2, Zenon
<1> QED
  BY <1>3

(* A bounded set of positions that is not empty has a greatest one.        *)
LEMMA MaxIn ==
    ASSUME NEW n \in Nat, NEW S \in SUBSET (1..n), S # {}
    PROVE  Max(S) \in S /\ \A j \in S : j <= Max(S)
<1> DEFINE D == {n - j : j \in S}
<1>1. D \in SUBSET Nat /\ D # {}
  <2>1. \A j \in S : n - j \in Nat
    <3> TAKE j \in S
    <3>1. j \in 1..n
      OBVIOUS
    <3> QED
      BY <3>1
  <2>2. PICK j \in S : TRUE
    OBVIOUS
  <2>3. n - j \in D
    OBVIOUS
  <2> QED
    BY <2>1, <2>3
<1>2. PICK d \in D : \A y \in D : d <= y
  <2> HIDE DEF D
  <2> QED
    BY <1>1, LeastNat
<1>3. PICK m \in S : d = n - m
  OBVIOUS
<1>4. \A j \in S : m >= j
  <2> TAKE j \in S
  <2>1. n - m <= n - j /\ m \in 1..n /\ j \in 1..n
    BY <1>2, <1>3
  <2> QED
    BY <2>1
<1>5. Max(S) \in S /\ \A j \in S : Max(S) >= j
  BY <1>4, Zenon DEF Max
<1>6. Max(S) \in Int /\ \A j \in S : j \in Int
  <2>1. \A j \in S : j \in 1..n
    OBVIOUS
  <2>2. \A j \in 1..n : j \in Int
    OBVIOUS
  <2> QED
    BY <1>5, <2>1, <2>2, Zenon
<1> QED
  BY <1>5, <1>6

(* The ascending enumerations of a set, of n elements.                     *)
Orders(keys, n) ==
    {ks \in [1..n -> keys] : /\ \A i, j \in 1..n : i < j => ks[i] < ks[j]
                             /\ \A k \in keys : \E i \in 1..n : ks[i] = k}

(* A bounded set of whole numbers can be put in ascending order.           *)
LEMMA OrderExists ==
    ASSUME NEW a \in Int, NEW b \in Int, NEW T \in SUBSET (a..b)
    PROVE  \E n \in Nat : Orders(T, n) # {}
<1> DEFINE Bad == {w \in Nat : \E S \in SUBSET (a..(a + w - 1)) :
                                  \A n \in Nat : Orders(S, n) = {}}
<1>1. Bad = {}
  <2> SUFFICES ASSUME Bad # {}
               PROVE  FALSE
    OBVIOUS
  <2>1. PICK w \in Bad : \A y \in Bad : w <= y
    <3>1. Bad \in SUBSET Nat
      OBVIOUS
    <3> HIDE DEF Bad
    <3> QED
      BY <3>1, LeastNat
  <2>2. PICK S \in SUBSET (a..(a + w - 1)) : \A n \in Nat : Orders(S, n) = {}
    OBVIOUS
  <2>3. w \in Nat
    OBVIOUS
  <2>4. CASE w = 0
    <3>1. S = {}
      BY <2>4
    <3>2. [i \in 1..0 |-> 0] \in Orders(S, 0)
      BY <3>1 DEF Orders
    <3> QED
      BY <2>2, <3>2
  <2>5. CASE w # 0
    <3> DEFINE top == a + w - 1
               R == S \ {top}
    <3>1. w - 1 \in Nat /\ w - 1 \notin Bad
      <4>1. w - 1 \in Nat /\ ~(w <= w - 1)
        BY <2>3, <2>5
      <4> HIDE DEF Bad
      <4> QED
        BY <2>1, <4>1
    <3>2. R \in SUBSET (a..(a + (w - 1) - 1))
      BY <2>3
    <3>3. PICK n \in Nat : Orders(R, n) # {}
      BY <3>1, <3>2
    <3>4. PICK ks : ks \in Orders(R, n)
      BY <3>3
    <3>5. /\ ks \in [1..n -> R]
          /\ \A i, j \in 1..n : i < j => ks[i] < ks[j]
          /\ \A k \in R : \E i \in 1..n : ks[i] = k
      BY <3>4 DEF Orders
    <3>6. CASE top \notin S
      <4>1. R = S
        BY <3>6
      <4> QED
        BY <2>2, <3>3, <4>1
    <3>7. CASE top \in S
      <4> DEFINE ls == [i \in 1..(n + 1) |-> IF i = n + 1 THEN top ELSE ks[i]]
      <4>1. \A i \in 1..n : ks[i] \in R /\ ks[i] \in Int /\ ks[i] < top
        <5> TAKE i \in 1..n
        <5>1. ks[i] \in R
          BY <3>5
        <5>2. ks[i] \in a..(a + (w - 1) - 1)
          BY <3>2, <5>1, Zenon
        <5> QED
          BY <2>3, <5>1, <5>2
      <4>2. \A i \in 1..(n + 1) : i # n + 1 => i \in 1..n
        OBVIOUS
      <4>3. ls \in [1..(n + 1) -> S]
        BY <3>7, <4>1, <4>2
      <4>4. ASSUME NEW i \in 1..(n + 1), NEW j \in 1..(n + 1), i < j
            PROVE  ls[i] < ls[j]
        <5>1. i \in 1..n /\ ls[i] = ks[i]
          BY <4>4
        <5>2. CASE j = n + 1
          BY <4>1, <5>1, <5>2
        <5>3. CASE j # n + 1
          BY <3>5, <4>2, <4>4, <5>1, <5>3
        <5> QED
          BY <5>2, <5>3
      <4>5. ASSUME NEW k \in S
            PROVE  \E i \in 1..(n + 1) : ls[i] = k
        <5>1. CASE k = top
          <6>1. n + 1 \in 1..(n + 1) /\ ls[n + 1] = k
            BY <5>1
          <6> QED
            BY <6>1
        <5>2. CASE k # top
          <6>1. PICK i \in 1..n : ks[i] = k
            BY <3>5, <5>2
          <6>2. i \in 1..(n + 1) /\ i # n + 1
            OBVIOUS
          <6> QED
            BY <6>1, <6>2
        <5> QED
          BY <5>1, <5>2
      <4>6. ls \in Orders(S, n + 1)
        <5> HIDE DEF ls
        <5> QED
          BY <4>3, <4>4, <4>5 DEF Orders
      <4> QED
        BY <2>2, <4>6
    <3> QED
      BY <3>6, <3>7
  <2> QED
    BY <2>4, <2>5
<1>2. CASE T = {}
  <2>1. [i \in 1..0 |-> 0] \in Orders(T, 0)
    BY <1>2 DEF Orders
  <2> QED
    BY <2>1
<1>3. CASE T # {}
  <2>1. a <= b
    <3>1. PICK x \in T : TRUE
      BY <1>3
    <3>2. x \in a..b
      OBVIOUS
    <3> QED
      BY <3>2
  <2>2. b - a + 1 \in Nat /\ a + (b - a + 1) - 1 = b
    BY <2>1
  <2>3. b - a + 1 \notin Bad
    BY <1>1
  <2> QED
    BY <2>2, <2>3
<1> QED
  BY <1>2, <1>3

(* A set of whole numbers between two of them.                             *)
Bounded(T) == \E a, b \in Int : T \subseteq a..b

(* Each window is once in the order window.ranges gives.                   *)
LEMMA AscendingOrder ==
    ASSUME NEW T, Bounded(T)
    PROVE  /\ Cardinality(T) \in Nat
           /\ Ascending(T) \in [1..Cardinality(T) -> T]
           /\ \A k \in T : \E i \in 1..Cardinality(T) : Ascending(T)[i] = k
<1>a. PICK a \in Int, b \in Int : T \subseteq a..b
  BY DEF Bounded
<1>1. PICK n \in Nat : Orders(T, n) # {}
  BY <1>a, OrderExists
<1>2. PICK ks : ks \in Orders(T, n)
  BY <1>1
<1>3. /\ ks \in [1..n -> T]
      /\ \A i, j \in 1..n : i < j => ks[i] < ks[j]
      /\ \A k \in T : \E i \in 1..n : ks[i] = k
  BY <1>2 DEF Orders
<1>0. \A x \in T : x \in Int
  BY <1>a
<1>4. \A i \in 1..n : ks[i] \in Int
  BY <1>0, <1>3
<1>5. \A i, j \in 1..n : ks[i] = ks[j] => i = j
  <2> TAKE i, j \in 1..n
  <2>1. i < j \/ j < i \/ i = j
    OBVIOUS
  <2> QED
    BY <1>3, <1>4, <2>1
<1>6. ks \in Bijection(1..n, T)
  BY <1>3, <1>5 DEF Bijection, Injection, IsInjective, Surjection
<1>7. IsFiniteSet(1..n) /\ Cardinality(1..n) = n
  BY FS_Interval
<1>8. IsFiniteSet(T) /\ Cardinality(T) = n
  BY <1>6, <1>7, FS_Bijection DEF ExistsBijection
<1>9. /\ Ascending(T) \in [1..n -> T]
      /\ \A i, j \in 1..n : i < j => Ascending(T)[i] < Ascending(T)[j]
  BY <1>3, <1>8 DEF Ascending
<1>10. \A i, j \in 1..n : Ascending(T)[i] = Ascending(T)[j] => i = j
  <2> TAKE i, j \in 1..n
  <2>1. i < j \/ j < i \/ i = j
    OBVIOUS
  <2>2. Ascending(T)[i] \in Int /\ Ascending(T)[j] \in Int
    BY <1>0, <1>9
  <2> QED
    BY <1>9, <2>1, <2>2
<1>11. Ascending(T) \in Injection(1..n, T)
  BY <1>9, <1>10 DEF Injection, IsInjective
<1>12. Ascending(T) \in Surjection(1..n, T)
  BY <1>7, <1>8, <1>11, FS_Injection
<1> QED
  BY <1>8, <1>9, <1>12 DEF Surjection

-----------------------------------------------------------------------------
(* The last record of a key                                                *)

(* There is a record of the key, and its last one is at j.                 *)
Has(s, k) == \E j \in 1..Len(s) : s[j].key = k
LastAt(s, k, j) == s[j].key = k /\ \A i \in 1..Len(s) : i > j => s[i].key # k

(* Without a record of the key, the entry stays as it was.                 *)
LEMMA LastValNone ==
    ASSUME NEW S, NEW s \in Seq(S), NEW k, NEW old, ~Has(s, k)
    PROVE  LastVal(s, k, old) = old
<1>1. {j \in 1..Len(s) : s[j].key = k} = {}
  BY DEF Has
<1> QED
  BY <1>1 DEF LastVal

(* The last record of the key is the value of the entry.                   *)
LEMMA LastValAt ==
    ASSUME NEW S, NEW s \in Seq(S), NEW k, NEW old, NEW j \in 1..Len(s), LastAt(s, k, j)
    PROVE  LastVal(s, k, old) = s[j].val
<1> DEFINE at == {i \in 1..Len(s) : s[i].key = k}
<1>1. at \in SUBSET (1..Len(s)) /\ j \in at /\ Len(s) \in Nat
  BY DEF LastAt
<1>2. Max(at) \in at /\ \A i \in at : i <= Max(at)
  <2> HIDE DEF at
  <2> QED
    BY <1>1, MaxIn
<1>3. Max(at) = j
  <2>1. Max(at) \in 1..Len(s) /\ s[Max(at)].key = k /\ j <= Max(at)
    BY <1>1, <1>2
  <2>2. ~(Max(at) > j)
    BY <2>1, Zenon DEF LastAt
  <2> HIDE DEF at
  <2> QED
    BY <2>1, <2>2
<1>4. LastVal(s, k, old) = IF at = {} THEN old ELSE s[Max(at)].val
  BY DEF LastVal
<1> HIDE DEF at
<1> QED
  BY <1>1, <1>3, <1>4

(* A key with a record has a last one.                                     *)
LEMMA LastExists ==
    ASSUME NEW S, NEW s \in Seq(S), NEW k, Has(s, k)
    PROVE  \E j \in 1..Len(s) : LastAt(s, k, j)
<1> DEFINE at == {i \in 1..Len(s) : s[i].key = k}
<1>1. at \in SUBSET (1..Len(s)) /\ at # {} /\ Len(s) \in Nat
  BY DEF Has
<1>2. Max(at) \in at /\ \A i \in at : i <= Max(at)
  <2> HIDE DEF at
  <2> QED
    BY <1>1, MaxIn
<1>3. Max(at) \in 1..Len(s) /\ s[Max(at)].key = k
  BY <1>2
<1>4. \A i \in 1..Len(s) : i > Max(at) => s[i].key # k
  <2> TAKE i \in 1..Len(s)
  <2>1. i \in at => i <= Max(at)
    BY <1>2, Zenon
  <2>2. i \in Int /\ Max(at) \in Int
    BY <1>3
  <2>3. i > Max(at) => i \notin at
    <3> HIDE DEF at
    <3> QED
      BY <2>1, <2>2
  <2> QED
    BY <2>3
<1> QED
  BY <1>3, <1>4 DEF LastAt

(* Records are applied one after the other.                                *)
LEMMA LastValConcat ==
    ASSUME NEW S, NEW s \in Seq(S), NEW t \in Seq(S), NEW k, NEW old
    PROVE  LastVal(s \o t, k, old) = LastVal(t, k, LastVal(s, k, old))
<1> DEFINE u == s \o t
<1>1. u \in Seq(S) /\ Len(u) = Len(s) + Len(t)
  BY ConcatProperties
<1>2. Len(s) \in Nat /\ Len(t) \in Nat
  OBVIOUS
<1>3. \A i \in 1..Len(s) : u[i] = s[i] /\ i \in 1..Len(u)
  BY <1>1, <1>2, ConcatProperties
<1>4. \A i \in 1..Len(t) : u[Len(s) + i] = t[i] /\ Len(s) + i \in 1..Len(u)
  BY <1>1, <1>2, ConcatProperties
<1>5. \A i \in 1..Len(u) : i > Len(s) => i - Len(s) \in 1..Len(t) /\ u[i] = t[i - Len(s)]
  <2> TAKE i \in 1..Len(u)
  <2>1. i > Len(s) => i - Len(s) \in 1..Len(t) /\ Len(s) + (i - Len(s)) = i
    BY <1>1, <1>2
  <2> QED
    BY <1>4, <2>1
<1> HIDE DEF u
<1>6. CASE Has(t, k)
  <2>1. PICK j \in 1..Len(t) : LastAt(t, k, j)
    BY <1>6, LastExists
  <2>2. LastVal(t, k, LastVal(s, k, old)) = t[j].val
    BY <2>1, LastValAt
  <2>3. LastAt(u, k, Len(s) + j)
    <3>1. u[Len(s) + j].key = k
      BY <1>4, <2>1 DEF LastAt
    <3>2. ASSUME NEW i \in 1..Len(u), i > Len(s) + j
          PROVE  u[i].key # k
      <4>1. i > Len(s) /\ i - Len(s) > j
        BY <1>1, <1>2, <3>2
      <4> QED
        BY <1>5, <2>1, <4>1 DEF LastAt
    <3> QED
      BY <3>1, <3>2 DEF LastAt
  <2>4. LastVal(u, k, old) = u[Len(s) + j].val
    BY <1>1, <1>4, <2>3, LastValAt
  <2> QED
    BY <1>4, <2>2, <2>4 DEF u
<1>7. CASE ~Has(t, k) /\ Has(s, k)
  <2>1. PICK j \in 1..Len(s) : LastAt(s, k, j)
    BY <1>7, LastExists
  <2>2. LastVal(s, k, old) = s[j].val
    BY <2>1, LastValAt
  <2>3. LastVal(t, k, LastVal(s, k, old)) = s[j].val
    BY <1>7, <2>2, LastValNone
  <2>4. LastAt(u, k, j)
    <3>1. u[j].key = k
      BY <1>3, <2>1 DEF LastAt
    <3>2. ASSUME NEW i \in 1..Len(u), i > j
          PROVE  u[i].key # k
      <4>1. CASE i > Len(s)
        BY <1>5, <1>7, <4>1 DEF Has
      <4>2. CASE ~(i > Len(s))
        <5>1. i \in 1..Len(s)
          BY <1>1, <1>2, <4>2
        <5> QED
          BY <1>3, <2>1, <3>2, <5>1 DEF LastAt
      <4> QED
        BY <4>1, <4>2
    <3> QED
      BY <3>1, <3>2 DEF LastAt
  <2>5. LastVal(u, k, old) = u[j].val
    BY <1>1, <1>3, <2>4, LastValAt
  <2> QED
    BY <1>3, <2>3, <2>5 DEF u
<1>8. CASE ~Has(t, k) /\ ~Has(s, k)
  <2>1. LastVal(t, k, LastVal(s, k, old)) = old
    BY <1>8, LastValNone
  <2>2. ~Has(u, k)
    <3> SUFFICES ASSUME NEW i \in 1..Len(u)
                 PROVE  u[i].key # k
      BY DEF Has
    <3>1. CASE i > Len(s)
      BY <1>5, <1>8, <3>1 DEF Has
    <3>2. CASE ~(i > Len(s))
      <4>1. i \in 1..Len(s)
        BY <1>1, <1>2, <3>2
      <4> QED
        BY <1>3, <1>8, <4>1 DEF Has
    <3> QED
      BY <3>1, <3>2
  <2> QED
    BY <1>1, <2>1, <2>2, LastValNone DEF u
<1> QED
  BY <1>6, <1>7, <1>8

(* A record of the key hides what was there before.                        *)
LEMMA LastValHas ==
    ASSUME NEW S, NEW s \in Seq(S), NEW k, NEW x, NEW y, Has(s, k)
    PROVE  LastVal(s, k, x) = LastVal(s, k, y)
<1>1. PICK j \in 1..Len(s) : LastAt(s, k, j)
  BY LastExists
<1> QED
  BY <1>1, LastValAt

(* Records may be applied twice.                                           *)
LEMMA LastValTwice ==
    ASSUME NEW S, NEW s \in Seq(S), NEW k, NEW x
    PROVE  LastVal(s, k, LastVal(s, k, x)) = LastVal(s, k, x)
<1>1. CASE Has(s, k)
  BY <1>1, LastValHas
<1>2. CASE ~Has(s, k)
  BY <1>2, LastValNone
<1> QED
  BY <1>1, <1>2

(* The elements of a sequence.                                             *)
LEMMA ElementOf ==
    ASSUME NEW S, NEW s \in Seq(S), NEW j \in 1..Len(s)
    PROVE  s[j] \in S
OBVIOUS

(* An entry has the value of a record, or the one it had.                  *)
LEMMA LastValType ==
    ASSUME NEW V, NEW s \in Seq([key : Keys, val : V]), NEW k, NEW old \in V
    PROVE  LastVal(s, k, old) \in V
<1>1. CASE Has(s, k)
  <2>1. PICK j \in 1..Len(s) : LastAt(s, k, j)
    BY <1>1, LastExists
  <2>2. LastVal(s, k, old) = s[j].val
    BY <2>1, LastValAt
  <2>3. s[j] \in [key : Keys, val : V]
    BY ElementOf
  <2> QED
    BY <2>2, <2>3
<1>2. CASE ~Has(s, k)
  BY <1>2, LastValNone
<1> QED
  BY <1>1, <1>2

(* Parts of the changelog.                                                 *)
LEMMA SubSeqSplit ==
    ASSUME NEW S, NEW s \in Seq(S), NEW a \in 0..Len(s), NEW b \in a..Len(s),
           NEW c \in b..Len(s)
    PROVE  /\ SubSeq(s, a + 1, b) \in Seq(S) /\ Len(SubSeq(s, a + 1, b)) = b - a
           /\ SubSeq(s, b + 1, c) \in Seq(S) /\ Len(SubSeq(s, b + 1, c)) = c - b
           /\ SubSeq(s, a + 1, c) = SubSeq(s, a + 1, b) \o SubSeq(s, b + 1, c)
           /\ \A i \in 1..(b - a) : SubSeq(s, a + 1, b)[i] = s[a + i]
<1>1. /\ Len(s) \in Nat /\ a \in Nat /\ b \in Nat /\ c \in Nat
      /\ a <= b /\ b <= c /\ c <= Len(s)
  OBVIOUS
<1>2. ASSUME NEW i \in Nat, NEW j \in Nat, i <= j, j <= Len(s)
      PROVE  /\ SubSeq(s, i + 1, j) \in Seq(S) /\ Len(SubSeq(s, i + 1, j)) = j - i
             /\ \A x \in 1..(j - i) : SubSeq(s, i + 1, j)[x] = s[i + x]
  <2>1. \A x \in (i + 1)..j : s[x] \in S
    BY <1>1, <1>2
  <2>2. /\ SubSeq(s, i + 1, j) \in Seq(S)
        /\ Len(SubSeq(s, i + 1, j)) = IF i + 1 <= j THEN j - (i + 1) + 1 ELSE 0
        /\ \A x \in 1..(j - (i + 1) + 1) : SubSeq(s, i + 1, j)[x] = s[(i + 1) + x - 1]
    <3>1. i + 1 \in Int /\ j \in Int
      OBVIOUS
    <3> QED
      BY <2>1, <3>1, SubSeqProperties
  <2>3. j - (i + 1) + 1 = j - i /\ \A x \in Int : (i + 1) + x - 1 = i + x
    OBVIOUS
  <2> QED
    BY <1>2, <2>2, <2>3
<1> DEFINE p == SubSeq(s, a + 1, b)
           q == SubSeq(s, b + 1, c)
           r == SubSeq(s, a + 1, c)
<1>3. p \in Seq(S) /\ Len(p) = b - a /\ \A x \in 1..(b - a) : p[x] = s[a + x]
  BY <1>1, <1>2
<1>4. q \in Seq(S) /\ Len(q) = c - b /\ \A x \in 1..(c - b) : q[x] = s[b + x]
  BY <1>1, <1>2
<1>5. r \in Seq(S) /\ Len(r) = c - a /\ \A x \in 1..(c - a) : r[x] = s[a + x]
  BY <1>1, <1>2
<1> HIDE DEF p, q, r
<1>6. p \o q \in Seq(S) /\ Len(p \o q) = c - a
  <2>1. p \o q \in Seq(S) /\ Len(p \o q) = Len(p) + Len(q)
    BY <1>3, <1>4, ConcatProperties
  <2> QED
    BY <1>1, <1>3, <1>4, <2>1
<1>7. ASSUME NEW x \in 1..(c - a)
      PROVE  (p \o q)[x] = r[x]
  <2>1. CASE x <= b - a
    <3>1. x \in 1..Len(p) /\ x \in 1..(Len(p) + Len(q))
      BY <1>1, <1>3, <1>4, <2>1
    <3>2. (p \o q)[x] = p[x]
      BY <1>3, <1>4, <3>1
    <3> QED
      BY <1>3, <1>5, <3>1, <3>2
  <2>2. CASE ~(x <= b - a)
    <3>1. x - (b - a) \in 1..(c - b) /\ b + (x - (b - a)) = a + x
      BY <1>1, <2>2
    <3>2. (p \o q)[x] = q[x - (b - a)]
      BY <1>1, <1>3, <1>4, <2>2, ConcatProperties, SMTT(30)
    <3> QED
      BY <1>4, <1>5, <3>1, <3>2
  <2> QED
    BY <2>1, <2>2
<1>8. p \o q = r
  BY <1>5, <1>6, <1>7, SeqEqual
<1> QED
  BY <1>3, <1>4, <1>8 DEF p, q, r

-----------------------------------------------------------------------------
(* What an event writes                                                    *)

(* The value an event leaves in the windows it changes.                    *)
WrittenVal(e, i) == IF e.op = "del" THEN 0 ELSE i

(* A sequence over a set is one over any greater set.                      *)
LEMMA SeqGrows ==
    ASSUME NEW A, NEW B, A \subseteq B, NEW s \in Seq(A)
    PROVE  s \in Seq(B)
OBVIOUS

(* What was written before an event came was written when it has come.     *)
LEMMA WrittenGrows ==
    ASSUME NEW m \in Nat, NEW n \in Nat, m <= n
    PROVE  /\ 0..m \subseteq 0..n
           /\ [key : Keys, val : 0..m] \subseteq [key : Keys, val : 0..n]
           /\ \A s \in Seq([key : Keys, val : 0..m]) : s \in Seq([key : Keys, val : 0..n])
<1> DEFINE A == [key : Keys, val : 0..m]
           B == [key : Keys, val : 0..n]
<1>1. 0..m \subseteq 0..n
  OBVIOUS
<1>2. A \subseteq B
  BY <1>1
<1>3. \A s \in Seq(A) : s \in Seq(B)
  <2> HIDE DEF A, B
  <2> QED
    BY <1>2, SeqGrows
<1> QED
  BY <1>1, <1>2, <1>3

(* An event changes windows of its time, and sends one record for each.    *)
LEMMA RecordsAre ==
    ASSUME NEW e \in Event, NEW n \in Nat, NEW i \in 0..n
    PROVE  /\ Touched(e) \subseteq Keys
           /\ Records(e, i) \in Seq([key : Keys, val : 0..n])
           /\ \A old : \A k \in Touched(e) : LastVal(Records(e, i), k, old) = WrittenVal(e, i)
           /\ \A k, old : k \notin Touched(e) => LastVal(Records(e, i), k, old) = old
<1>0. PICK T : T = Touched(e)
  OBVIOUS
<1> DEFINE c == Cardinality(T)
           r == Records(e, i)
<1>1. e.ts \in 0..MaxTime /\ e.ts \in Int
  BY TableAssumption DEF Event
<1>2. Ranges(e.ts) \subseteq Keys
  BY <1>1 DEF Keys
<1>3. T \subseteq Ranges(e.ts)
  BY <1>0 DEF Touched
<1>4. Bounded(T)
  <2>1. StartInitialRange(e.ts) \in Int /\ T \subseteq StartInitialRange(e.ts)..e.ts
    BY <1>1, <1>3, RangesType
  <2> QED
    BY <1>1, <2>1, Zenon DEF Bounded
<1>5. /\ c \in Nat
      /\ Ascending(T) \in [1..c -> T]
      /\ \A k \in T : \E j \in 1..c : Ascending(T)[j] = k
  BY <1>4, AscendingOrder
<1>6. r = [j \in 1..c |-> [key |-> Ascending(T)[j], val |-> WrittenVal(e, i)]]
  BY <1>0 DEF Records, WrittenVal
<1> HIDE DEF c, r
<1>7. WrittenVal(e, i) \in 0..n
  BY DEF WrittenVal
<1>8. \A j \in 1..c : Ascending(T)[j] \in T /\ Ascending(T)[j] \in Keys
  BY <1>2, <1>3, <1>5
<1>9. r \in Seq([key : Keys, val : 0..n]) /\ Len(r) = c
  BY <1>5, <1>6, <1>7, <1>8
<1>10. \A j \in 1..c : r[j].key \in T /\ r[j].val = WrittenVal(e, i)
  BY <1>6, <1>8
<1>11. ASSUME NEW k \in T, NEW old
       PROVE  LastVal(r, k, old) = WrittenVal(e, i)
  <2>1. PICK j \in 1..c : Ascending(T)[j] = k
    BY <1>5
  <2>2. r[j].key = k
    BY <1>6, <2>1
  <2>3. Has(r, k)
    BY <1>9, <2>2 DEF Has
  <2>4. PICK l \in 1..Len(r) : LastAt(r, k, l)
    BY <1>9, <2>3, LastExists
  <2>5. LastVal(r, k, old) = r[l].val
    BY <1>9, <2>4, LastValAt
  <2> QED
    BY <1>9, <1>10, <2>5
<1>12. ASSUME NEW k, NEW old, k \notin T
       PROVE  LastVal(r, k, old) = old
  <2>1. ~Has(r, k)
    BY <1>9, <1>10, <1>12 DEF Has
  <2> QED
    BY <1>9, <2>1, LastValNone
<1> QED
  BY <1>0, <1>2, <1>3, <1>9, <1>11, <1>12 DEF r

-----------------------------------------------------------------------------
(* The types of the state                                                  *)

(* The part of the invariant that does not need the values.                *)
BaseInv == TypeOK /\ CommitInv /\ ValueInv

(* The values of the state have their types.                               *)
LEMMA ValuesTyped ==
    ASSUME NEW n \in 0..MaxEvents
    PROVE  /\ \A s \in Seq([key : Keys, val : 0..n]) : s \in Seq(Record)
           /\ \A f \in [Keys -> 0..n] : f \in [Keys -> 0..MaxEvents]
<1>1. n \in Nat /\ MaxEvents \in Nat /\ n <= MaxEvents
  BY TableAssumption
<1>2. 0..n \subseteq 0..MaxEvents /\ [key : Keys, val : 0..n] \subseteq Record
  BY <1>1, WrittenGrows DEF Record
<1>3. \A s \in Seq([key : Keys, val : 0..n]) : s \in Seq(Record)
  BY <1>2, SeqGrows
<1>4. \A f \in [Keys -> 0..n] : f \in [Keys -> 0..MaxEvents]
  BY <1>2
<1> QED
  BY <1>3, <1>4

(* The invariant holds in the beginning.                                   *)
LEMMA BaseInit ==
    ASSUME Init
    PROVE  BaseInv
<1>1. MaxEvents \in Nat /\ MaxTime \in Nat /\ MaxFaults \in Nat
  BY TableAssumption
<1>2. /\ source \in Seq(Event) /\ Len(source) = 0
      /\ \A S : pending \in Seq(S) /\ sending \in Seq(S) /\ accum \in Seq(S)
                /\ changelog \in Seq(S)
      /\ Len(changelog) = 0 /\ Len(accum) = 0
  BY DEF Init
<1>3. store \in [Keys -> 0..Len(source)] /\ store \in [Keys -> 0..MaxEvents]
  BY <1>1, <1>2 DEF Init, Empty
<1>4. /\ driver \in Stores /\ now = 0 /\ next = 0 /\ committed = 0 /\ ttl = {}
      /\ unacked = 0 /\ persisted = 0 /\ phase = "running" /\ cursor = 0
      /\ pc = "idle" /\ target = 0 /\ waitFor = 0 /\ faults = 0 /\ unlogged = {}
  BY DEF Init
<1>5. TypeOK
  BY <1>1, <1>2, <1>3, <1>4 DEF TypeOK
<1>6. CommitInv
  BY <1>4 DEF CommitInv
<1>7. ValueInv
  BY <1>2, <1>3 DEF ValueInv, Written
<1> QED
  BY <1>5, <1>6, <1>7 DEF BaseInv

(* What Collection._set_windowed and _del_windowed leave.                  *)
LEMMA WriteTyped ==
    ASSUME BaseInv, NEW e \in Event, NEW n \in 0..MaxEvents, Len(source) <= n,
           NEW i \in 0..n, Write(e, i)
    PROVE  /\ store' \in [Keys -> 0..n] /\ pending' \in Seq([key : Keys, val : 0..n])
           /\ ttl' \subseteq Keys /\ unlogged' \subseteq Keys
<1> USE DEF BaseInv
<1>1. n \in Nat /\ Len(source) \in Nat
  BY TableAssumption DEF TypeOK
<1>2. Touched(e) \subseteq Keys /\ Records(e, i) \in Seq([key : Keys, val : 0..n])
  BY <1>1, RecordsAre
<1>3. 0..Len(source) \subseteq 0..n
  BY <1>1, WrittenGrows
<1>4. pending \in Seq([key : Keys, val : 0..n])
  BY <1>1, WrittenGrows DEF ValueInv, Written
<1>5. pending' \in Seq([key : Keys, val : 0..n])
  BY <1>2, <1>4, ConcatProperties DEF Write
<1>6. \A k \in Keys : store[k] \in 0..n
  BY <1>3 DEF ValueInv
<1>7. 0 \in 0..n
  BY <1>1
<1>8. store' \in [Keys -> 0..n]
  BY <1>6, <1>7 DEF Write
<1>9. ttl' \subseteq Keys /\ unlogged' \subseteq Keys
  BY <1>2 DEF Write, TypeOK
<1> QED
  BY <1>5, <1>8, <1>9

(* An event is processed, for the first time or again.                     *)
LEMMA ProcessTyped ==
    ASSUME BaseInv, ProcessNew \/ ProcessAgain
    PROVE  BaseInv'
<1> USE DEF BaseInv
<1>1. /\ driver' = driver /\ now' = now /\ committed' = committed
      /\ sending' = sending /\ accum' = accum /\ changelog' = changelog
      /\ unacked' = unacked /\ persisted' = persisted /\ phase' = phase
      /\ cursor' = cursor /\ pc' = pc /\ target' = target
      /\ waitFor' = waitFor /\ faults' = faults
  BY DEF ProcessNew, ProcessAgain, producerVars, kafkaVars, commitVars
<1>2. /\ phase = "running" /\ next' = next + 1
      /\ next \in 0..Len(source) /\ committed \in 0..next /\ target <= next
      /\ source \in Seq(Event) /\ Len(source) \in 0..MaxEvents /\ MaxEvents \in Nat
      /\ target \in 0..MaxEvents /\ Len(source) \in Nat
  BY TableAssumption DEF ProcessNew, ProcessAgain, TypeOK, CommitInv
<1>3. \E e \in Event : /\ Write(e, next + 1)
                       /\ source' \in Seq(Event) /\ Len(source') \in 0..MaxEvents
                       /\ Len(source) <= Len(source') /\ next + 1 \in 0..Len(source')
  <2>1. CASE ProcessNew
    <3>1. PICK e \in Event : source' = Append(source, e) /\ Write(e, next + 1)
      BY <2>1 DEF ProcessNew
    <3>2. source' \in Seq(Event) /\ Len(source') = Len(source) + 1
      BY <1>2, <3>1, AppendProperties
    <3>3. next = Len(source) /\ next < MaxEvents
      BY <2>1 DEF ProcessNew
    <3>4. Len(source') \in 0..MaxEvents /\ Len(source) <= Len(source')
          /\ next + 1 \in 0..Len(source')
      BY <1>2, <3>2, <3>3
    <3> QED
      BY <3>1, <3>2, <3>4
  <2>2. CASE ProcessAgain
    <3>1. next < Len(source) /\ Write(source[next + 1], next + 1) /\ source' = source
      BY <2>2 DEF ProcessAgain
    <3>2. next + 1 \in 1..Len(source)
      BY <1>2, <3>1
    <3>3. source[next + 1] \in Event
      BY <1>2, <3>2, ElementOf
    <3>4. next + 1 \in 0..Len(source') /\ Len(source) <= Len(source')
      BY <1>2, <3>1, <3>2
    <3> QED
      BY <1>2, <3>1, <3>3, <3>4
  <2> QED
    BY <2>1, <2>2
<1>4. /\ source' \in Seq(Event) /\ Len(source') \in 0..MaxEvents
      /\ Len(source) <= Len(source') /\ next + 1 \in 0..Len(source')
  BY <1>3
<1>5. /\ store' \in [Keys -> 0..Len(source')]
      /\ pending' \in Seq([key : Keys, val : 0..Len(source')])
      /\ ttl' \subseteq Keys /\ unlogged' \subseteq Keys
  BY <1>3, WriteTyped
<1>6. ValueInv'
  <2>1. Len(source') \in Nat /\ Len(source) \in Nat
    BY <1>2, <1>4
  <2>3. /\ sending' \in Seq([key : Keys, val : 0..Len(source')])
        /\ accum' \in Seq([key : Keys, val : 0..Len(source')])
        /\ changelog' \in Seq([key : Keys, val : 0..Len(source')])
    BY <1>1, <1>4, <2>1, WrittenGrows DEF ValueInv, Written
  <2> QED
    BY <1>5, <2>3 DEF ValueInv, Written
<1>7. next' \in 0..Len(source') /\ committed' \in 0..next' /\ target' <= next'
      /\ Len(source') <= MaxEvents
  BY <1>1, <1>2, <1>4
<1>8. store' \in [Keys -> 0..MaxEvents] /\ pending' \in Seq(Record)
  BY <1>4, <1>5, ValuesTyped
<1>9. TypeOK'
  BY <1>1, <1>4, <1>5, <1>7, <1>8, Zenon DEF TypeOK
<1>10. CommitInv'
  BY <1>1, <1>2, <1>7 DEF CommitInv
<1> QED
  BY <1>6, <1>9, <1>10

(* Time goes by and entries are expired.                                   *)
LEMMA ClockTyped ==
    ASSUME BaseInv, Tick \/ DelOldKeys
    PROVE  BaseInv'
<1> USE DEF BaseInv
<1>1. /\ driver' = driver /\ source' = source /\ next' = next
      /\ committed' = committed /\ pending' = pending /\ sending' = sending
      /\ accum' = accum /\ changelog' = changelog /\ unacked' = unacked
      /\ persisted' = persisted /\ phase' = phase /\ cursor' = cursor
      /\ pc' = pc /\ target' = target /\ waitFor' = waitFor
      /\ faults' = faults
  BY DEF Tick, DelOldKeys, producerVars, kafkaVars, commitVars
<1>2. now' \in 0..MaxTime
  <2>1. MaxTime \in Nat /\ now \in 0..MaxTime
    BY TableAssumption DEF TypeOK
  <2>2. CASE Tick
    BY <2>1, <2>2 DEF Tick
  <2>3. CASE DelOldKeys
    BY <2>1, <2>3 DEF DelOldKeys
  <2> QED
    BY <2>2, <2>3
<1>3. ttl' \subseteq Keys /\ unlogged' \subseteq Keys
  BY DEF Tick, DelOldKeys, TypeOK
<1>4. Len(source) \in 0..MaxEvents /\ 0 \in 0..Len(source)
  BY TableAssumption DEF TypeOK
<1>5. store' \in [Keys -> 0..Len(source)]
  <2>1. CASE Tick
    BY <2>1 DEF Tick, ValueInv
  <2>2. CASE DelOldKeys
    BY <1>4, <2>2 DEF DelOldKeys, ValueInv
  <2> QED
    BY <2>1, <2>2
<1>6. store' \in [Keys -> 0..MaxEvents]
  BY <1>4, <1>5, ValuesTyped
<1>7. TypeOK'
  BY <1>1, <1>2, <1>3, <1>6, Zenon DEF TypeOK
<1>8. CommitInv'
  BY <1>1 DEF CommitInv
<1>9. ValueInv'
  BY <1>1, <1>5 DEF ValueInv, Written
<1> QED
  BY <1>7, <1>8, <1>9

(* A sequence is its head and its tail.                                    *)
LEMMA HeadAndTail ==
    ASSUME NEW S, NEW s \in Seq(S), s # <<>>
    PROVE  /\ Head(s) \in S /\ Tail(s) \in Seq(S)
           /\ Len(Tail(s)) = Len(s) - 1 /\ Len(s) \in Nat /\ Len(s) >= 1
           /\ s = <<Head(s)>> \o Tail(s)
<1>1. Len(s) \in Nat /\ Len(s) # 0
  BY EmptySeq
<1>2. Tail(s) \in Seq(S) /\ Len(Tail(s)) = Len(s) - 1 /\ Head(s) \in S
  BY <1>1, HeadTailProperties
<1>3. <<Head(s)>> \in Seq(S) /\ Len(<<Head(s)>>) = 1
  BY <1>2
<1>4. <<Head(s)>> \o Tail(s) \in Seq(S) /\ Len(<<Head(s)>> \o Tail(s)) = Len(s)
  <2>1. /\ <<Head(s)>> \o Tail(s) \in Seq(S)
        /\ Len(<<Head(s)>> \o Tail(s)) = Len(<<Head(s)>>) + Len(Tail(s))
    BY <1>2, <1>3, ConcatProperties
  <2> QED
    BY <1>1, <1>2, <1>3, <2>1
<1>5. \A i \in 1..Len(s) : (<<Head(s)>> \o Tail(s))[i] = s[i]
  BY <1>1, <1>2, <1>3
<1>6. s = <<Head(s)>> \o Tail(s)
  BY <1>4, <1>5, SeqEqual
<1> QED
  BY <1>1, <1>2, <1>6

(* Appending is concatenation with one element.                            *)
LEMMA AppendOne ==
    ASSUME NEW S, NEW s \in Seq(S), NEW x \in S
    PROVE  /\ Append(s, x) = s \o <<x>> /\ Append(s, x) \in Seq(S)
           /\ Len(Append(s, x)) = Len(s) + 1 /\ <<x>> \in Seq(S) /\ Len(<<x>>) = 1
<1>1. <<x>> \in Seq(S) /\ Len(<<x>>) = 1
  OBVIOUS
<1>2. Append(s, x) \in Seq(S) /\ Len(Append(s, x)) = Len(s) + 1
  BY AppendProperties
<1>3. s \o <<x>> \in Seq(S) /\ Len(s \o <<x>>) = Len(s) + 1
  BY <1>1, ConcatProperties
<1>4. \A i \in 1..(Len(s) + 1) : Append(s, x)[i] = (s \o <<x>>)[i]
  OBVIOUS
<1> QED
  BY <1>1, <1>2, <1>3, <1>4, SeqEqual

(* What a step may use of the types.                                       *)
LEMMA BaseTypes ==
    ASSUME BaseInv
    PROVE  /\ \A s \in Seq(Written) : s \in Seq(Record)
           /\ pending \in Seq(Written) /\ sending \in Seq(Written)
           /\ accum \in Seq(Written) /\ changelog \in Seq(Written)
           /\ Len(accum) \in Nat /\ Len(sending) \in Nat /\ Len(changelog) \in Nat
           /\ unacked \in 0..Len(changelog) /\ persisted \in 0..Len(changelog)
           /\ cursor \in 0..Len(changelog) /\ waitFor \in 0..(unacked + Len(accum))
           /\ faults \in 0..MaxFaults /\ MaxFaults \in Nat
           /\ (phase = "recovering" => pending = <<>> /\ sending = <<>> /\ accum = <<>>
                                       /\ unacked = 0)
           /\ (phase # "recovering" => phase = "running")
<1> USE DEF BaseInv
<1>1. Len(source) \in 0..MaxEvents
  BY TableAssumption DEF TypeOK
<1>2. \A s \in Seq(Written) : s \in Seq(Record)
  BY <1>1, ValuesTyped DEF Written
<1>3. pending \in Seq(Written) /\ sending \in Seq(Written)
      /\ accum \in Seq(Written) /\ changelog \in Seq(Written)
  BY DEF ValueInv
<1> HIDE DEF BaseInv
<1>4. Len(accum) \in Nat /\ Len(sending) \in Nat /\ Len(changelog) \in Nat
  BY <1>3
<1>5. /\ unacked \in 0..Len(changelog) /\ persisted \in 0..Len(changelog)
      /\ cursor \in 0..Len(changelog) /\ waitFor \in 0..(unacked + Len(accum))
      /\ faults \in 0..MaxFaults /\ MaxFaults \in Nat
  BY TableAssumption DEF BaseInv, TypeOK
<1>6. phase = "recovering" => pending = <<>> /\ sending = <<>> /\ accum = <<>> /\ unacked = 0
  BY DEF BaseInv, CommitInv
<1>7. phase # "recovering" => phase = "running"
  BY DEF BaseInv, TypeOK
<1> QED
  BY <1>2, <1>3, <1>4, <1>5, <1>6, <1>7

(* ProducerBuffer hands a record on.                                       *)
LEMMA HandlePendingTyped ==
    ASSUME BaseInv, HandlePending
    PROVE  BaseInv'
<1>1. /\ driver' = driver /\ now' = now /\ source' = source /\ next' = next
      /\ committed' = committed /\ store' = store /\ ttl' = ttl
      /\ changelog' = changelog /\ unacked' = unacked
      /\ persisted' = persisted /\ phase' = phase /\ cursor' = cursor
      /\ pc' = pc /\ target' = target /\ waitFor' = waitFor
      /\ faults' = faults /\ unlogged' = unlogged
  BY DEF HandlePending, producerVars, kafkaVars, commitVars
<1>2. pending # <<>> /\ pending' = Tail(pending) /\ phase = "running"
  BY BaseTypes DEF HandlePending
<1>3. Head(pending) \in Written /\ pending' \in Seq(Written)
  BY <1>2, BaseTypes, HeadAndTail
<1>4. sending' \in Seq(Written) /\ accum' \in Seq(Written)
      /\ Len(accum') \in Nat /\ Len(accum) <= Len(accum')
  <2>1. CASE SlowSend
    <3>1. sending' = <<Head(pending)>> /\ accum' = accum
      BY <2>1 DEF HandlePending
    <3> QED
      BY <1>3, <3>1, BaseTypes
  <2>2. CASE ~SlowSend
    <3>1. sending' = sending /\ accum' = Append(accum, Head(pending))
      BY <2>2 DEF HandlePending
    <3>2. accum' \in Seq(Written) /\ Len(accum') = Len(accum) + 1
      BY <1>3, <3>1, BaseTypes, AppendOne
    <3> QED
      BY <3>1, <3>2, BaseTypes
  <2> QED
    BY <2>1, <2>2
<1>5. waitFor' \in 0..(unacked' + Len(accum'))
  BY <1>1, <1>4, BaseTypes
<1>6. /\ pending' \in Seq(Record) /\ sending' \in Seq(Record) /\ accum' \in Seq(Record)
  BY <1>3, <1>4, BaseTypes
<1> USE DEF BaseInv
<1>7. TypeOK'
  BY <1>1, <1>5, <1>6, Zenon DEF TypeOK
<1>8. CommitInv'
  BY <1>1, <1>2 DEF CommitInv
<1>9. ValueInv'
  BY <1>1, <1>3, <1>4 DEF ValueInv, Written
<1> QED
  BY <1>7, <1>8, <1>9

(* The Kafka producer takes a record.                                      *)
LEMMA PublishTyped ==
    ASSUME BaseInv, PublishMessage
    PROVE  BaseInv'
<1>1. /\ driver' = driver /\ now' = now /\ source' = source /\ next' = next
      /\ committed' = committed /\ store' = store /\ ttl' = ttl
      /\ pending' = pending /\ changelog' = changelog /\ unacked' = unacked
      /\ persisted' = persisted /\ phase' = phase /\ cursor' = cursor
      /\ pc' = pc /\ target' = target /\ waitFor' = waitFor
      /\ faults' = faults /\ unlogged' = unlogged
  BY DEF PublishMessage, producerVars, kafkaVars, commitVars
<1>2. sending # <<>> /\ sending' = <<>> /\ accum' = accum \o sending /\ phase = "running"
  BY BaseTypes DEF PublishMessage
<1>3. sending' \in Seq(Written) /\ accum' \in Seq(Written)
      /\ Len(accum') = Len(accum) + Len(sending)
  BY <1>2, BaseTypes, ConcatProperties
<1>4. waitFor' \in 0..(unacked' + Len(accum'))
  BY <1>1, <1>3, BaseTypes, SMTT(30)
<1>5. sending' \in Seq(Record) /\ accum' \in Seq(Record)
  BY <1>3, BaseTypes
<1> USE DEF BaseInv
<1>6. TypeOK'
  BY <1>1, <1>4, <1>5, Zenon DEF TypeOK
<1>7. CommitInv'
  BY <1>1, <1>2 DEF CommitInv
<1>8. ValueInv'
  BY <1>1, <1>3 DEF ValueInv, Written
<1> QED
  BY <1>6, <1>7, <1>8

(* The broker appends a record.                                            *)
LEMMA DeliverTyped ==
    ASSUME BaseInv, Deliver
    PROVE  BaseInv'
<1>1. /\ driver' = driver /\ now' = now /\ source' = source /\ next' = next
      /\ committed' = committed /\ store' = store /\ ttl' = ttl
      /\ pending' = pending /\ sending' = sending /\ persisted' = persisted
      /\ phase' = phase /\ cursor' = cursor /\ pc' = pc /\ target' = target
      /\ waitFor' = waitFor /\ faults' = faults /\ unlogged' = unlogged
  BY DEF Deliver, producerVars, kafkaVars, commitVars
<1>2. /\ accum # <<>> /\ accum' = Tail(accum) /\ unacked' = unacked + 1
      /\ changelog' = Append(changelog, Head(accum)) /\ phase = "running"
  BY BaseTypes DEF Deliver
<1>3. accum' \in Seq(Written) /\ Head(accum) \in Written
      /\ Len(accum') = Len(accum) - 1 /\ Len(accum) >= 1
  BY <1>2, BaseTypes, HeadAndTail
<1>4. changelog' \in Seq(Written) /\ Len(changelog') = Len(changelog) + 1
  BY <1>2, <1>3, BaseTypes, AppendOne
<1>5. /\ unacked' \in 0..Len(changelog') /\ persisted' \in 0..Len(changelog')
      /\ cursor' \in 0..Len(changelog') /\ waitFor' \in 0..(unacked' + Len(accum'))
  BY <1>1, <1>2, <1>3, <1>4, BaseTypes, SMTT(30)
<1>6. accum' \in Seq(Record) /\ changelog' \in Seq(Record)
  BY <1>3, <1>4, BaseTypes
<1> USE DEF BaseInv
<1>7. TypeOK'
  BY <1>1, <1>5, <1>6, Zenon DEF TypeOK
<1>8. CommitInv'
  BY <1>1, <1>2 DEF CommitInv
<1>9. ValueInv'
  BY <1>1, <1>3, <1>4 DEF ValueInv, Written
<1> QED
  BY <1>7, <1>8, <1>9

(* The Kafka producer gives a record up.                                   *)
LEMMA SendErrorTyped ==
    ASSUME BaseInv, SendError
    PROVE  BaseInv'
<1>1. /\ driver' = driver /\ now' = now /\ source' = source /\ next' = next
      /\ committed' = committed /\ store' = store /\ ttl' = ttl
      /\ pending' = pending /\ sending' = sending /\ changelog' = changelog
      /\ unacked' = unacked /\ persisted' = persisted /\ phase' = phase
      /\ cursor' = cursor /\ pc' = pc /\ target' = target
  BY DEF SendError, producerVars, kafkaVars, commitVars
<1>2. /\ accum # <<>> /\ accum' = Tail(accum) /\ faults' = faults + 1 /\ faults < MaxFaults
      /\ waitFor' = IF unacked < waitFor THEN waitFor - 1 ELSE waitFor
      /\ unlogged' = unlogged \cup {Head(accum).key} /\ phase = "running"
  BY BaseTypes DEF SendError
<1>3. accum' \in Seq(Written) /\ Head(accum) \in Written
      /\ Len(accum') = Len(accum) - 1 /\ Len(accum) >= 1
  BY <1>2, BaseTypes, HeadAndTail
<1>4. waitFor' \in 0..(unacked' + Len(accum')) /\ faults' \in 0..MaxFaults
  BY <1>1, <1>2, <1>3, BaseTypes, SMTT(30)
<1>5. unlogged' \subseteq Keys
  BY <1>2, <1>3 DEF Written, BaseInv, TypeOK
<1>6. accum' \in Seq(Record)
  BY <1>3, BaseTypes
<1> USE DEF BaseInv
<1>7. TypeOK'
  BY <1>1, <1>4, <1>5, <1>6, Zenon DEF TypeOK
<1>8. CommitInv'
  BY <1>1, <1>2 DEF CommitInv
<1>9. ValueInv'
  BY <1>1, <1>3 DEF ValueInv, Written
<1> QED
  BY <1>7, <1>8, <1>9

(* The broker has answered.                                                *)
LEMMA SentTyped ==
    ASSUME BaseInv, OnChangelogSent
    PROVE  BaseInv'
<1>1. /\ driver' = driver /\ now' = now /\ source' = source /\ next' = next
      /\ committed' = committed /\ store' = store /\ ttl' = ttl
      /\ pending' = pending /\ sending' = sending /\ accum' = accum
      /\ changelog' = changelog /\ phase' = phase /\ cursor' = cursor
      /\ pc' = pc /\ target' = target /\ faults' = faults
      /\ unlogged' = unlogged
  BY DEF OnChangelogSent, producerVars, kafkaVars, commitVars
<1>2. /\ unacked > 0 /\ unacked' = unacked - 1
      /\ persisted' = IF driver = "rocksdb" THEN Len(changelog) - unacked + 1 ELSE persisted
      /\ waitFor' = IF waitFor = 0 THEN 0 ELSE waitFor - 1
  BY DEF OnChangelogSent, Offset
<1>3. phase = "running"
  BY <1>2, BaseTypes
<1>4. /\ unacked \in 0..Len(changelog) /\ persisted \in 0..Len(changelog)
      /\ waitFor \in 0..(unacked + Len(accum))
      /\ Len(changelog) \in Nat /\ Len(accum) \in Nat /\ unacked \in Nat
  BY BaseTypes
<1>5. /\ unacked' \in 0..Len(changelog') /\ persisted' \in 0..Len(changelog')
      /\ waitFor' \in 0..(unacked' + Len(accum'))
  <2>1. unacked' \in 0..Len(changelog)
    BY <1>2, <1>4
  <2>2. Len(changelog) - unacked + 1 \in 0..Len(changelog)
    BY <1>2, <1>4
  <2>3. persisted' \in 0..Len(changelog)
    BY <1>2, <1>4, <2>2, Zenon
  <2>4. waitFor' \in 0..((unacked - 1) + Len(accum))
    BY <1>2, <1>4
  <2> QED
    BY <1>1, <1>2, <2>1, <2>3, <2>4
<1> USE DEF BaseInv
<1>6. TypeOK'
  BY <1>1, <1>5, Zenon DEF TypeOK
<1>7. CommitInv'
  BY <1>1, <1>3 DEF CommitInv
<1>8. ValueInv'
  BY <1>1 DEF ValueInv, Written
<1> QED
  BY <1>6, <1>7, <1>8

(* A commit goes on.                                                       *)
LEMMA CommitTyped ==
    ASSUME BaseInv, CommitStart \/ FlushBuffer \/ FlushProducer \/ Commit
    PROVE  BaseInv'
<1>1. /\ driver' = driver /\ now' = now /\ source' = source /\ next' = next
      /\ store' = store /\ ttl' = ttl /\ pending' = pending
      /\ sending' = sending /\ accum' = accum /\ changelog' = changelog
      /\ unacked' = unacked /\ persisted' = persisted /\ phase' = phase
      /\ cursor' = cursor /\ faults' = faults /\ unlogged' = unlogged
  BY DEF CommitStart, FlushBuffer, FlushProducer, Commit, producerVars, kafkaVars, commitVars
<1>2. /\ next \in 0..Len(source) /\ Len(source) \in 0..MaxEvents /\ MaxEvents \in Nat
      /\ committed \in 0..next /\ target \in 0..MaxEvents /\ target <= next
  BY TableAssumption DEF BaseInv, TypeOK, CommitInv
<1>3. /\ pc' \in {"idle", "buffer", "producer", "commit"}
      /\ target' \in 0..MaxEvents /\ target' <= next
      /\ waitFor' \in 0..(unacked + Len(accum)) /\ committed' \in 0..next
  <2>1. CASE CommitStart
    <3>1. pc' = "buffer" /\ target' = next /\ waitFor' = waitFor /\ committed' = committed
      BY <2>1 DEF CommitStart
    <3> QED
      BY <1>2, <3>1, BaseTypes
  <2>2. CASE FlushBuffer
    <3>1. pc' = "producer" /\ target' = target /\ waitFor' = unacked + Len(accum)
          /\ committed' = committed
      BY <2>2 DEF FlushBuffer
    <3> QED
      BY <1>2, <3>1, BaseTypes, SMTT(30)
  <2>3. CASE FlushProducer
    <3>1. pc' = "commit" /\ target' = target /\ waitFor' = waitFor /\ committed' = committed
      BY <2>3 DEF FlushProducer
    <3> QED
      BY <1>2, <3>1, BaseTypes
  <2>4. CASE Commit
    <3>1. pc' = "idle" /\ target' = target /\ waitFor' = waitFor /\ committed' = target
      BY <2>4 DEF Commit
    <3> QED
      BY <1>2, <3>1, BaseTypes
  <2> QED
    BY <2>1, <2>2, <2>3, <2>4
<1> USE DEF BaseInv
<1>4. TypeOK'
  BY <1>1, <1>3, Zenon DEF TypeOK
<1>5. CommitInv'
  BY <1>1, <1>3 DEF CommitInv
<1>6. ValueInv'
  BY <1>1 DEF ValueInv, Written
<1> QED
  BY <1>4, <1>5, <1>6

(* The worker ends.                                                        *)
LEMMA CrashTyped ==
    ASSUME BaseInv, NEW kept \in BOOLEAN, Crash(kept)
    PROVE  BaseInv'
<1>1. driver' = driver /\ now' = now /\ source' = source /\ committed' = committed
      /\ changelog' = changelog
  BY DEF Crash
<1>2. /\ faults < MaxFaults /\ faults' = faults + 1 /\ next' = committed
      /\ store' = IF kept THEN store ELSE Empty
      /\ persisted' = IF kept THEN persisted ELSE 0
      /\ cursor' = persisted' /\ ttl' = {}
      /\ pending' = <<>> /\ sending' = <<>> /\ accum' = <<>> /\ unacked' = 0
      /\ phase' = "recovering" /\ pc' = "idle" /\ target' = 0 /\ waitFor' = 0
  BY DEF Crash
<1>3. unlogged' \subseteq Keys
  <2>1. CASE kept
    <3> DEFINE s == pending \o sending \o accum
    <3>1. s \in Seq(Written)
      BY BaseTypes, ConcatProperties
    <3>2. unlogged' = unlogged \cup {r.key : r \in Range(s)}
      BY <2>1 DEF Crash
    <3> HIDE DEF s
    <3>3. \A r \in Range(s) : r \in Written
      BY <3>1 DEF Range
    <3> QED
      BY <3>2, <3>3 DEF Written, BaseInv, TypeOK
  <2>2. CASE ~kept
    BY <2>2 DEF Crash
  <2> QED
    BY <2>1, <2>2
<1>4. Len(source) \in 0..MaxEvents /\ MaxEvents \in Nat /\ committed \in 0..next
      /\ next \in 0..Len(source)
  BY TableAssumption DEF BaseInv, TypeOK
<1>5. store' \in [Keys -> 0..Len(source)]
  BY <1>2, <1>4 DEF BaseInv, ValueInv, Empty
<1>6. store' \in [Keys -> 0..MaxEvents]
  BY <1>4, <1>5, ValuesTyped
<1>7. /\ next' \in 0..Len(source) /\ committed' \in 0..next'
      /\ persisted' \in 0..Len(changelog) /\ cursor' \in 0..Len(changelog)
      /\ unacked' \in 0..Len(changelog) /\ faults' \in 0..MaxFaults
      /\ target' \in 0..MaxEvents /\ target' <= next'
  BY <1>1, <1>2, <1>4, BaseTypes, SMTT(30)
<1>8. pending' \in Seq(Record) /\ sending' \in Seq(Record) /\ accum' \in Seq(Record)
      /\ waitFor' \in 0..(unacked' + Len(accum'))
  BY <1>2
<1>9. /\ phase' \in {"running", "recovering"} /\ ttl' \subseteq Keys
      /\ pc' \in {"idle", "buffer", "producer", "commit"}
  BY <1>2
<1> USE DEF BaseInv
<1>10. TypeOK'
  BY <1>1, <1>3, <1>6, <1>7, <1>8, <1>9, Zenon DEF TypeOK
<1>11. CommitInv'
  BY <1>2, <1>7 DEF CommitInv
<1>12. ValueInv'
  BY <1>1, <1>2, <1>5 DEF ValueInv, Written
<1> QED
  BY <1>10, <1>11, <1>12

(* A batch of the changelog is applied.                                    *)
LEMMA ApplyTyped ==
    ASSUME BaseInv, NEW n \in 1..BatchMax, ApplyChangelogBatch(n)
    PROVE  BaseInv'
<1> DEFINE batch == SubSeq(changelog, cursor + 1, cursor + n)
<1>1. /\ driver' = driver /\ now' = now /\ source' = source /\ next' = next
      /\ committed' = committed /\ ttl' = ttl /\ pending' = pending
      /\ sending' = sending /\ accum' = accum /\ changelog' = changelog
      /\ unacked' = unacked /\ phase' = phase /\ pc' = pc
      /\ target' = target /\ waitFor' = waitFor /\ faults' = faults
  BY DEF ApplyChangelogBatch, producerVars, kafkaVars, commitVars
<1>2. /\ phase = "recovering" /\ cursor + n <= Len(changelog) /\ cursor' = cursor + n
      /\ persisted' = IF driver = "rocksdb" THEN cursor + n ELSE persisted
      /\ store' = IF driver = "memory" THEN AppliedMemory(batch) ELSE Applied(batch)
      /\ unlogged' \subseteq unlogged
  BY DEF ApplyChangelogBatch
<1>3. n \in Nat /\ cursor \in Nat /\ Len(changelog) \in Nat
  BY TableAssumption, BaseTypes
<1>4. batch \in Seq(Written)
  <2>1. cursor \in 0..Len(changelog) /\ cursor + n \in cursor..Len(changelog)
        /\ cursor + n \in (cursor + n)..Len(changelog)
    BY <1>2, <1>3
  <2> QED
    BY <2>1, BaseTypes, SubSeqSplit
<1> HIDE DEF batch
<1>5. /\ cursor' \in 0..Len(changelog') /\ persisted' \in 0..Len(changelog')
  BY <1>1, <1>2, <1>3, BaseTypes
<1>6. Len(source) \in 0..MaxEvents /\ 0 \in 0..Len(source)
  BY TableAssumption DEF BaseInv, TypeOK
<1>7. \A k \in Keys : LastVal(batch, k, store[k]) \in 0..Len(source)
  <2>1. store \in [Keys -> 0..Len(source)]
    BY DEF BaseInv, ValueInv
  <2>2. batch \in Seq([key : Keys, val : 0..Len(source)])
    BY <1>4 DEF Written
  <2> QED
    BY <2>1, <2>2, LastValType
<1>8. store' \in [Keys -> 0..Len(source)]
  BY <1>2, <1>6, <1>7 DEF Applied, AppliedMemory
<1>9. store' \in [Keys -> 0..MaxEvents]
  BY <1>6, <1>8, ValuesTyped
<1>10. unlogged' \subseteq Keys
  BY <1>2 DEF BaseInv, TypeOK
<1> USE DEF BaseInv
<1>11. TypeOK'
  BY <1>1, <1>5, <1>9, <1>10, Zenon DEF TypeOK
<1>12. CommitInv'
  BY <1>1, <1>2 DEF CommitInv
<1>13. ValueInv'
  BY <1>1, <1>8 DEF ValueInv, Written
<1> QED
  BY <1>11, <1>12, <1>13

(* The table is recovered.                                                 *)
LEMMA CompletedTyped ==
    ASSUME BaseInv, OnRecoveryCompleted
    PROVE  BaseInv'
<1> USE DEF BaseInv
<1>1. /\ driver' = driver /\ now' = now /\ source' = source /\ next' = next
      /\ committed' = committed /\ store' = store /\ ttl' = ttl
      /\ pending' = pending /\ sending' = sending /\ accum' = accum
      /\ changelog' = changelog /\ unacked' = unacked
      /\ persisted' = persisted /\ cursor' = cursor /\ pc' = pc
      /\ target' = target /\ waitFor' = waitFor /\ faults' = faults
      /\ unlogged' = unlogged
  BY DEF OnRecoveryCompleted, producerVars, kafkaVars, commitVars
<1>2. phase' = "running"
  BY DEF OnRecoveryCompleted
<1>3. TypeOK'
  BY <1>1, <1>2 DEF TypeOK
<1>4. CommitInv'
  BY <1>1, <1>2 DEF CommitInv
<1>5. ValueInv'
  BY <1>1 DEF ValueInv, Written
<1> QED
  BY <1>3, <1>4, <1>5

(* Every step keeps the invariant.                                         *)
LEMMA BaseStep ==
    ASSUME BaseInv, [Next]_vars
    PROVE  BaseInv'
<1>1. CASE UNCHANGED vars
  <2>1. /\ driver' = driver /\ now' = now /\ source' = source /\ next' = next
      /\ committed' = committed /\ store' = store /\ ttl' = ttl
      /\ pending' = pending /\ sending' = sending /\ accum' = accum
      /\ changelog' = changelog /\ unacked' = unacked
      /\ persisted' = persisted /\ phase' = phase /\ cursor' = cursor
      /\ pc' = pc /\ target' = target /\ waitFor' = waitFor
      /\ faults' = faults /\ unlogged' = unlogged
    BY <1>1 DEF vars, producerVars, kafkaVars, commitVars
  <2>2. TypeOK'
    BY <2>1, Zenon DEF BaseInv, TypeOK
  <2>3. CommitInv' /\ ValueInv'
    BY <2>1 DEF BaseInv, CommitInv, ValueInv, Written
  <2> QED
    BY <2>2, <2>3 DEF BaseInv
<1>2. CASE \E kept \in {FALSE, driver = "rocksdb"} : Crash(kept)
  BY <1>2, CrashTyped
<1>3. CASE \E n \in 1..BatchMax : ApplyChangelogBatch(n)
  BY <1>3, ApplyTyped
<1> QED
  BY <1>1, <1>2, <1>3, ProcessTyped, ClockTyped, HandlePendingTyped, PublishTyped,
     DeliverTyped, SendErrorTyped, SentTyped, CommitTyped, CompletedTyped DEF Next

(* The state keeps its type: offsets stay within the changelog, a flush    *)
(* waits for no more than the producer has, and what is committed has been *)
(* processed.                                                              *)
THEOREM TypeCorrect == Spec => []TypeOK
<1>1. Init => BaseInv
  BY BaseInit
<1>2. BaseInv /\ [Next]_vars => BaseInv'
  BY BaseStep
<1>3. BaseInv => TypeOK
  BY DEF BaseInv
<1> QED
  BY <1>1, <1>2, <1>3, PTL DEF Spec

(* An entry goes by itself only when its window has been over for as long  *)
(* as `expires` says, whatever the window.                                 *)
THEOREM KeptCorrect == Spec => KeptUntilExpired
<1> DEFINE Kept == \A k \in Keys :
          (store[k] # 0 /\ store'[k] = 0 /\ phase' = "running" /\ next' = next)
             => k + size <= now - expires
<1>1. Init => BaseInv
  BY BaseInit
<1>2. BaseInv /\ [Next]_vars => BaseInv'
  BY BaseStep
<1>3. BaseInv /\ [Next]_vars => [Kept]_vars
  <2> SUFFICES ASSUME BaseInv, Next, NEW k \in Keys,
                      store[k] # 0, store'[k] = 0, phase' = "running", next' = next
               PROVE  k + size <= now - expires
    OBVIOUS
  <2>1. now \in Int /\ k \in Int /\ next \in Int
    BY KeysType DEF BaseInv, TypeOK
  <2>2. CASE DelOldKeys
    <3>1. k \in ttl /\ Stale(k, now)
      BY <2>2 DEF DelOldKeys
    <3> QED
      BY <2>1, <3>1, StaleOver
  <2>3. CASE store' = store
    BY <2>3
  <2>4. CASE ProcessNew \/ ProcessAgain
    BY <2>1, <2>4 DEF ProcessNew, ProcessAgain
  <2>5. CASE \E kept \in {FALSE, driver = "rocksdb"} : Crash(kept)
    BY <2>5 DEF Crash
  <2>6. CASE \E n \in 1..BatchMax : ApplyChangelogBatch(n)
    BY <2>6 DEF ApplyChangelogBatch
  <2>7. \/ DelOldKeys \/ store' = store \/ ProcessNew \/ ProcessAgain
        \/ \E kept \in {FALSE, driver = "rocksdb"} : Crash(kept)
        \/ \E n \in 1..BatchMax : ApplyChangelogBatch(n)
    BY DEF Next, Tick, HandlePending, PublishMessage, Deliver, SendError,
       OnChangelogSent, CommitStart, FlushBuffer, FlushProducer, Commit,
       OnRecoveryCompleted
  <2> QED
    BY <2>2, <2>3, <2>4, <2>5, <2>6, <2>7
<1> QED
  BY <1>1, <1>2, <1>3, PTL DEF Spec, KeptUntilExpired

-----------------------------------------------------------------------------
(* The table and its changelog                                             *)

(* No records leave an entry as it is.                                     *)
LEMMA LastValEmpty ==
    ASSUME NEW k, NEW x
    PROVE  LastVal(<<>>, k, x) = x
<1>1. <<>> \in Seq({}) /\ ~Has(<<>>, k)
  BY DEF Has
<1> QED
  BY <1>1, LastValNone

(* The first record is applied first.                                      *)
LEMMA LastValHead ==
    ASSUME NEW S, NEW s \in Seq(S), s # <<>>, NEW k, NEW x
    PROVE  LastVal(s, k, x) = LastVal(Tail(s), k, LastVal(<<Head(s)>>, k, x))
<1>1. Head(s) \in S /\ Tail(s) \in Seq(S) /\ s = <<Head(s)>> \o Tail(s)
  BY HeadAndTail
<1>2. PICK h : h = <<Head(s)>>
  OBVIOUS
<1>3. PICK t : t = Tail(s)
  OBVIOUS
<1>4. h \in Seq(S) /\ t \in Seq(S) /\ s = h \o t
  BY <1>1, <1>2, <1>3
<1>5. LastVal(h \o t, k, x) = LastVal(t, k, LastVal(h, k, x))
  BY <1>4, LastValConcat
<1> QED
  BY <1>2, <1>3, <1>4, <1>5

(* A record that is appended is applied last.                              *)
LEMMA LastValAppend ==
    ASSUME NEW S, NEW s \in Seq(S), NEW r \in S, NEW k, NEW x
    PROVE  LastVal(Append(s, r), k, x) = LastVal(<<r>>, k, LastVal(s, k, x))
<1>1. PICK t : t = <<r>>
  OBVIOUS
<1>2. Append(s, r) = s \o t /\ t \in Seq(S)
  BY <1>1, AppendOne
<1>3. LastVal(s \o t, k, x) = LastVal(t, k, LastVal(s, k, x))
  BY <1>2, LastValConcat
<1> QED
  BY <1>1, <1>2, <1>3

(* A record of another key changes nothing.                                *)
LEMMA LastValOther ==
    ASSUME NEW r, NEW k, r.key # k, NEW x
    PROVE  LastVal(<<r>>, k, x) = x
<1>1. <<r>> \in Seq({r}) /\ ~Has(<<r>>, k)
  BY DEF Has
<1> QED
  BY <1>1, LastValNone

(* Steps that leave the entries and the records alone.                     *)
LEMMA LogSame ==
    ASSUME LogInv, store' = store, changelog' = changelog, accum' = accum,
           sending' = sending, pending' = pending, cursor' = cursor,
           phase' = phase, unlogged' = unlogged
    PROVE  LogInv'
BY DEF LogInv, RecoveryInv, RunningInv, LogValue, Rest

(* An event changes the entries it sends records for.                      *)
LEMMA ProcessLog ==
    ASSUME BaseInv, BaseInv', LogInv, ProcessNew \/ ProcessAgain
    PROVE  LogInv'
<1>1. /\ phase = "running" /\ phase' = phase /\ sending' = sending
      /\ accum' = accum /\ changelog' = changelog
  BY DEF ProcessNew, ProcessAgain, kafkaVars
<1>2. /\ Len(source) \in Nat /\ Len(source') \in Nat /\ Len(source) <= Len(source')
      /\ next + 1 \in 0..Len(source') /\ source \in Seq(Event)
  <2>1. /\ source \in Seq(Event) /\ source' \in Seq(Event) /\ next \in 0..Len(source)
        /\ next' \in 0..Len(source') /\ next' = next + 1
    BY DEF BaseInv, TypeOK, ProcessNew, ProcessAgain
  <2>2. Len(source) <= Len(source')
    <3>1. CASE ProcessNew
      <4>1. PICK e \in Event : source' = Append(source, e)
        BY <3>1 DEF ProcessNew
      <4>2. Len(source') = Len(source) + 1
        BY <2>1, <4>1, AppendProperties
      <4> QED
        BY <2>1, <4>2
    <3>2. CASE ProcessAgain
      BY <2>1, <3>2 DEF ProcessAgain
    <3> QED
      BY <3>1, <3>2
  <2> QED
    BY <2>1, <2>2
<1>3. PICK e \in Event : Write(e, next + 1)
  <2>1. CASE ProcessNew
    BY <2>1 DEF ProcessNew
  <2>2. CASE ProcessAgain
    <3>1. next < Len(source) /\ Write(source[next + 1], next + 1) /\ next \in Nat
      BY <2>2 DEF ProcessAgain, BaseInv, TypeOK
    <3>2. next + 1 \in 1..Len(source)
      BY <1>2, <3>1
    <3>3. source[next + 1] \in Event
      BY <1>2, <3>2, ElementOf
    <3> QED
      BY <3>1, <3>3
  <2> QED
    BY <2>1, <2>2
<1> DEFINE S == [key : Keys, val : 0..Len(source')]
           r == Records(e, next + 1)
<1>4. pending \in Seq(S)
  BY <1>2, BaseTypes, WrittenGrows DEF Written
<1>5. /\ r \in Seq(S)
      /\ \A old : \A k \in Touched(e) : LastVal(r, k, old) = WrittenVal(e, next + 1)
      /\ \A k, old : k \notin Touched(e) => LastVal(r, k, old) = old
  BY <1>2, RecordsAre
<1>6. /\ pending' = pending \o r
      /\ store' = [k \in Keys |-> IF k \notin Touched(e) THEN store[k]
                                  ELSE WrittenVal(e, next + 1)]
      /\ unlogged' = unlogged \ Touched(e)
  BY <1>3 DEF Write, WrittenVal
<1> HIDE DEF S, r
<1>7. ASSUME NEW k \in Keys \ unlogged'
      PROVE  store'[k] = LogValue(k)'
  <2> DEFINE y == LastVal(sending, k, LastVal(accum, k, LastVal(changelog, k, 0)))
  <2>1. LogValue(k) = LastVal(pending, k, y)
    BY DEF LogValue
  <2>2. LogValue(k)' = LastVal(pending \o r, k, y)
    BY <1>1, <1>6 DEF LogValue
  <2> HIDE DEF y
  <2>3. LogValue(k)' = LastVal(r, k, LastVal(pending, k, y))
    BY <1>4, <1>5, <2>2, LastValConcat
  <2>4. CASE k \in Touched(e)
    BY <1>5, <1>6, <2>3, <2>4
  <2>5. CASE k \notin Touched(e)
    <3>1. store[k] = LogValue(k)
      BY <1>1, <1>6, <1>7, <2>5 DEF LogInv, RunningInv
    <3> QED
      BY <1>5, <1>6, <2>1, <2>3, <2>5, <3>1
  <2> QED
    BY <2>4, <2>5
<1> QED
  BY <1>1, <1>7 DEF LogInv, RunningInv, RecoveryInv

(* Entries that are expired are noted as not logged.                       *)
LEMMA DelOldLog ==
    ASSUME BaseInv, LogInv, DelOldKeys
    PROVE  LogInv'
<1>1. /\ phase = "running" /\ phase' = phase /\ sending' = sending
      /\ accum' = accum /\ changelog' = changelog /\ pending' = pending
  BY DEF DelOldKeys, kafkaVars, producerVars
<1>2. ASSUME NEW k \in Keys \ unlogged'
      PROVE  store'[k] = LogValue(k)'
  <2>1. LogValue(k)' = LogValue(k)
    BY <1>1 DEF LogValue
  <2>2. k \notin unlogged
    BY <1>2 DEF DelOldKeys
  <2>3. store'[k] = store[k]
    BY <1>2 DEF DelOldKeys
  <2> QED
    BY <1>1, <2>1, <2>2, <2>3 DEF LogInv, RunningInv
<1> QED
  BY <1>1, <1>2 DEF LogInv, RunningInv, RecoveryInv

(* On its way, a record keeps its place.                                   *)
LEMMA ProducerLog ==
    ASSUME BaseInv, LogInv, HandlePending \/ PublishMessage \/ Deliver
    PROVE  LogInv'
<1>1. store' = store /\ unlogged' = unlogged /\ phase' = phase
  BY DEF HandlePending, PublishMessage, Deliver
<1>2. phase = "running"
  BY BaseTypes DEF HandlePending, PublishMessage, Deliver
<1>3. pending \in Seq(Written) /\ sending \in Seq(Written)
      /\ accum \in Seq(Written) /\ changelog \in Seq(Written)
  BY BaseTypes
<1>4. ASSUME NEW k \in Keys
      PROVE  LogValue(k)' = LogValue(k)
  <2> DEFINE c == LastVal(changelog, k, 0)
             a == LastVal(accum, k, c)
             d == LastVal(sending, k, a)
  <2>1. CASE HandlePending
    <3>1. pending # <<>> /\ sending = <<>> /\ pending' = Tail(pending) /\ changelog' = changelog
      BY <2>1 DEF HandlePending, kafkaVars
    <3>2. Head(pending) \in Written
      BY <1>3, <3>1, HeadAndTail
    <3>3. d = a
      BY <3>1, LastValEmpty
    <3>4. LastVal(pending, k, a) = LastVal(Tail(pending), k, LastVal(<<Head(pending)>>, k, a))
      BY <1>3, <3>1, LastValHead
    <3>5. CASE SlowSend
      <4>1. sending' = <<Head(pending)>> /\ accum' = accum
        BY <2>1, <3>5 DEF HandlePending
      <4> QED
        BY <3>1, <3>3, <3>4, <4>1 DEF LogValue
    <3>6. CASE ~SlowSend
      <4>1. sending' = <<>> /\ accum' = Append(accum, Head(pending))
        BY <2>1, <3>1, <3>6 DEF HandlePending
      <4>2. LastVal(accum', k, c) = LastVal(<<Head(pending)>>, k, a)
        BY <1>3, <3>2, <4>1, LastValAppend
      <4>3. LastVal(sending', k, LastVal(accum', k, c)) = LastVal(accum', k, c)
        BY <4>1, LastValEmpty
      <4> QED
        BY <3>1, <3>3, <3>4, <4>2, <4>3 DEF LogValue
    <3> QED
      BY <3>5, <3>6
  <2>2. CASE PublishMessage
    <3>1. accum' = accum \o sending /\ sending' = <<>> /\ pending' = pending
          /\ changelog' = changelog
      BY <2>2 DEF PublishMessage, kafkaVars
    <3>2. LastVal(accum', k, c) = d
      BY <1>3, <3>1, LastValConcat
    <3>3. LastVal(sending', k, d) = d
      BY <3>1, LastValEmpty
    <3> QED
      BY <3>1, <3>2, <3>3 DEF LogValue
  <2>3. CASE Deliver
    <3>1. /\ accum # <<>> /\ changelog' = Append(changelog, Head(accum))
          /\ accum' = Tail(accum) /\ pending' = pending /\ sending' = sending
      BY <2>3 DEF Deliver
    <3>2. Head(accum) \in Written
      BY <1>3, <3>1, HeadAndTail
    <3>3. a = LastVal(Tail(accum), k, LastVal(<<Head(accum)>>, k, c))
      BY <1>3, <3>1, LastValHead
    <3>4. LastVal(changelog', k, 0) = LastVal(<<Head(accum)>>, k, c)
      BY <1>3, <3>1, <3>2, LastValAppend
    <3> QED
      BY <3>1, <3>3, <3>4 DEF LogValue
  <2> QED
    BY <2>1, <2>2, <2>3
<1> QED
  BY <1>1, <1>2, <1>4 DEF LogInv, RunningInv, RecoveryInv

(* A record that is given up is of a key that is noted as not logged.      *)
LEMMA SendErrorLog ==
    ASSUME BaseInv, LogInv, SendError
    PROVE  LogInv'
<1>1. /\ store' = store /\ phase' = phase /\ pending' = pending
      /\ sending' = sending /\ changelog' = changelog
      /\ accum # <<>> /\ accum' = Tail(accum)
      /\ unlogged' = unlogged \cup {Head(accum).key}
  BY DEF SendError, kafkaVars
<1>2. phase = "running" /\ accum \in Seq(Written)
  BY <1>1, BaseTypes
<1>3. ASSUME NEW k \in Keys \ unlogged'
      PROVE  store'[k] = LogValue(k)'
  <2> DEFINE c == LastVal(changelog, k, 0)
  <2>1. Head(accum).key # k /\ k \notin unlogged
    BY <1>1, <1>3
  <2>2. LastVal(accum, k, c) = LastVal(Tail(accum), k, LastVal(<<Head(accum)>>, k, c))
    BY <1>1, <1>2, LastValHead
  <2>3. LastVal(<<Head(accum)>>, k, c) = c
    BY <2>1, LastValOther
  <2>4. LogValue(k)' = LogValue(k)
    BY <1>1, <2>2, <2>3 DEF LogValue
  <2> QED
    BY <1>1, <1>2, <1>3, <2>1, <2>4 DEF LogInv, RunningInv
<1> QED
  BY <1>1, <1>2, <1>3 DEF LogInv, RunningInv, RecoveryInv

(* The whole of a sequence.                                                *)
LEMMA SubSeqWhole ==
    ASSUME NEW S, NEW s \in Seq(S)
    PROVE  SubSeq(s, 1, Len(s)) = s /\ SubSeq(s, Len(s) + 1, Len(s)) = <<>>
<1>1. 0 \in 0..Len(s) /\ Len(s) \in 0..Len(s) /\ Len(s) \in Len(s)..Len(s)
      /\ Len(s) \in Nat
  OBVIOUS
<1>2. /\ SubSeq(s, 0 + 1, Len(s)) \in Seq(S) /\ Len(SubSeq(s, 0 + 1, Len(s))) = Len(s) - 0
      /\ \A i \in 1..(Len(s) - 0) : SubSeq(s, 0 + 1, Len(s))[i] = s[0 + i]
      /\ SubSeq(s, Len(s) + 1, Len(s)) \in Seq(S)
      /\ Len(SubSeq(s, Len(s) + 1, Len(s))) = Len(s) - Len(s)
  BY <1>1, SubSeqSplit
<1>3. 0 + 1 = 1 /\ Len(s) - 0 = Len(s) /\ Len(s) - Len(s) = 0 /\ \A i \in Int : 0 + i = i
  BY <1>1
<1>4. SubSeq(s, 1, Len(s)) = s
  BY <1>2, <1>3, SeqEqual
<1> QED
  BY <1>2, <1>3, <1>4, EmptySeq

(* The records before an offset and those after it make a sequence.        *)
LEMMA LogParts ==
    ASSUME NEW S, NEW s \in Seq(S), NEW p \in 0..Len(s)
    PROVE  /\ SubSeq(s, 0 + 1, p) \in Seq(S) /\ SubSeq(s, p + 1, Len(s)) \in Seq(S)
           /\ SubSeq(s, 0 + 1, Len(s)) = SubSeq(s, 0 + 1, p) \o SubSeq(s, p + 1, Len(s))
<1>1. Len(s) \in Nat /\ 0 \in 0..Len(s) /\ p \in 0..Len(s) /\ Len(s) \in p..Len(s)
  OBVIOUS
<1>2. PICK a \in 0..Len(s) : a = 0
  BY <1>1
<1>3. PICK c \in p..Len(s) : c = Len(s)
  BY <1>1
<1>4. p \in a..Len(s)
  BY <1>1, <1>2
<1>5. /\ SubSeq(s, a + 1, p) \in Seq(S) /\ SubSeq(s, p + 1, c) \in Seq(S)
      /\ SubSeq(s, a + 1, c) = SubSeq(s, a + 1, p) \o SubSeq(s, p + 1, c)
  BY <1>4, SubSeqSplit
<1> QED
  BY <1>2, <1>3, <1>5

(* The records after an offset.                                            *)
IsRest(r, s) == \E p \in 0..Len(s) : r = SubSeq(s, p + 1, Len(s))

(* A changelog is the records before an offset, and then those after it.   *)
LEMMA LogSplit ==
    ASSUME NEW S, NEW s \in Seq(S), NEW r, IsRest(r, s), NEW k, NEW x
    PROVE  r \in Seq(S) /\ \E y : LastVal(s, k, x) = LastVal(r, k, y)
<1>1. PICK p \in 0..Len(s) : r = SubSeq(s, p + 1, Len(s))
  BY DEF IsRest
<1>2. 0 + 1 = 1 /\ SubSeq(s, 1, Len(s)) = s
  BY SubSeqWhole
<1>3. PICK q : q = SubSeq(s, 0 + 1, p)
  OBVIOUS
<1>4. q \in Seq(S) /\ r \in Seq(S) /\ s = q \o r
  BY <1>1, <1>2, <1>3, LogParts
<1>5. LastVal(q \o r, k, x) = LastVal(r, k, LastVal(q, k, x))
  BY <1>4, LastValConcat
<1> QED
  BY <1>4, <1>5

(* Sequences none of whose records is of a key have none of it.            *)
LEMMA HasNone ==
    ASSUME NEW S, NEW p \in Seq(S), NEW q \in Seq(S), NEW r \in Seq(S), NEW k,
           \A x \in Range(p \o q \o r) : x.key # k
    PROVE  ~Has(p, k) /\ ~Has(q, k) /\ ~Has(r, k)
<1>1. ASSUME NEW s \in Seq(S), NEW t \in Seq(S), \A x \in Range(s \o t) : x.key # k
      PROVE  (\A x \in Range(s) : x.key # k) /\ ~Has(s, k) /\ ~Has(t, k)
  <2>0. Len(s) \in Nat /\ Len(t) \in Nat
    OBVIOUS
  <2>1. s \o t \in Seq(S) /\ Len(s \o t) = Len(s) + Len(t)
    BY ConcatProperties
  <2>2. \A i \in 1..Len(s) : i \in 1..Len(s \o t) /\ (s \o t)[i] = s[i]
    BY <2>0, <2>1, ConcatProperties
  <2>3. \A i \in 1..Len(t) : Len(s) + i \in 1..Len(s \o t) /\ (s \o t)[Len(s) + i] = t[i]
    BY <2>0, <2>1, ConcatProperties
  <2>4. \A i \in 1..Len(s \o t) : (s \o t)[i].key # k
    <3>1. PICK w : w = s \o t
      OBVIOUS
    <3>2. w \in Seq(S) /\ \A x \in Range(w) : x.key # k
      BY <1>1, <2>1, <3>1
    <3>3. \A i \in 1..Len(w) : w[i] \in Range(w)
      BY <3>2 DEF Range
    <3> QED
      BY <3>1, <3>2, <3>3
  <2>5. ~Has(s, k) /\ ~Has(t, k)
    BY <2>2, <2>3, <2>4 DEF Has
  <2> QED
    BY <2>5 DEF Has, Range
<1>2. PICK u : u = p \o q
  OBVIOUS
<1>3. u \in Seq(S)
  BY <1>2, ConcatProperties
<1>4. (\A x \in Range(u) : x.key # k) /\ ~Has(r, k)
  BY <1>1, <1>2, <1>3
<1>5. ~Has(p, k) /\ ~Has(q, k)
  BY <1>1, <1>2, <1>4
<1> QED
  BY <1>4, <1>5

(* The worker ends.  What the producer had not sent is noted as not        *)
(* logged, and the records after the offset that was persisted are applied *)
(* again to entries that may have them.                                    *)
LEMMA CrashLog ==
    ASSUME BaseInv, LogInv, NEW kept \in {FALSE, driver = "rocksdb"}, Crash(kept)
    PROVE  LogInv'
<1>1. /\ changelog' = changelog /\ phase' = "recovering" /\ cursor' = persisted'
      /\ store' = IF kept THEN store ELSE Empty
      /\ persisted' = IF kept THEN persisted ELSE 0
      /\ unlogged' = IF kept THEN unlogged \cup {r.key : r \in Range(pending \o sending \o accum)}
                     ELSE {}
  BY DEF Crash
<1>2. changelog \in Seq(Written) /\ persisted \in 0..Len(changelog)
      /\ pending \in Seq(Written) /\ sending \in Seq(Written) /\ accum \in Seq(Written)
  BY BaseTypes
<1>3. ASSUME NEW k \in Keys \ unlogged'
      PROVE  LastVal(Rest', k, store'[k]) = LastVal(changelog', k, 0)
  <2>1. CASE ~kept
    <3>1. cursor' = 0 /\ store'[k] = 0
      BY <1>1, <1>3, <2>1 DEF Empty
    <3>2. Rest' = changelog
      BY <1>1, <1>2, <3>1, SubSeqWhole DEF Rest
    <3> QED
      BY <1>1, <3>1, <3>2
  <2>2. CASE kept
    <3>1. driver = "rocksdb" /\ cursor' = persisted /\ store' = store
      BY <1>1, <2>2
    <3>2. Rest' = SubSeq(changelog, persisted + 1, Len(changelog))
      BY <1>1, <3>1 DEF Rest
    <3>3. k \notin unlogged /\ \A r \in Range(pending \o sending \o accum) : r.key # k
      BY <1>1, <1>3, <2>2
    <3>4. CASE phase = "recovering"
      <4>1. persisted = cursor
        BY <3>1, <3>4 DEF BaseInv, CommitInv
      <4>2. Rest' = Rest
        BY <3>2, <4>1 DEF Rest
      <4> QED
        BY <1>1, <1>3, <3>1, <3>3, <3>4, <4>2 DEF LogInv, RecoveryInv
    <3>5. CASE phase = "running"
      <4>1. ~Has(pending, k) /\ ~Has(sending, k) /\ ~Has(accum, k)
        BY <1>2, <3>3, HasNone
      <4>2. store[k] = LastVal(changelog, k, 0)
        <5> DEFINE c == LastVal(changelog, k, 0)
        <5>1. LastVal(accum, k, c) = c
          BY <1>2, <4>1, LastValNone
        <5>2. LastVal(sending, k, c) = c
          BY <1>2, <4>1, LastValNone
        <5>3. LastVal(pending, k, c) = c
          BY <1>2, <4>1, LastValNone
        <5>4. LogValue(k) = c
          BY <5>1, <5>2, <5>3 DEF LogValue
        <5> QED
          BY <1>3, <3>3, <3>5, <5>4 DEF LogInv, RunningInv
      <4>3. PICK r : r = SubSeq(changelog, persisted + 1, Len(changelog))
        OBVIOUS
      <4>4. IsRest(r, changelog)
        BY <1>2, <4>3 DEF IsRest
      <4>5. PICK y : LastVal(changelog, k, 0) = LastVal(r, k, y)
        BY <1>2, <4>4, LogSplit
      <4>6. r \in Seq(Written)
        BY <1>2, <4>4, LogSplit
      <4>7. LastVal(r, k, LastVal(r, k, y)) = LastVal(r, k, y)
        BY <4>6, LastValTwice
      <4>8. LastVal(r, k, LastVal(changelog, k, 0)) = LastVal(changelog, k, 0)
        BY <4>5, <4>7
      <4> QED
        BY <1>1, <3>1, <3>2, <4>2, <4>3, <4>8
    <3> QED
      BY <3>4, <3>5, BaseTypes
  <2> QED
    BY <2>1, <2>2
<1> QED
  BY <1>1, <1>3 DEF LogInv, RunningInv, RecoveryInv

(* Both stores make of a batch what its records say, in their order.       *)
LEMMA AppliedIs ==
    ASSUME BaseInv, ~Falsy \/ Stores \subseteq {"rocksdb"},
           NEW batch \in Seq(Written), NEW k \in Keys
    PROVE  (IF driver = "memory" THEN AppliedMemory(batch) ELSE Applied(batch))[k]
              = LastVal(batch, k, store[k])
<1>1. CASE driver # "memory"
  BY <1>1 DEF Applied
<1>2. CASE driver = "memory"
  <2>1. ~Falsy
    BY <1>2 DEF BaseInv, TypeOK
  <2>2. PICK v : v = LastVal(batch, k, store[k])
    OBVIOUS
  <2>3. v \in 0..Len(source)
    <3>1. store[k] \in 0..Len(source) /\ batch \in Seq([key : Keys, val : 0..Len(source)])
      BY DEF BaseInv, ValueInv, Written
    <3> QED
      BY <2>2, <3>1, LastValType
  <2>4. v # 0 => Truthy(v)
    <3>1. SUFFICES ASSUME v # 0 PROVE Truthy(v)
      OBVIOUS
    <3>2. source \in Seq(Event) /\ v \in 1..Len(source)
      BY <2>3, <3>1 DEF BaseInv, TypeOK
    <3>3. source[v] \in Event
      BY <3>2, ElementOf
    <3>4. source[v].op # "zero"
      BY <2>1, <3>3 DEF Event, Ops
    <3> QED
      BY <3>1, <3>4 DEF Truthy
  <2>5. AppliedMemory(batch)[k]
          = IF [key |-> k, val |-> 0] \in Range(batch) /\ ~Truthy(v) THEN 0 ELSE v
    BY <2>2 DEF AppliedMemory
  <2> QED
    BY <1>2, <2>2, <2>4, <2>5
<1> QED
  BY <1>1, <1>2

(* A batch of the changelog is applied.                                    *)
LEMMA ApplyLog ==
    ASSUME BaseInv, LogInv, ~Falsy \/ Stores \subseteq {"rocksdb"},
           NEW n \in 1..BatchMax, ApplyChangelogBatch(n)
    PROVE  LogInv'
<1>0. PICK b : b = SubSeq(changelog, cursor + 1, cursor + n)
  OBVIOUS
<1>1. /\ phase = "recovering" /\ phase' = phase /\ changelog' = changelog
      /\ cursor + n <= Len(changelog) /\ cursor' = cursor + n
      /\ store' = IF driver = "memory" THEN AppliedMemory(b) ELSE Applied(b)
      /\ unlogged' = unlogged \ {r.key : r \in Range(b)}
  BY <1>0 DEF ApplyChangelogBatch, kafkaVars
<1>2. /\ changelog \in Seq(Written) /\ cursor \in 0..Len(changelog)
      /\ n \in Nat /\ cursor \in Nat /\ Len(changelog) \in Nat
  BY TableAssumption, BaseTypes
<1>3. PICK r : r = SubSeq(changelog, cursor + n + 1, Len(changelog))
  OBVIOUS
<1>4. b \in Seq(Written) /\ r \in Seq(Written) /\ Rest = b \o r /\ Rest' = r
  <2>1. cursor + n \in cursor..Len(changelog) /\ Len(changelog) \in (cursor + n)..Len(changelog)
    BY <1>1, <1>2
  <2>2. /\ SubSeq(changelog, cursor + 1, cursor + n) \in Seq(Written)
        /\ SubSeq(changelog, (cursor + n) + 1, Len(changelog)) \in Seq(Written)
        /\ SubSeq(changelog, cursor + 1, Len(changelog))
             = SubSeq(changelog, cursor + 1, cursor + n)
                 \o SubSeq(changelog, (cursor + n) + 1, Len(changelog))
    BY <1>2, <2>1, SubSeqSplit
  <2> QED
    BY <1>0, <1>1, <1>3, <2>2 DEF Rest
<1>5. ASSUME NEW k \in Keys \ unlogged'
      PROVE  LastVal(Rest', k, store'[k]) = LastVal(changelog', k, 0)
  <2>1. store'[k] = LastVal(b, k, store[k])
    BY <1>1, <1>4, <1>5, AppliedIs
  <2>2. \A x : LastVal(Rest, k, x) = LastVal(r, k, LastVal(b, k, x))
    <3> TAKE x
    <3>1. LastVal(b \o r, k, x) = LastVal(r, k, LastVal(b, k, x))
      BY <1>4, LastValConcat
    <3> QED
      BY <1>4, <3>1
  <2>3. CASE k \notin unlogged
    <3>1. LastVal(Rest, k, store[k]) = LastVal(changelog, k, 0)
      BY <1>1, <1>5, <2>3 DEF LogInv, RecoveryInv
    <3> QED
      BY <1>1, <1>4, <2>1, <2>2, <3>1
  <2>4. CASE k \in unlogged
    <3>1. \E i \in Range(b) : i.key = k
      BY <1>1, <1>5, <2>4
    <3>2. Has(b, k)
      BY <1>4, <3>1 DEF Has, Range
    <3>3. PICK y : LastVal(changelog, k, 0) = LastVal(Rest, k, y)
      <4>1. PICK t : t = SubSeq(changelog, cursor + 1, Len(changelog))
        OBVIOUS
      <4>2. \E y : LastVal(changelog, k, 0) = LastVal(t, k, y)
        <5>1. IsRest(t, changelog)
          BY <1>2, <4>1 DEF IsRest
        <5> QED
          BY <1>2, <5>1, LogSplit
      <4> QED
        BY <4>1, <4>2 DEF Rest
    <3>4. LastVal(b, k, y) = LastVal(b, k, store[k])
      BY <1>4, <3>2, LastValHas
    <3> QED
      BY <1>1, <1>4, <2>1, <2>2, <3>3, <3>4
  <2> QED
    BY <2>3, <2>4
<1> QED
  BY <1>1, <1>5 DEF LogInv, RunningInv, RecoveryInv

(* The table is recovered when no record is left.                          *)
LEMMA CompletedLog ==
    ASSUME BaseInv, LogInv, OnRecoveryCompleted
    PROVE  LogInv'
<1>1. /\ phase = "recovering" /\ phase' = "running" /\ cursor = Len(changelog)
      /\ store' = store /\ unlogged' = unlogged /\ changelog' = changelog
      /\ pending' = pending /\ sending' = sending /\ accum' = accum
  BY DEF OnRecoveryCompleted, producerVars, kafkaVars
<1>2. pending = <<>> /\ sending = <<>> /\ accum = <<>> /\ changelog \in Seq(Written)
  BY <1>1, BaseTypes
<1>3. Rest = <<>>
  BY <1>1, <1>2, SubSeqWhole DEF Rest
<1>4. ASSUME NEW k \in Keys \ unlogged'
      PROVE  store'[k] = LogValue(k)'
  <2>1. store[k] = LastVal(changelog, k, 0)
    <3>1. LastVal(Rest, k, store[k]) = LastVal(changelog, k, 0)
      BY <1>1, <1>4 DEF LogInv, RecoveryInv
    <3> QED
      BY <1>3, <3>1, LastValEmpty
  <2>2. LogValue(k)' = LastVal(changelog, k, 0)
    BY <1>1, <1>2, LastValEmpty DEF LogValue
  <2> QED
    BY <1>1, <2>1, <2>2
<1> QED
  BY <1>1, <1>4 DEF LogInv, RunningInv, RecoveryInv

(* Every step keeps the table and its changelog together.                  *)
LEMMA LogStep ==
    ASSUME BaseInv, LogInv, ~Falsy \/ Stores \subseteq {"rocksdb"}, [Next]_vars
    PROVE  LogInv'
<1>1. CASE \/ UNCHANGED vars \/ Tick \/ OnChangelogSent
           \/ CommitStart \/ FlushBuffer \/ FlushProducer \/ Commit
  <2>1. /\ store' = store /\ changelog' = changelog /\ accum' = accum
        /\ sending' = sending /\ pending' = pending /\ cursor' = cursor
        /\ phase' = phase /\ unlogged' = unlogged
    BY <1>1 DEF vars, Tick, OnChangelogSent, CommitStart, FlushBuffer,
       FlushProducer, Commit, producerVars, kafkaVars
  <2> QED
    BY <2>1, LogSame
<1>2. CASE ProcessNew \/ ProcessAgain
  <2>1. BaseInv'
    BY BaseStep
  <2> QED
    BY <1>2, <2>1, ProcessLog
<1>3. CASE \E kept \in {FALSE, driver = "rocksdb"} : Crash(kept)
  BY <1>3, CrashLog
<1>4. CASE \E n \in 1..BatchMax : ApplyChangelogBatch(n)
  BY <1>4, ApplyLog
<1> QED
  BY <1>1, <1>2, <1>3, <1>4, DelOldLog, ProducerLog, SendErrorLog, CompletedLog DEF Next

(* The values of a table and its changelog, with what is on its way to it, *)
(* are one sequence of records.                                            *)
LEMMA ReplayIs ==
    ASSUME BaseInv, NEW k \in Keys
    PROVE  Replay[k] = LogValue(k)
<1>1. /\ pending \in Seq(Written) /\ sending \in Seq(Written)
      /\ accum \in Seq(Written) /\ changelog \in Seq(Written)
  BY BaseTypes
<1>2. PICK u : u = changelog \o accum
  OBVIOUS
<1>3. PICK v : v = u \o sending
  OBVIOUS
<1>4. u \in Seq(Written) /\ v \in Seq(Written)
  BY <1>1, <1>2, <1>3, ConcatProperties
<1>5. LastVal(u, k, 0) = LastVal(accum, k, LastVal(changelog, k, 0))
  BY <1>1, <1>2, LastValConcat
<1>6. LastVal(v, k, 0) = LastVal(sending, k, LastVal(u, k, 0))
  BY <1>1, <1>3, <1>4, LastValConcat
<1>7. LastVal(v \o pending, k, 0) = LastVal(pending, k, LastVal(v, k, 0))
  BY <1>1, <1>4, LastValConcat
<1>8. Replay[k] = LastVal(v \o pending, k, 0)
  BY <1>2, <1>3 DEF Replay
<1> QED
  BY <1>5, <1>6, <1>7, <1>8 DEF LogValue

(* A running table is what a replay of its changelog, with all that is on  *)
(* its way to it, would make of it, but for the entries that were expired  *)
(* or whose record was lost: after any crashes, from whatever offset was   *)
(* persisted, in batches of any size.  A store in memory drops false       *)
(* values, so that it keeps this only when events write none.              *)
THEOREM TableIsLogCorrect ==
    ASSUME ~Falsy \/ Stores \subseteq {"rocksdb"}
    PROVE  Spec => []TableIsLog
<1> DEFINE Inv == BaseInv /\ LogInv
<1>1. Init => Inv
  <2> SUFFICES ASSUME Init PROVE Inv
    OBVIOUS
  <2>1. ASSUME NEW k \in Keys PROVE store[k] = LogValue(k)
    BY LastValEmpty DEF Init, Empty, LogValue
  <2> QED
    BY <2>1, BaseInit DEF LogInv, RunningInv, RecoveryInv, Init
<1>2. Inv /\ [Next]_vars => Inv'
  BY BaseStep, LogStep
<1>3. Inv => TableIsLog
  BY ReplayIs DEF LogInv, RunningInv, TableIsLog
<1> QED
  BY <1>1, <1>2, <1>3, PTL DEF Spec

=============================================================================

---------------------------- MODULE AssignorProofs ----------------------------
(***************************************************************************)
(* Theorems about Assignor for any clients, partitions and standbys, and   *)
(* for all rounds.                                                         *)
(***************************************************************************)
EXTENDS Assignor, SequenceTheorems, FiniteSetTheorems, WellFoundedInduction, TLAPS

-----------------------------------------------------------------------------
(* The inductive invariant                                                 *)

(* The loops: there is a member, and the candidates are the members.       *)
LoopInv ==
    /\ pc # "idle" => members # <<>>
    /\ pc = "extras" => kind = "active" /\ cursor < NumClients
    /\ pc = "assign" => /\ candidates \in [1..NumClients -> Members]
                        /\ \A c \in Members : \E i \in 1..NumClients : candidates[i] = c
    /\ pc = "done" => kind = "standby"

(* No client goes beyond its share, once unassign_extras has been there,   *)
(* or has a partition twice.                                               *)
ShareInv ==
    /\ \A c \in Clients : assigned[c]["active"] \cap assigned[c]["standby"] = {}
    /\ \A i \in 1..NumClients : (pc # "extras" \/ i <= cursor) =>
          /\ Load(members[i], "active") <= MaxCapacity
          /\ Load(members[i], "standby") <= MaxCapacity * EffReplicas

(* How often a partition is still to be given out.                         *)
Occurs(s, p) == Cardinality({i \in 1..Len(s) : s[i] = p})

(* What is assigned and what is still to be assigned are together what     *)
(* there has to be.                                                        *)
CountInv ==
    /\ pc # "failed"
    /\ \A p \in Partitions :
         /\ pc = "sort" => Count(kind, p) <= TotalAssigns(kind)
         /\ pc = "assign" => Count(kind, p) + Occurs(unassigned, p) = TotalAssigns(kind)
         /\ kind = "standby" => Count("active", p) = 1
         /\ pc = "done" => Count("standby", p) = EffReplicas

AssignInv == LoopInv /\ ShareInv /\ CountInv

(* Before anything is given out.                                           *)
Taking == kind = "active" /\ pc \in {"extras", "over", "sort"}

(* Nobody has more than it claimed, as long as nothing is given out, nor   *)
(* more standbys, as long as actives are.                                  *)
ClaimInv ==
    \A c \in Members :
        /\ Taking => assigned[c]["active"] \subseteq start[c]["active"]
        /\ kind = "active" => assigned[c]["standby"] \subseteq start[c]["standby"]

(* An active that nobody else claims stays with a client within capacity.  *)
StickyInv ==
    \A c \in Members : Cardinality(start[c]["active"]) <= MaxCapacity =>
        \A p \in start[c]["active"] :
            \/ p \in assigned[c]["active"]
            \/ \E d \in Members \ {c} : p \in start[d]["active"]

(* c has p as a standby and keeps it, and nobody claims p as an active.    *)
Heir(c, p) ==
    /\ \A d \in Members : p \notin start[d]["active"]
    /\ p \in start[c]["standby"]
    /\ Cardinality(start[c]["standby"]) <= Capacity * EffReplicas

(* p has gone to a client that had it as a standby.                        *)
Promoted(p) == \E d \in Members : p \in start[d]["standby"] /\ p \in assigned[d]["active"]

(* p is still with c, and not given out.                                   *)
Pending(c, p) ==
    /\ p \in assigned[c]["standby"]
    /\ \A d \in Members : p \notin assigned[d]["active"]

PromoteInv ==
    \A c \in Members, p \in Partitions : Heir(c, p) =>
        /\ Taking => Pending(c, p)
        /\ kind = "active" =>
             Pending(c, p) \/ Promoted(p) \/ Load(c, "active") >= MaxCapacity
        /\ kind = "standby" => Promoted(p) \/ Load(c, "active") >= MaxCapacity

-----------------------------------------------------------------------------
(* Numbers, sequences and finite sets                                      *)

(* The order of numbers as a relation.                                     *)
LEMMA LessIsRelation ==
    \A x, y \in Nat : x < y => <<x, y>> \in OpToRel(<, Nat)
  BY Zenon DEF OpToRel

(* A set of numbers has a first one.                                       *)
LEMMA MinIn ==
    ASSUME NEW S \in SUBSET Nat, S # {}
    PROVE  Min(S) \in S
<1>1. PICK x \in S : \A y \in S : ~ (<<y, x>> \in OpToRel(<, Nat))
  BY WFMin, NatLessThanWellFounded
<1>2. \A y \in S : ~ (y < x)
  BY <1>1, LessIsRelation, Zenon
<1>3. \A y \in S : x <= y
  BY <1>2
<1> QED
  BY <1>3, Zenon DEF Min

(* A function on 1..n is a sequence of length n.                           *)
LEMMA FunctionIsSeq ==
    ASSUME NEW S, NEW n \in Nat, NEW f \in [1..n -> S]
    PROVE  f \in Seq(S) /\ Len(f) = n /\ DOMAIN f = 1..n
<1>1. f \in Seq(S)
  BY SeqDef
<1>2. Len(f) \in Nat /\ DOMAIN f = 1..Len(f) /\ DOMAIN f = 1..n
  BY <1>1, LenProperties
<1> QED
  BY <1>1, <1>2

(* A one-to-one map into a finite set; it is onto when both have as many   *)
(* elements.                                                               *)
LEMMA OneToOne ==
    ASSUME NEW S, NEW T, IsFiniteSet(T), NEW f \in [S -> T],
           \A x, y \in S : f[x] = f[y] => x = y
    PROVE  /\ IsFiniteSet(S) /\ Cardinality(S) \in Nat /\ Cardinality(T) \in Nat
           /\ Cardinality(S) <= Cardinality(T)
           /\ Cardinality(S) = Cardinality(T) => \A t \in T : \E x \in S : f[x] = t
<1>1. f \in Injection(S, T)
  BY DEF Injection, IsInjective
<1>2. /\ IsFiniteSet(S) /\ Cardinality(S) <= Cardinality(T)
      /\ Cardinality(S) = Cardinality(T) => f \in Surjection(S, T)
  BY <1>1, FS_Injection
<1>3. Cardinality(S) \in Nat /\ Cardinality(T) \in Nat
  BY <1>2, FS_CardinalityType
<1> QED
  BY <1>2, <1>3 DEF Surjection

(* When it is onto, both have as many elements.                            *)
LEMMA SameSize ==
    ASSUME NEW S, NEW T, IsFiniteSet(T), NEW f \in [S -> T],
           \A x, y \in S : f[x] = f[y] => x = y,
           \A t \in T : \E x \in S : f[x] = t
    PROVE  IsFiniteSet(S) /\ Cardinality(S) = Cardinality(T)
<1>1. f \in Injection(S, T) /\ f \in Surjection(S, T)
  BY DEF Injection, IsInjective, Surjection
<1> QED
  BY <1>1, FS_Injection

(* A part of a finite set.                                                 *)
LEMMA PartSize ==
    ASSUME NEW S, NEW T, IsFiniteSet(S), T \subseteq S
    PROVE  /\ IsFiniteSet(T) /\ Cardinality(T) \in Nat /\ Cardinality(S) \in Nat
           /\ Cardinality(T) <= Cardinality(S)
           /\ \A x \in S \ T : Cardinality(T) < Cardinality(S)
<1>1. /\ IsFiniteSet(T) /\ Cardinality(T) <= Cardinality(S)
      /\ Cardinality(S) = Cardinality(T) => S = T
  BY FS_Subset
<1>2. Cardinality(T) \in Nat /\ Cardinality(S) \in Nat
  BY <1>1, FS_CardinalityType
<1> QED
  BY <1>1, <1>2

-----------------------------------------------------------------------------
(* Sorting: R is the order of the members of a finite set S.               *)
Order(S, R) ==
    /\ \A x \in S : <<x, x>> \notin R
    /\ \A x, y \in S : x = y \/ <<x, y>> \in R \/ <<y, x>> \in R
    /\ \A x, y, z \in S : <<x, y>> \in R /\ <<y, z>> \in R => <<x, z>> \in R

(* How many come before x.                                                 *)
Rank(S, R, x) == Cardinality({y \in S : <<y, x>> \in R})

(* Different members have different ranks.                                 *)
LEMMA RankFacts ==
    ASSUME NEW S, NEW R, IsFiniteSet(S), Order(S, R)
    PROVE  /\ \A x \in S : Rank(S, R, x) \in Nat /\ Rank(S, R, x) < Cardinality(S)
           /\ \A x, y \in S : Rank(S, R, x) = Rank(S, R, y) => x = y
<1>1. \A x \in S : Rank(S, R, x) \in Nat /\ Rank(S, R, x) < Cardinality(S)
  <2> TAKE x \in S
  <2> DEFINE T == {y \in S : <<y, x>> \in R}
  <2>1. T \subseteq S /\ x \in S \ T
    BY DEF Order
  <2> HIDE DEF T
  <2>2. Cardinality(T) \in Nat /\ Cardinality(T) < Cardinality(S)
    BY <2>1, PartSize
  <2> QED
    BY <2>2 DEF T, Rank
<1>2. ASSUME NEW x \in S, NEW y \in S, <<x, y>> \in R
      PROVE  Rank(S, R, x) < Rank(S, R, y)
  <2> DEFINE T == {z \in S : <<z, x>> \in R}
             U == {z \in S : <<z, y>> \in R}
  <2>1. U \subseteq S /\ T \subseteq U /\ x \in U \ T
    BY <1>2 DEF Order
  <2> HIDE DEF T, U
  <2>2. IsFiniteSet(U)
    BY <2>1, PartSize
  <2>3. Cardinality(T) < Cardinality(U)
    BY <2>1, <2>2, PartSize
  <2> QED
    BY <2>3 DEF T, U, Rank
<1>3. ASSUME NEW x \in S, NEW y \in S, Rank(S, R, x) = Rank(S, R, y)
      PROVE  x = y
  <2>1. CASE <<x, y>> \in R
    BY <1>1, <1>2, <1>3, <2>1
  <2>2. CASE <<y, x>> \in R
    BY <1>1, <1>2, <1>3, <2>2
  <2> QED
    BY <2>1, <2>2 DEF Order
<1> QED
  BY <1>1, <1>3

(* Sorted gives each member of S one place.                                *)
LEMMA SortedFacts ==
    ASSUME NEW S, NEW R, IsFiniteSet(S), Order(S, R)
    PROVE  /\ Cardinality(S) \in Nat
           /\ Sorted(S, R) \in [1..Cardinality(S) -> S]
           /\ \A i, j \in 1..Cardinality(S) : Sorted(S, R)[i] = Sorted(S, R)[j] => i = j
           /\ \A x \in S : \E i \in 1..Cardinality(S) : Sorted(S, R)[i] = x
<1> DEFINE n == Cardinality(S)
           f == [x \in S |-> Rank(S, R, x)]
           s == Sorted(S, R)
<1>1. n \in Nat
  BY FS_CardinalityType
<1> HIDE DEF n
<1> DEFINE T == 0..n - 1
<1>2. IsFiniteSet(T) /\ Cardinality(T) = n
  BY <1>1, FS_Interval
<1>3. /\ \A x \in S : Rank(S, R, x) \in T
      /\ \A x, y \in S : Rank(S, R, x) = Rank(S, R, y) => x = y
  BY <1>1, RankFacts DEF n
<1> HIDE DEF T
<1>4. f \in [S -> T] /\ \A x, y \in S : f[x] = f[y] => x = y
  BY <1>3
<1> HIDE DEF f
<1>5. Cardinality(S) = Cardinality(T)
  BY <1>2 DEF n
<1>6. \A t \in T : \E x \in S : f[x] = t
  BY <1>2, <1>4, <1>5, OneToOne
<1>7. \A t \in 0..n - 1 : \E x \in S : Rank(S, R, x) = t
  BY <1>6 DEF f, T
<1>8. \A i \in 1..n : i - 1 \in 0..n - 1
  BY <1>1
<1>9. s = [i \in 1..n |-> CHOOSE x \in S : Rank(S, R, x) = i - 1]
  BY DEF Sorted, Rank, n
<1>10. \A i \in 1..n : s[i] \in S /\ Rank(S, R, s[i]) = i - 1
  <2> TAKE i \in 1..n
  <2>1. \E x \in S : Rank(S, R, x) = i - 1
    BY <1>7, <1>8
  <2>2. s[i] = CHOOSE x \in S : Rank(S, R, x) = i - 1
    BY <1>9
  <2> QED
    BY <2>1, <2>2
<1>11. s \in [1..n -> S]
  BY <1>9, <1>10
<1> HIDE DEF s
<1>12. \A i, j \in 1..n : s[i] = s[j] => i = j
  <2> TAKE i, j \in 1..n
  <2> HAVE s[i] = s[j]
  <2>1. i - 1 = j - 1
    BY <1>10
  <2> QED
    BY <2>1, <1>1
<1>13. \A x \in S : \E i \in 1..n : s[i] = x
  <2> TAKE x \in S
  <2>1. Rank(S, R, x) \in 0..n - 1
    BY <1>3 DEF T
  <2>2. PICK i \in 1..n : Rank(S, R, x) = i - 1
    BY <2>1, <1>1
  <2>3. s[i] = x
    BY <1>3, <1>10, <2>2
  <2> QED
    BY <2>3
<1> QED
  BY <1>1, <1>11, <1>12, <1>13 DEF n, s

-----------------------------------------------------------------------------
(* The mapping of clients                                                  *)

(* Members are finitely many, each with a place of its own.                *)
LEMMA MemberFacts ==
    ASSUME TypeOK
    PROVE  /\ NumClients \in Nat /\ Members \subseteq Clients
           /\ IsFiniteSet(Members) /\ Cardinality(Members) = NumClients
           /\ \A i \in 1..NumClients : members[i] \in Members
           /\ \A i, j \in 1..NumClients : members[i] = members[j] => i = j
           /\ \A c \in Members : Index(c) \in 1..NumClients /\ members[Index(c)] = c
           /\ members # <<>> => NumClients > 0
<1>1. /\ members \in Seq(Clients) /\ NumClients \in Nat
      /\ DOMAIN members = 1..NumClients
      /\ members # <<>> => NumClients > 0
  BY DEF TypeOK, NumClients
<1>2. \A i \in 1..NumClients : members[i] \in Clients
  BY <1>1 DEF NumClients
<1>3. Members = {members[i] : i \in 1..NumClients}
  BY <1>1 DEF Members, Range
<1>4. \A i, j \in 1..NumClients : members[i] = members[j] => i = j
  BY <1>1 DEF TypeOK, IsInjective
<1> DEFINE f == [i \in 1..NumClients |-> members[i]]
<1>5. Members \subseteq Clients /\ IsFiniteSet(Members)
  <2>1. Members \subseteq Clients
    BY <1>2, <1>3
  <2> QED
    BY <2>1, FS_Subset, AssignorAssumption
<1>6. /\ f \in [1..NumClients -> Members]
      /\ \A i, j \in 1..NumClients : f[i] = f[j] => i = j
      /\ \A c \in Members : \E i \in 1..NumClients : f[i] = c
  BY <1>3, <1>4
<1> HIDE DEF f
<1>7. Cardinality(1..NumClients) = Cardinality(Members)
  <2> DEFINE D == 1..NumClients
  <2>1. /\ f \in [D -> Members]
        /\ \A i, j \in D : f[i] = f[j] => i = j
        /\ \A c \in Members : \E i \in D : f[i] = c
    BY <1>6
  <2> HIDE DEF D
  <2>2. Cardinality(D) = Cardinality(Members)
    BY <1>5, <2>1, SameSize
  <2> QED
    BY <2>2 DEF D
<1>8. Cardinality(1..NumClients) = NumClients
  BY <1>1, FS_Interval
<1>9. \A c \in Members : Index(c) \in 1..NumClients /\ members[Index(c)] = c
  <2> TAKE c \in Members
  <2>1. \E i \in 1..NumClients : members[i] = c
    BY <1>3
  <2> QED
    BY <2>1 DEF Index
<1> QED
  BY <1>1, <1>3, <1>4, <1>5, <1>7, <1>8, <1>9

(* Dividing with a remainder.                                              *)
LEMMA DivFacts ==
    ASSUME NEW a \in Nat, NEW n \in Nat \ {0}
    PROVE  /\ a \div n \in Nat
           /\ (a \div n) * n <= a
           /\ a < (a \div n) * n + n
  OBVIOUS

(* The capacities are numbers, and as much as there has to be.             *)
LEMMA CapacityFacts ==
    ASSUME TypeOK, members # <<>>
    PROVE  /\ EffReplicas \in Nat /\ EffReplicas <= NumClients - 1
           /\ MaxCapacity \in Nat /\ MinCapacity \in Nat /\ Capacity \in Nat
           /\ NumPartitions <= MaxCapacity * NumClients
           /\ MinCapacity <= MaxCapacity /\ Capacity <= MaxCapacity
           /\ Replicas # 0 => Capacity = MaxCapacity
<1> DEFINE n == NumClients
           P == NumPartitions
<1>1. n \in Nat \ {0}
  BY MemberFacts
<1>2. P \in Nat \ {0} /\ Replicas \in Nat
  BY AssignorAssumption
<1>3. EffReplicas = IF Replicas <= n - 1 THEN Replicas ELSE n - 1
  <2>1. {Replicas, n - 1} \in SUBSET Nat /\ {Replicas, n - 1} # {}
    BY <1>1, <1>2
  <2>2. EffReplicas \in {Replicas, n - 1}
    BY <2>1, MinIn DEF EffReplicas
  <2>3. \A x \in {Replicas, n - 1} : EffReplicas <= x
    <3>1. \E y \in {Replicas, n - 1} : \A x \in {Replicas, n - 1} : y <= x
      BY <1>1, <1>2
    <3>2. EffReplicas = CHOOSE y \in {Replicas, n - 1} : \A x \in {Replicas, n - 1} : y <= x
      BY DEF EffReplicas, Min
    <3> QED
      BY <3>1, <3>2
  <2> QED
    BY <1>1, <1>2, <2>2, <2>3
<1>4. /\ MinCapacity \in Nat
      /\ MinCapacity * n <= P /\ P < MinCapacity * n + n
  BY <1>1, <1>2, DivFacts DEF MinCapacity
<1>5. /\ MaxCapacity \in Nat
      /\ MaxCapacity * n <= P + n - 1 /\ P + n - 1 < MaxCapacity * n + n
  <2>1. P + n - 1 \in Nat
    BY <1>1, <1>2
  <2> QED
    BY <1>1, <2>1, DivFacts DEF MaxCapacity
<1>6. P <= MaxCapacity * n
  <2> DEFINE x == MaxCapacity * n
  <2>1. x \in Nat
    BY <1>1, <1>5
  <2>2. P + n - 1 < x + n
    BY <1>5
  <2> HIDE DEF x
  <2>3. P <= x
    BY <1>1, <1>2, <2>1, <2>2
  <2> QED
    BY <2>3 DEF x
<1>7. MinCapacity <= MaxCapacity
  <2> SUFFICES ASSUME MaxCapacity < MinCapacity PROVE FALSE
    BY <1>4, <1>5
  <2>1. MaxCapacity + 1 <= MinCapacity
    BY <1>4, <1>5
  <2>2. (MaxCapacity + 1) * n <= MinCapacity * n
    BY <1>1, <1>4, <1>5, <2>1
  <2>3. (MaxCapacity + 1) * n = MaxCapacity * n + n
    BY <1>1, <1>5
  <2> DEFINE x == MaxCapacity * n
             y == MinCapacity * n
  <2>4. x \in Nat /\ y \in Nat /\ x + n <= y /\ y <= P /\ P + n - 1 < x + n
    BY <1>1, <1>4, <1>5, <2>2, <2>3
  <2> HIDE DEF x, y
  <2> QED
    BY <1>1, <1>2, <2>4
<1>8. Replicas # 0 => Capacity = MaxCapacity
  <2> SUFFICES ASSUME Replicas # 0, EffReplicas = 0, P >= n
               PROVE  MinCapacity = MaxCapacity
    BY DEF Capacity
  <2>1. n = 1
    BY <1>1, <1>2, <1>3
  <2>2. MinCapacity = P \div 1 /\ MaxCapacity = (P + 1 - 1) \div 1
    BY <2>1 DEF MinCapacity, MaxCapacity
  <2> QED
    BY <1>2, <2>2
<1>9. EffReplicas \in Nat /\ EffReplicas <= n - 1
  BY <1>1, <1>2, <1>3
<1> QED
  BY <1>4, <1>5, <1>6, <1>7, <1>8, <1>9 DEF Capacity

(* What a client has is finite, and so are those that have a partition.    *)
LEMMA AssignedFacts ==
    ASSUME TypeOK
    PROVE  /\ IsFiniteSet(Partitions) /\ Cardinality(Partitions) = NumPartitions
           /\ \A c \in Clients, k \in Kinds :
                /\ assigned[c][k] \subseteq Partitions
                /\ IsFiniteSet(assigned[c][k]) /\ Load(c, k) \in Nat
           /\ \A k \in Kinds, p \in Partitions :
                /\ Holders(k, p) \subseteq Members
                /\ IsFiniteSet(Holders(k, p)) /\ Count(k, p) \in Nat
<1>1. IsFiniteSet(Partitions) /\ Cardinality(Partitions) = NumPartitions
  BY AssignorAssumption, FS_Interval DEF Partitions
<1>2. \A c \in Clients, k \in Kinds : assigned[c][k] \subseteq Partitions
  BY DEF TypeOK, Assignment
<1>3. \A c \in Clients, k \in Kinds :
         IsFiniteSet(assigned[c][k]) /\ Load(c, k) \in Nat
  BY <1>1, <1>2, PartSize DEF Load
<1>4. \A k \in Kinds, p \in Partitions : Holders(k, p) \subseteq Members
  BY DEF Holders
<1>5. \A k \in Kinds, p \in Partitions :
         IsFiniteSet(Holders(k, p)) /\ Count(k, p) \in Nat
  BY <1>4, MemberFacts, PartSize DEF Count
<1> QED
  BY <1>1, <1>2, <1>3, <1>4, <1>5

(* sorted(), and the list that _get_unassigned returns.                    *)
LEMMA LoadOrderIsOrder ==
    ASSUME TypeOK, NEW k \in Kinds
    PROVE  Order(Members, LoadOrder(k))
<1>1. \A c \in Members : Load(c, k) \in Nat /\ Index(c) \in Nat
  BY MemberFacts, AssignedFacts
<1>2. \A c, d \in Members : Index(c) = Index(d) => c = d
  BY MemberFacts
<1>3. \A c, d \in Members : <<c, d>> \in LoadOrder(k) <=>
         \/ Load(c, k) < Load(d, k)
         \/ Load(c, k) = Load(d, k) /\ Index(c) < Index(d)
  BY DEF LoadOrder
<1> HIDE DEF Load, Index
<1> QED
  BY <1>1, <1>2, <1>3 DEF Order

(* The candidates are the members, in some order.                          *)
LEMMA ByLoadFacts ==
    ASSUME TypeOK, NEW k \in Kinds
    PROVE  /\ ByLoad(k) \in [1..NumClients -> Members]
           /\ ByLoad(k) \in Seq(Clients)
           /\ \A c \in Members : \E i \in 1..NumClients : ByLoad(k)[i] = c
<1>1. /\ ByLoad(k) \in [1..NumClients -> Members]
      /\ \A c \in Members : \E i \in 1..NumClients : ByLoad(k)[i] = c
  <2>1. IsFiniteSet(Members) /\ Cardinality(Members) = NumClients
    BY MemberFacts
  <2> QED
    BY <2>1, LoadOrderIsOrder, SortedFacts DEF ByLoad
<1>2. ByLoad(k) \in [1..NumClients -> Clients] /\ NumClients \in Nat
  BY <1>1, MemberFacts
<1> QED
  BY <1>1, <1>2, FunctionIsSeq

(* How often a partition occurs when one is taken from the list, or put to *)
(* its end.                                                                *)
LEMMA OccursFacts ==
    ASSUME NEW S, NEW s \in Seq(S), NEW p
    PROVE  /\ Occurs(s, p) \in Nat
           /\ s = <<>> => Occurs(s, p) = 0
           /\ s # <<>> => Occurs(s, p) = Occurs(Tail(s), p) + IF Head(s) = p THEN 1 ELSE 0
           /\ \A q \in S : Occurs(Append(s, q), p) = Occurs(s, p) + IF q = p THEN 1 ELSE 0
<1> DEFINE n == Len(s)
           U == {i \in 1..n : s[i] = p}
<1>1. n \in Nat /\ IsFiniteSet(1..n) /\ U \subseteq 1..n
  BY FS_Interval
<1>2. IsFiniteSet(U) /\ Cardinality(U) \in Nat
  BY <1>1, PartSize
<1>3. Occurs(s, p) = Cardinality(U)
  BY DEF Occurs
<1>4. s = <<>> => Occurs(s, p) = 0
  <2> SUFFICES ASSUME s = <<>> PROVE Cardinality(U) = 0
    BY <1>3
  <2>1. U = {}
    OBVIOUS
  <2> QED
    BY <2>1, FS_EmptySet
<1>5. ASSUME s # <<>>
      PROVE  Occurs(s, p) = Occurs(Tail(s), p) + IF Head(s) = p THEN 1 ELSE 0
  <2> DEFINE t == Tail(s)
             T == {i \in 1..Len(t) : t[i] = p}
             V == U \ {1}
             f == [i \in T |-> i + 1]
  <2>1. /\ n > 0 /\ Len(t) = n - 1 /\ Head(s) = s[1]
        /\ \A i \in 1..Len(t) : t[i] = s[i + 1]
    BY <1>5
  <2>2. IsFiniteSet(V) /\ Cardinality(V) = IF 1 \in U THEN Cardinality(U) - 1
                                                  ELSE Cardinality(U)
    BY <1>2, FS_RemoveElement
  <2>3. /\ f \in [T -> V]
        /\ \A x, y \in T : f[x] = f[y] => x = y
    BY <1>1, <2>1
  <2>4. ASSUME NEW v \in V PROVE \E x \in T : f[x] = v
    <3>1. v \in Nat /\ v - 1 \in T
      BY <1>1, <2>1
    <3> HIDE DEF T
    <3>2. f[v - 1] = (v - 1) + 1 /\ (v - 1) + 1 = v
      BY <3>1
    <3> QED
      BY <3>1, <3>2
  <2> HIDE DEF f, T, V, t
  <2>5. Cardinality(T) = Cardinality(V)
    BY <2>2, <2>3, <2>4, SameSize
  <2>6. Occurs(t, p) = Cardinality(T)
    BY DEF Occurs, T
  <2>7. 1 \in U <=> Head(s) = p
    BY <2>1, <1>1
  <2> QED
    BY <1>2, <1>3, <2>2, <2>5, <2>6, <2>7 DEF t
<1>6. ASSUME NEW q \in S
      PROVE  Occurs(Append(s, q), p) = Occurs(s, p) + IF q = p THEN 1 ELSE 0
  <2> DEFINE t == Append(s, q)
             T == {i \in 1..Len(t) : t[i] = p}
  <2>1. /\ Len(t) = n + 1 /\ t[n + 1] = q
        /\ \A i \in 1..n : t[i] = s[i]
    BY AppendProperties
  <2>2. Occurs(t, p) = Cardinality(T)
    BY DEF Occurs
  <2>3. n + 1 \notin U
    BY <1>1
  <2>4. T = IF q = p THEN U \cup {n + 1} ELSE U
    BY <1>1, <2>1
  <2> HIDE DEF t, T, U
  <2>5. Cardinality(U \cup {n + 1}) = Cardinality(U) + 1
    BY <1>2, <2>3, FS_AddElement
  <2> QED
    BY <1>2, <1>3, <2>2, <2>4, <2>5 DEF t
<1> QED
  BY <1>2, <1>3, <1>4, <1>5, <1>6

(* The copies that are missing are ordered.                                *)
LEMMA CopyOrderIsOrder ==
    ASSUME TypeOK, members # <<>>, NEW k \in Kinds
    PROVE  /\ IsFiniteSet(Copies(k)) /\ Order(Copies(k), CopyOrder(k))
           /\ TotalAssigns(k) \in Nat
<1>1. TotalAssigns(k) \in Nat
  BY CapacityFacts DEF TotalAssigns
<1>2. IsFiniteSet(Copies(k))
  <2>1. IsFiniteSet(1..TotalAssigns(k))
    BY <1>1, FS_Interval
  <2>2. IsFiniteSet(Partitions)
    BY AssignedFacts
  <2>3. IsFiniteSet(Partitions \X (1..TotalAssigns(k)))
    BY <2>1, <2>2, FS_Product
  <2>4. Copies(k) \subseteq Partitions \X (1..TotalAssigns(k))
    BY DEF Copies
  <2> QED
    BY <2>3, <2>4, FS_Subset
<1>3. \A x \in Copies(k) : x[1] \in Nat /\ x[2] \in Nat /\ x = <<x[1], x[2]>>
  BY <1>1 DEF Copies, Partitions
<1>4. \A x, y \in Copies(k) : <<x, y>> \in CopyOrder(k) <=>
         x[1] < y[1] \/ (x[1] = y[1] /\ x[2] < y[2])
  BY DEF CopyOrder
<1>5. \A x, y \in Copies(k) : x[1] = y[1] /\ x[2] = y[2] => x = y
  BY <1>3
<1> QED
  BY <1>1, <1>2, <1>3, <1>4, <1>5 DEF Order

(* The list of partitions to give out has each as often as it is missing.  *)
LEMMA MissingFacts ==
    ASSUME TypeOK, members # <<>>, NEW k \in Kinds
    PROVE  /\ Missing(k) \in Seq(Partitions)
           /\ \A p \in Partitions : Count(k, p) <= TotalAssigns(k) =>
                Count(k, p) + Occurs(Missing(k), p) = TotalAssigns(k)
<1> DEFINE C == Copies(k)
           n == Cardinality(C)
           s == Sorted(C, CopyOrder(k))
           m == Missing(k)
<1>1. /\ n \in Nat /\ s \in [1..n -> C]
      /\ \A i, j \in 1..n : s[i] = s[j] => i = j
      /\ \A x \in C : \E i \in 1..n : s[i] = x
  BY CopyOrderIsOrder, SortedFacts
<1>2. m = [i \in 1..n |-> s[i][1]]
  BY DEF Missing
<1>3. \A x \in C : /\ x[1] \in Partitions /\ x[2] \in Nat /\ x = <<x[1], x[2]>>
                   /\ Count(k, x[1]) < x[2] /\ x[2] <= TotalAssigns(k)
  BY CopyOrderIsOrder DEF Copies
<1>4. TotalAssigns(k) \in Nat /\ \A p \in Partitions : Count(k, p) \in Nat
  BY CopyOrderIsOrder, AssignedFacts
<1>5. \A p \in Partitions, j \in 1..TotalAssigns(k) : Count(k, p) < j => <<p, j>> \in C
  BY DEF Copies
<1> HIDE DEF C, n, s, m
<1>6. m \in [1..n -> Partitions]
  BY <1>1, <1>2, <1>3
<1>7. m \in Seq(Partitions) /\ Len(m) = n
  BY <1>1, <1>6, FunctionIsSeq
<1>8. ASSUME NEW p \in Partitions, Count(k, p) <= TotalAssigns(k)
      PROVE  Count(k, p) + Occurs(m, p) = TotalAssigns(k)
  <2> DEFINE a == Count(k, p)
             b == TotalAssigns(k)
             I == {i \in 1..n : m[i] = p}
             g == [i \in I |-> s[i][2]]
             T == a + 1..b
  <2>1. \A i \in I : s[i] \in C /\ s[i] = <<p, s[i][2]>> /\ s[i][2] \in T
    BY <1>1, <1>2, <1>3, <1>4
  <2>2. g \in [I -> T]
    BY <2>1
  <2>3. \A x, y \in I : g[x] = g[y] => x = y
    BY <1>1, <2>1
  <2>4. ASSUME NEW t \in T PROVE \E x \in I : g[x] = t
    <3>1. <<p, t>> \in C
      BY <1>4, <1>5
    <3>2. PICK i \in 1..n : s[i] = <<p, t>>
      BY <1>1, <3>1
    <3>3. i \in I /\ g[i] = t
      BY <1>2, <3>2
    <3> QED
      BY <3>3
  <2>5. a \in Nat /\ b \in Nat /\ a <= b
    BY <1>4, <1>8
  <2> HIDE DEF g, I, a, b
  <2>6. IsFiniteSet(T) /\ Cardinality(T) = b - a
    <3> DEFINE c == a + 1
    <3>1. c \in Int /\ b \in Int /\ (IF c > b THEN 0 ELSE b - c + 1) = b - a
      BY <2>5
    <3>2. T = c..b
      OBVIOUS
    <3> HIDE DEF c, T
    <3>3. IsFiniteSet(c..b) /\ Cardinality(c..b) = IF c > b THEN 0 ELSE b - c + 1
      BY <3>1, FS_Interval
    <3> QED
      BY <3>1, <3>2, <3>3
  <2> HIDE DEF T
  <2>7. Cardinality(I) = Cardinality(T)
    BY <2>2, <2>3, <2>4, <2>6, SameSize
  <2>8. Occurs(m, p) = Cardinality(I)
    BY <1>7 DEF Occurs, I
  <2> QED
    BY <2>5, <2>6, <2>7, <2>8 DEF a, b
<1> QED
  BY <1>7, <1>8 DEF m

-----------------------------------------------------------------------------
(* The cycle of candidates                                                 *)

(* Remainders.                                                             *)
LEMMA ModFacts ==
    ASSUME NEW a \in Nat, NEW n \in Nat \ {0}
    PROVE  /\ a % n \in 0..n - 1
           /\ a \div n \in Nat
           /\ a = (a \div n) * n + (a % n)
           /\ \A q \in Nat, x \in 0..n - 1 : (q * n + x) % n = x
<1>1. \A q \in Nat, x \in 0..n - 1 : (q * n + x) % n = x
  OBVIOUS
<1>2. a % n \in 0..n - 1 /\ a \div n \in Nat /\ a = (a \div n) * n + (a % n)
  OBVIOUS
<1> QED
  BY <1>1, <1>2

(* A full circle from anywhere comes by every place.                       *)
LEMMA Circle ==
    ASSUME NEW a \in Nat, NEW n \in Nat \ {0}, NEW j \in 1..n
    PROVE  \E i \in 1..n : ((a + i - 1) % n) + 1 = j
<1> DEFINE q == a \div n
           r == a % n
<1>1. q \in Nat /\ r \in 0..n - 1 /\ a = q * n + r
  BY ModFacts
<1> HIDE DEF q, r
<1>2. CASE j - 1 >= r
  <2> DEFINE i == j - r
  <2>1. i \in 1..n /\ a + i - 1 = q * n + (j - 1)
    BY <1>1, <1>2
  <2>2. j - 1 \in 0..n - 1
    OBVIOUS
  <2>3. (q * n + (j - 1)) % n = j - 1
    BY <1>1, <2>2, ModFacts
  <2> HIDE DEF i
  <2>4. (a + i - 1) % n = j - 1 /\ (j - 1) + 1 = j
    BY <2>1, <2>3
  <2> QED
    BY <2>1, <2>4
<1>3. CASE j - 1 < r
  <2> DEFINE i == j - r + n
             u == q + 1
  <2>1. i \in 1..n /\ a + i - 1 = q * n + n + (j - 1)
    BY <1>1, <1>3
  <2>2. j - 1 \in 0..n - 1 /\ u \in Nat /\ u * n = q * n + n
    BY <1>1
  <2> HIDE DEF i, u
  <2>3. (u * n + (j - 1)) % n = j - 1
    <3> DEFINE x == j - 1
    <3>1. x \in 0..n - 1
      BY <2>2
    <3> HIDE DEF x
    <3>2. (u * n + x) % n = x
      BY <2>2, <3>1, ModFacts
    <3> QED
      BY <3>2 DEF x
  <2>4. a + i - 1 = u * n + (j - 1)
    BY <2>1, <2>2
  <2>5. (a + i - 1) % n = j - 1 /\ (j - 1) + 1 = j
    BY <2>3, <2>4
  <2> QED
    BY <2>1, <2>5
<1> QED
  BY <1>1, <1>2, <1>3

(* Where there is a client that can take a partition, next(candidates)     *)
(* comes to one.                                                           *)
LEMMA TakenFacts ==
    ASSUME TypeOK, LoopInv, pc = "assign", NEW from \in Nat,
           NEW able \in SUBSET Members, able # {}
    PROVE  /\ Taken(from, able) \in 1..NumClients
           /\ At(from + Taken(from, able) - 1) \in able
<1>1. NumClients \in Nat \ {0}
  BY MemberFacts DEF LoopInv
<1>2. PICK c \in able : TRUE
  OBVIOUS
<1>3. PICK j \in 1..NumClients : candidates[j] = c
  BY DEF LoopInv
<1>4. PICK i \in 1..NumClients : ((from + i - 1) % NumClients) + 1 = j
  BY <1>1, Circle
<1>5. i \in Found(from, able)
  BY <1>3, <1>4 DEF Found, At
<1>6. Found(from, able) \in SUBSET Nat /\ Found(from, able) # {}
  <2>1. Found(from, able) \subseteq 1..NumClients
    BY DEF Found
  <2> QED
    BY <1>1, <1>5, <2>1
<1>7. Taken(from, able) \in Found(from, able)
  BY <1>6, MinIn DEF Taken
<1> QED
  BY <1>7 DEF Found

(* The first client of the mapping that is wanted.                         *)
LEMMA FirstFacts ==
    ASSUME TypeOK, NEW S \in SUBSET Members, S # {}
    PROVE  First(S) \in S
<1> DEFINE I == {i \in 1..NumClients : members[i] \in S}
<1>1. PICK c \in S : TRUE
  OBVIOUS
<1>2. Index(c) \in I
  BY MemberFacts
<1>3. I \in SUBSET Nat /\ I # {}
  BY <1>2, MemberFacts
<1>4. Min(I) \in I
  BY <1>3, MinIn
<1> QED
  BY <1>4 DEF First

-----------------------------------------------------------------------------
(* What the steps of the round robin do.                                   *)

(* p is given to c.                                                        *)
Gives(p, c) ==
    /\ pc = "assign" /\ unassigned # <<>> /\ p = Head(unassigned)
    /\ p \notin assigned[c][kind] /\ ~Exhausted(c, kind)
    /\ kind = "standby" => p \notin assigned[c]["active"]
    /\ assigned' \in [Clients -> Assignment]
    /\ \A d \in Clients \ {c} : assigned'[d] = assigned[d]
    /\ assigned'[c][kind] = assigned[c][kind] \cup {p}
    /\ kind = "active" =>
         /\ assigned'[c]["standby"] = assigned[c]["standby"] \ {p}
         /\ p \in assigned[c]["standby"] \/ Unpromotable(p)
    /\ kind = "standby" => assigned'[c]["active"] = assigned[c]["active"]
    /\ unassigned' = Tail(unassigned) /\ unassigned' \in Seq(Partitions)
    /\ cursor' \in Nat
    /\ UNCHANGED <<roundVars, pc, kind, candidates>>

(* p is given to c, which gives q back.                                    *)
Swaps(p, q, c) ==
    /\ pc = "assign" /\ unassigned # <<>> /\ p = Head(unassigned)
    /\ kind = "standby"
    /\ p \notin assigned[c]["standby"] /\ p \notin assigned[c]["active"]
    /\ q \in assigned[c]["standby"]
    /\ assigned' \in [Clients -> Assignment]
    /\ \A d \in Clients \ {c} : assigned'[d] = assigned[d]
    /\ assigned'[c]["standby"] = (assigned[c]["standby"] \cup {p}) \ {q}
    /\ assigned'[c]["active"] = assigned[c]["active"]
    /\ unassigned' = Append(Tail(unassigned), q) /\ unassigned' \in Seq(Partitions)
    /\ cursor' \in Nat
    /\ UNCHANGED <<roundVars, pc, kind, candidates>>

(* The partition at hand.                                                  *)
LEMMA HeadFacts ==
    ASSUME TypeOK, unassigned # <<>>
    PROVE  /\ Head(unassigned) \in Partitions /\ Head(unassigned) \in Nat
           /\ Tail(unassigned) \in Seq(Partitions)
           /\ cursor \in Nat /\ kind \in {"active", "standby"}
<1>1. /\ Head(unassigned) \in Partitions /\ Tail(unassigned) \in Seq(Partitions)
      /\ cursor \in Nat /\ kind \in {"active", "standby"}
  BY DEF TypeOK, Kinds
<1> QED
  BY <1>1 DEF Partitions

(* Give, for a client that can have the partition.                         *)
LEMMA GiveStep ==
    ASSUME TypeOK, LoopInv, pc = "assign", unassigned # <<>>,
           NEW c \in Members, NEW at \in Nat,
           Assignable(Head(unassigned), c),
           kind = "active" =>
             Head(unassigned) \in assigned[c]["standby"] \/ Unpromotable(Head(unassigned)),
           Give(Head(unassigned), c, Tail(unassigned), at)
    PROVE  Gives(Head(unassigned), c)
<1> DEFINE p == Head(unassigned)
<1>1. p \in Partitions /\ Tail(unassigned) \in Seq(Partitions) /\ kind \in {"active", "standby"}
  BY HeadFacts
<1>2. p \notin assigned[c][kind] /\ ~Exhausted(c, kind)
      /\ (kind = "standby" => p \notin assigned[c]["active"])
  BY <1>1 DEF Assignable, CanAssign
<1>3. c \in Clients /\ NumClients \in Nat \ {0}
  BY MemberFacts DEF LoopInv
<1>4. at % NumClients \in Nat
  BY <1>3, ModFacts
<1>5. UNCHANGED <<roundVars, pc, kind, candidates>> /\ unassigned' = Tail(unassigned)
      /\ cursor' = at % NumClients
  BY DEF Give
<1>6. /\ assigned \in [Clients -> Assignment] /\ assigned[c] \in Assignment
      /\ assigned[c]["active"] \subseteq Partitions
      /\ assigned[c]["standby"] \subseteq Partitions
  BY <1>3 DEF TypeOK, Assignment, Kinds
<1>7. CASE kind = "active"
  <2> DEFINE S == IF Promotable(p, c) THEN assigned[c]["standby"] \ {p}
                  ELSE assigned[c]["standby"]
             r == [active |-> assigned[c]["active"] \cup {p}, standby |-> S]
  <2>1. assigned' = [assigned EXCEPT ![c] = r]
    BY <1>7 DEF Give
  <2>2. S = assigned[c]["standby"] \ {p}
    <3>1. p \in assigned[c]["standby"] => Promotable(p, c)
      BY <1>2, <1>7 DEF Promotable, CanAssign
    <3> QED
      BY <3>1
  <2>3. r \in Assignment /\ r["active"] = assigned[c]["active"] \cup {p} /\ r["standby"] = S
    BY <1>1, <1>6 DEF Assignment, Kinds
  <2> HIDE DEF r, S
  <2>4. /\ assigned' \in [Clients -> Assignment] /\ assigned'[c] = r
        /\ \A d \in Clients \ {c} : assigned'[d] = assigned[d]
    BY <1>3, <1>6, <2>1, <2>3
  <2> QED
    BY <1>1, <1>2, <1>4, <1>5, <1>7, <2>2, <2>3, <2>4 DEF Gives
<1>8. CASE kind = "standby"
  <2> DEFINE r == [active |-> assigned[c]["active"],
                   standby |-> assigned[c]["standby"] \cup {p}]
  <2>1. assigned' = [assigned EXCEPT ![c] = r]
    BY <1>8 DEF Give
  <2>2. /\ r \in Assignment /\ r["active"] = assigned[c]["active"]
        /\ r["standby"] = assigned[c]["standby"] \cup {p}
    BY <1>1, <1>6 DEF Assignment, Kinds
  <2> HIDE DEF r
  <2>3. /\ assigned' \in [Clients -> Assignment] /\ assigned'[c] = r
        /\ \A d \in Clients \ {c} : assigned'[d] = assigned[d]
    BY <1>3, <1>6, <2>1, <2>2
  <2> QED
    BY <1>1, <1>2, <1>4, <1>5, <1>8, <2>2, <2>3 DEF Gives
<1> QED
  BY <1>1, <1>7, <1>8

(* A partition that is given out goes to a member that may have it.        *)
LEMMA GiveFacts ==
    ASSUME TypeOK, LoopInv, Promote \/ AssignRoundRobin
    PROVE  \E p \in Partitions, c \in Members : Gives(p, c)
<1> DEFINE p == Head(unassigned)
<1>1. pc = "assign" /\ unassigned # <<>>
  BY DEF Promote, AssignRoundRobin
<1>2. p \in Partitions /\ p \in Nat /\ cursor \in Nat /\ NumClients \in Nat
  BY <1>1, HeadFacts, MemberFacts
<1>3. CASE Promote
  <2> DEFINE able == {c \in Members : Promotable(p, c)}
             k == Taken(cursor, able)
             c == At(cursor + k - 1)
  <2>1. /\ able \in SUBSET Members /\ able # {} /\ kind = "active"
        /\ Give(p, c, Tail(unassigned), cursor + k)
    BY <1>3 DEF Promote
  <2>2. k \in 1..NumClients /\ c \in able
    BY <1>1, <1>2, <2>1, TakenFacts
  <2>3. c \in Members /\ p \in assigned[c]["standby"] /\ Assignable(p, c)
    BY <2>1, <2>2 DEF Promotable, Assignable
  <2>4. cursor + k \in Nat
    BY <1>2, <2>2
  <2>5. Gives(p, c)
    BY <1>1, <2>1, <2>3, <2>4, GiveStep
  <2> QED
    BY <1>2, <2>3, <2>5
<1>4. CASE AssignRoundRobin
  <2> DEFINE able == {c \in Members : Assignable(p, c)}
             k == Taken(From(p), able)
             c == At(From(p) + k - 1)
  <2>1. /\ able \in SUBSET Members /\ able # {} /\ Unpromotable(p)
        /\ Give(p, c, Tail(unassigned), From(p) + k)
    BY <1>4 DEF AssignRoundRobin
  <2>2. From(p) \in Nat
    BY <1>2 DEF From
  <2>3. k \in 1..NumClients /\ c \in able
    BY <1>1, <2>1, <2>2, TakenFacts
  <2>4. c \in Members /\ Assignable(p, c)
    BY <2>3
  <2>5. From(p) + k \in Nat
    BY <1>2, <2>2, <2>3
  <2>6. Gives(p, c)
    BY <1>1, <2>1, <2>4, <2>5, GiveStep
  <2> QED
    BY <1>2, <2>4, <2>6
<1> QED
  BY <1>3, <1>4

(* A swap that does not fail, and one that does.                           *)
LEMMA SwapFacts ==
    ASSUME TypeOK, LoopInv, Swap
    PROVE  \/ \E p, q \in Partitions, c \in Members : Swaps(p, q, c)
           \/ /\ pc = "assign" /\ unassigned # <<>> /\ pc' = "failed"
              /\ kind = "active" \/ Swappable(Head(unassigned)) = {}
              /\ \A d \in Members : ~Assignable(Head(unassigned), d)
              /\ UNCHANGED <<roundVars, kind, candidates, assigned, cursor, unassigned>>
<1> DEFINE p == Head(unassigned)
           c == First(Swappable(p))
<1>1. pc = "assign" /\ unassigned # <<>> /\ \A d \in Members : ~Assignable(p, d)
  BY DEF Swap
<1>2. /\ p \in Partitions /\ p \in Nat /\ cursor \in Nat /\ NumClients \in Nat \ {0}
      /\ kind \in {"active", "standby"} /\ Tail(unassigned) \in Seq(Partitions)
  BY <1>1, HeadFacts, MemberFacts DEF LoopInv
<1>3. CASE kind = "active" \/ Swappable(p) = {}
  BY <1>1, <1>3 DEF Swap
<1>4. CASE kind = "standby" /\ Swappable(p) # {}
  <2>1. PICK q \in GiveUp(c, p) :
          /\ assigned' = [assigned EXCEPT ![c][kind] = (@ \cup {p}) \ {q}]
          /\ unassigned' = Append(Tail(unassigned), q)
    BY <1>4 DEF Swap
  <2>2. cursor' = (From(p) + NumClients) % NumClients /\ UNCHANGED pc
        /\ UNCHANGED <<roundVars, kind, candidates>>
    BY <1>4 DEF Swap
  <2>3. c \in Swappable(p) /\ c \in Members
    BY <1>4, FirstFacts DEF Swappable
  <2>4. p \notin assigned[c]["standby"] /\ p \notin assigned[c]["active"]
    BY <1>4, <2>3 DEF Swappable, CanAssign
  <2>5. c \in Clients /\ assigned \in [Clients -> Assignment] /\ assigned[c] \in Assignment
        /\ assigned[c]["standby"] \subseteq Partitions
    BY <2>3, MemberFacts DEF TypeOK, Assignment, Kinds
  <2>6. q \in assigned[c]["standby"] /\ q \in Partitions
    BY <1>4, <2>5 DEF GiveUp
  <2> DEFINE r == [assigned[c] EXCEPT !["standby"] = (@ \cup {p}) \ {q}]
  <2>7. assigned' = [assigned EXCEPT ![c] = r]
    BY <1>4, <2>1, <2>5
  <2>8. /\ r \in Assignment /\ r["active"] = assigned[c]["active"]
        /\ r["standby"] = (assigned[c]["standby"] \cup {p}) \ {q}
    BY <1>2, <2>5 DEF Assignment, Kinds
  <2> HIDE DEF r, c
  <2>9. /\ assigned' \in [Clients -> Assignment] /\ assigned'[c] = r
        /\ \A d \in Clients \ {c} : assigned'[d] = assigned[d]
    BY <2>5, <2>7, <2>8
  <2>10. cursor' \in Nat
    <3> DEFINE x == From(p) + NumClients
    <3>1. From(p) \in Nat
      BY <1>2 DEF From
    <3>2. x \in Nat /\ cursor' = x % NumClients
      BY <1>2, <2>2, <3>1
    <3> HIDE DEF x
    <3> QED
      BY <1>2, <3>2, ModFacts
  <2>11. unassigned' \in Seq(Partitions)
    BY <1>2, <2>1, <2>6
  <2>12. Swaps(p, q, c)
    BY <1>1, <1>4, <2>1, <2>2, <2>4, <2>6, <2>8, <2>9, <2>10, <2>11 DEF Swaps
  <2> QED
    BY <1>2, <2>3, <2>6, <2>12
<1> QED
  BY <1>2, <1>3, <1>4

-----------------------------------------------------------------------------
(* What the other steps do.                                                *)

(* What a member claims is an assignment, with no partition in it twice.   *)
LEMMA ClaimFacts ==
    ASSUME TypeOK, NEW c \in Clients, NEW global \in BOOLEAN
    PROVE  /\ Claim(c, global) \in Assignment
           /\ Claim(c, global)["active"] \cap Claim(c, global)["standby"] = {}
<1>1. reported[c] \in Assignment
  BY DEF TypeOK
<1>2. /\ Nothing \in Assignment /\ Nothing["active"] = {} /\ Nothing["standby"] = {}
  BY DEF Nothing, Assignment, Kinds
<1> DEFINE actives == IF global \/ (GlobalTable /\ reported[c]["active"] = {})
                      THEN Partitions ELSE reported[c]["active"]
           standbys == IF global \/ (GlobalTable /\ reported[c]["standby"] = {})
                       THEN Partitions ELSE reported[c]["standby"]
           r == [active |-> actives, standby |-> standbys \ actives]
<1>3. actives \in SUBSET Partitions /\ standbys \in SUBSET Partitions
  BY <1>1 DEF Assignment, Kinds
<1>4. Claim(c, global) = IF reported[c] = Nothing THEN Nothing ELSE r
  BY DEF Claim
<1> HIDE DEF actives, standbys
<1>5. /\ r \in Assignment /\ r["active"] = actives
      /\ r["standby"] = standbys \ actives
  BY <1>3 DEF Assignment, Kinds
<1>6. r["active"] \cap r["standby"] = {}
  BY <1>5
<1> HIDE DEF r
<1> QED
  BY <1>2, <1>4, <1>5, <1>6

(* The start of a round.                                                   *)
LEMMA BeginFacts ==
    ASSUME TypeOK, NEW M \in (SUBSET Clients) \ {{}}, Begin(M)
    PROVE  /\ members' \in Seq(Clients) /\ IsInjective(members') /\ members' # <<>>
           /\ start' \in [Clients -> Assignment] /\ assigned' = start'
           /\ \A c \in Clients : start'[c]["active"] \cap start'[c]["standby"] = {}
<1>1. members' \in SetToSeqs(M) /\ assigned' = start'
  BY DEF Begin
<1>2. M \subseteq Clients /\ M # {} /\ IsFiniteSet(M)
  BY FS_Subset, AssignorAssumption
<1>3. Cardinality(M) \in Nat /\ Cardinality(M) # 0
  BY <1>2, FS_CardinalityType, FS_EmptySet
<1>4. /\ members' \in [1..Cardinality(M) -> M]
      /\ \A i, j \in 1..Cardinality(M) : i # j => members'[i] # members'[j]
  BY <1>1 DEF SetToSeqs
<1>5. members' \in [1..Cardinality(M) -> Clients]
  BY <1>2, <1>4
<1>6. /\ members' \in Seq(Clients) /\ Len(members') = Cardinality(M)
      /\ DOMAIN members' = 1..Cardinality(M)
  BY <1>3, <1>5, FunctionIsSeq
<1>7. IsInjective(members')
  BY <1>4, <1>6 DEF IsInjective
<1>8. members' # <<>>
  BY <1>3, <1>6
<1>9. PICK global \in {FALSE, GlobalTable} :
        start' = [c \in Clients |-> IF c \in M THEN Claim(c, global) ELSE Nothing]
  BY DEF Begin
<1>10. global \in BOOLEAN
  BY AssignorAssumption
<1>11. Nothing \in Assignment /\ Nothing["active"] = {} /\ Nothing["standby"] = {}
  BY DEF Nothing, Assignment, Kinds
<1>12. \A c \in Clients : /\ start'[c] \in Assignment
                          /\ start'[c]["active"] \cap start'[c]["standby"] = {}
  BY <1>9, <1>10, <1>11, ClaimFacts
<1> QED
  BY <1>1, <1>6, <1>7, <1>8, <1>9, <1>12

(* What pop leaves of a finite set.                                        *)
LEMMA LeftFacts ==
    ASSUME NEW S, IsFiniteSet(S), NEW n \in Nat, NEW T \in Left(S, n)
    PROVE  /\ T \subseteq S /\ Cardinality(T) <= n
           /\ Cardinality(S) <= n => T = S
<1>1. Cardinality(S) \in Nat
  BY FS_CardinalityType
<1> QED
  BY <1>1 DEF Left

(* What unassign_extras leaves to the client c.                            *)
Cut(c) ==
    /\ pc = "extras" /\ c = members[cursor + 1] /\ kind = "active"
    /\ assigned' \in [Clients -> Assignment]
    /\ \A d \in Clients \ {c} : assigned'[d] = assigned[d]
    /\ assigned'[c]["active"] \subseteq assigned[c]["active"]
    /\ assigned'[c]["standby"] \subseteq assigned[c]["standby"]
    /\ Cardinality(assigned'[c]["active"]) <= Capacity
    /\ Cardinality(assigned'[c]["standby"]) <= Capacity * EffReplicas
    /\ Cardinality(assigned[c]["active"]) <= Capacity =>
         assigned'[c]["active"] = assigned[c]["active"]
    /\ Cardinality(assigned[c]["standby"]) <= Capacity * EffReplicas =>
         assigned'[c]["standby"] = assigned[c]["standby"]
    /\ \/ cursor + 1 = NumClients /\ cursor' = 0 /\ pc' = "over"
       \/ cursor + 1 < NumClients /\ cursor' = cursor + 1 /\ pc' = "extras"
    /\ UNCHANGED <<roundVars, kind, candidates, unassigned>>

(* unassign_extras cuts down one member at a time.                         *)
LEMMA ExtrasFacts ==
    ASSUME TypeOK, LoopInv, UnassignExtras
    PROVE  \E c \in Members : Cut(c)
<1> DEFINE c == members[cursor + 1]
           n == NumClients
<1>1. pc = "extras" /\ kind = "active" /\ cursor < n /\ cursor \in Nat
      /\ UNCHANGED <<roundVars, kind, candidates, unassigned>>
  BY DEF UnassignExtras, LoopInv, TypeOK
<1>2. n \in Nat \ {0} /\ cursor + 1 \in 1..n /\ c \in Members /\ c \in Clients
  BY <1>1, MemberFacts
<1>3. Capacity \in Nat /\ EffReplicas \in Nat /\ Capacity * EffReplicas \in Nat
  BY <1>1, CapacityFacts DEF LoopInv
<1>4. PICK A \in Left(assigned[c]["active"], Capacity),
           S \in Left(assigned[c]["standby"], Capacity * EffReplicas) :
        assigned' = [assigned EXCEPT ![c] = [active |-> A, standby |-> S]]
  BY DEF UnassignExtras
<1>5. IsFiniteSet(assigned[c]["active"]) /\ IsFiniteSet(assigned[c]["standby"])
      /\ assigned[c]["active"] \subseteq Partitions /\ assigned[c]["standby"] \subseteq Partitions
  BY <1>2, AssignedFacts DEF Kinds
<1>6. /\ A \subseteq assigned[c]["active"] /\ Cardinality(A) <= Capacity
      /\ Cardinality(assigned[c]["active"]) <= Capacity => A = assigned[c]["active"]
  BY <1>3, <1>5, LeftFacts
<1>7. /\ S \subseteq assigned[c]["standby"] /\ Cardinality(S) <= Capacity * EffReplicas
      /\ Cardinality(assigned[c]["standby"]) <= Capacity * EffReplicas =>
           S = assigned[c]["standby"]
  BY <1>3, <1>5, LeftFacts
<1> DEFINE r == [active |-> A, standby |-> S]
<1>8. r \in Assignment /\ r["active"] = A /\ r["standby"] = S
  BY <1>5, <1>6, <1>7 DEF Assignment, Kinds
<1>9. assigned' = [assigned EXCEPT ![c] = r] /\ assigned \in [Clients -> Assignment]
  BY <1>4 DEF TypeOK
<1> HIDE DEF r, c
<1>10. /\ assigned' \in [Clients -> Assignment] /\ assigned'[c] = r
       /\ \A d \in Clients \ {c} : assigned'[d] = assigned[d]
  BY <1>2, <1>8, <1>9
<1>11. /\ cursor' = (cursor + 1) % n
       /\ pc' = IF cursor' = 0 THEN "over" ELSE "extras"
  BY DEF UnassignExtras
<1>12. \/ cursor + 1 = n /\ cursor' = 0 /\ pc' = "over"
       \/ cursor + 1 < n /\ cursor' = cursor + 1 /\ pc' = "extras"
  <2>1. CASE cursor + 1 = n
    <3>1. (1 * n + 0) % n = 0 /\ 1 * n + 0 = n
      BY <1>2, ModFacts
    <3>2. cursor' = 0
      BY <1>11, <2>1, <3>1
    <3> QED
      BY <1>11, <2>1, <3>2
  <2>2. CASE cursor + 1 < n
    <3> DEFINE x == cursor + 1
    <3>1. x \in 0..n - 1 /\ x # 0
      BY <1>1, <1>2, <2>2
    <3> HIDE DEF x
    <3>2. x % n = x
      BY <1>2, <3>1
    <3>3. cursor' = x
      BY <1>11, <3>2 DEF x
    <3> QED
      BY <1>11, <2>2, <3>1, <3>3 DEF x
  <2> QED
    BY <1>1, <1>2, <2>1, <2>2
<1>13. Cut(c)
  BY <1>1, <1>6, <1>7, <1>8, <1>10, <1>12 DEF Cut, c, n
<1> QED
  BY <1>2, <1>13

(* _unassign_overassigned only takes partitions of its kind.               *)
LEMMA OverFacts ==
    ASSUME TypeOK, UnassignOverassigned
    PROVE  /\ assigned' \in [Clients -> Assignment]
           /\ \A c \in Clients, k \in Kinds :
                /\ assigned'[c][k] \subseteq assigned[c][k]
                /\ k # kind => assigned'[c][k] = assigned[c][k]
           /\ \A c \in Members, p \in Partitions :
                p \in assigned'[c][kind] <=>
                  /\ p \in assigned[c][kind]
                  /\ Count(kind, p) > TotalAssigns(kind) => c \in Keepers(kind, p)
<1>1. kind \in Kinds /\ assigned \in [Clients -> Assignment]
  BY DEF TypeOK
<1> DEFINE Keep(c) == {p \in assigned[c][kind] :
                         Count(kind, p) > TotalAssigns(kind) => c \in Keepers(kind, p)}
           r(c) == [assigned[c] EXCEPT ![kind] = Keep(c)]
<1>2. assigned' = [c \in Clients |-> IF c \notin Members THEN assigned[c] ELSE r(c)]
  BY DEF UnassignOverassigned
<1>3. ASSUME NEW c \in Clients
      PROVE  /\ r(c) \in Assignment
             /\ r(c)[kind] = Keep(c)
             /\ \A k \in Kinds \ {kind} : r(c)[k] = assigned[c][k]
  <2>1. assigned[c] \in Assignment /\ assigned[c][kind] \subseteq Partitions
    BY <1>1 DEF Assignment
  <2>2. Keep(c) \subseteq Partitions
    BY <2>1
  <2> HIDE DEF Keep
  <2> QED
    BY <1>1, <2>1, <2>2 DEF Assignment
<1>4. \A c \in Clients : assigned'[c] = IF c \notin Members THEN assigned[c] ELSE r(c)
  BY <1>2
<1>5. \A c \in Clients : assigned'[c] \in Assignment
  BY <1>1, <1>3, <1>4
<1>6. assigned' \in [Clients -> Assignment]
  BY <1>2, <1>5
<1>7. ASSUME NEW c \in Clients, NEW k \in Kinds
      PROVE  /\ assigned'[c][k] \subseteq assigned[c][k]
             /\ k # kind => assigned'[c][k] = assigned[c][k]
  <2>1. Keep(c) \subseteq assigned[c][kind]
    OBVIOUS
  <2> HIDE DEF Keep, r
  <2> QED
    BY <1>3, <1>4, <2>1
<1>8. ASSUME NEW c \in Members, NEW p \in Partitions
      PROVE  p \in assigned'[c][kind] <=> p \in Keep(c)
  <2>1. c \in Clients
    BY MemberFacts
  <2> HIDE DEF Keep, r
  <2> QED
    BY <1>3, <1>4, <2>1
<1> QED
  BY <1>6, <1>7, <1>8

-----------------------------------------------------------------------------
(* Type correctness                                                        *)

(* The mapping stays during a round.                                       *)
LEMMA SameMembers ==
    ASSUME UNCHANGED members
    PROVE  /\ Members' = Members /\ NumClients' = NumClients
           /\ EffReplicas' = EffReplicas /\ MaxCapacity' = MaxCapacity
           /\ MinCapacity' = MinCapacity /\ Capacity' = Capacity
           /\ \A k \in Kinds : TotalAssigns(k)' = TotalAssigns(k)
<1>1. Members' = Members /\ NumClients' = NumClients
  BY DEF Members, NumClients
<1>2. EffReplicas' = EffReplicas
  BY <1>1 DEF EffReplicas
<1> QED
  BY <1>1, <1>2 DEF MaxCapacity, MinCapacity, Capacity, TotalAssigns

(* No partitions, no members.                                              *)
LEMMA EmptyFacts ==
    /\ Nothing \in Assignment /\ Alone \in Assignment
    /\ Nothing["active"] = {} /\ Nothing["standby"] = {}
    /\ <<>> \in Seq(Clients) /\ IsInjective(<<>>) /\ <<>> \in Seq(Partitions)
    /\ Range(<<>>) = {} /\ Len(<<>>) = 0
<1>1. /\ Nothing \in Assignment /\ Alone \in Assignment
      /\ Nothing["active"] = {} /\ Nothing["standby"] = {}
  BY DEF Nothing, Alone, Assignment, Kinds
<1>2. <<>> \in Seq(Clients) /\ <<>> \in Seq(Partitions) /\ Len(<<>>) = 0
  OBVIOUS
<1>3. DOMAIN <<>> = {}
  OBVIOUS
<1>4. IsInjective(<<>>) /\ Range(<<>>) = {}
  BY <1>3 DEF IsInjective, Range
<1> QED
  BY <1>1, <1>2, <1>4

(* Initially.                                                              *)
LEMMA TypeInit == Init => TypeOK /\ LoopInv
<1> SUFFICES ASSUME Init PROVE TypeOK /\ LoopInv
  OBVIOUS
<1>1. reported \in [Clients -> Assignment]
  BY EmptyFacts DEF Init
<1>2. start \in [Clients -> Assignment] /\ assigned \in [Clients -> Assignment]
  BY EmptyFacts DEF Init
<1>3. members = <<>> /\ pc = "idle" /\ kind = "active" /\ candidates = <<>> /\ cursor = 0
      /\ unassigned = <<>> /\ rounds = 0
  BY DEF Init
<1>4. rounds \in 0..MaxRounds
  BY <1>3, AssignorAssumption
<1>5. TypeOK
  BY <1>1, <1>2, <1>3, <1>4, EmptyFacts DEF TypeOK, Kinds
<1> QED
  BY <1>3, <1>5 DEF LoopInv

(* Every step keeps the types, and the loops within their bounds.          *)
LEMMA TypeNext ==
    TypeOK /\ LoopInv /\ [Next]_vars => TypeOK' /\ LoopInv'
<1> SUFFICES ASSUME TypeOK, LoopInv, [Next]_vars PROVE TypeOK' /\ LoopInv'
  OBVIOUS
<1> USE DEF roundVars, loopVars
<1>1. CASE \E M \in (SUBSET Clients) \ {{}} : Begin(M)
  <2>1. PICK M \in (SUBSET Clients) \ {{}} : Begin(M)
    BY <1>1
  <2>2. /\ members' \in Seq(Clients) /\ IsInjective(members') /\ members' # <<>>
        /\ start' \in [Clients -> Assignment] /\ assigned' = start'
    BY <2>1, BeginFacts
  <2>3. /\ pc' = "extras" /\ kind' = "active" /\ candidates' = <<>> /\ cursor' = 0
        /\ unassigned' = <<>> /\ rounds < MaxRounds /\ rounds' = rounds + 1
        /\ reported' = reported
    BY <2>1 DEF Begin
  <2>4. rounds' \in 0..MaxRounds
    BY <2>3, AssignorAssumption DEF TypeOK
  <2>5. TypeOK'
    BY <2>2, <2>3, <2>4, EmptyFacts DEF TypeOK, Kinds
  <2>6. cursor' < NumClients'
    BY <2>2, <2>3 DEF NumClients
  <2> QED
    BY <2>2, <2>3, <2>5, <2>6 DEF LoopInv
<1>2. CASE UnassignExtras
  <2>1. PICK c \in Members : Cut(c)
    BY <1>2, ExtrasFacts
  <2>2. cursor \in Nat /\ UNCHANGED members
    BY <2>1 DEF TypeOK, Cut
  <2>3. TypeOK'
    BY <2>1, <2>2 DEF TypeOK, Cut
  <2> QED
    BY <2>1, <2>2, <2>3, SameMembers DEF LoopInv, Cut
<1>3. CASE UnassignOverassigned
  <2>1. assigned' \in [Clients -> Assignment]
    BY <1>3, OverFacts
  <2>2. /\ pc = "over" /\ pc' = "sort"
        /\ UNCHANGED <<reported, members, start, rounds, kind, candidates, cursor, unassigned>>
    BY <1>3 DEF UnassignOverassigned
  <2>3. TypeOK'
    BY <2>1, <2>2 DEF TypeOK
  <2> QED
    BY <2>2, <2>3 DEF LoopInv
<1>4. CASE SortCandidates
  <2>1. pc = "sort" /\ kind \in Kinds /\ members # <<>>
        /\ UNCHANGED <<reported, members, start, rounds, assigned, kind>>
    BY <1>4 DEF SortCandidates, TypeOK, LoopInv
  <2>2. CASE pc' = "failed" /\ UNCHANGED <<candidates, cursor, unassigned>>
    BY <2>1, <2>2 DEF TypeOK, LoopInv
  <2>3. CASE candidates' = ByLoad(kind) /\ cursor' = 0 /\ unassigned' = Missing(kind)
             /\ pc' = "assign"
    <3>1. /\ candidates' \in [1..NumClients -> Members] /\ candidates' \in Seq(Clients)
          /\ \A c \in Members : \E i \in 1..NumClients : candidates'[i] = c
      BY <2>1, <2>3, ByLoadFacts
    <3>2. unassigned' \in Seq(Partitions)
      BY <2>1, <2>3, MissingFacts
    <3>3. TypeOK'
      BY <2>1, <2>3, <3>1, <3>2 DEF TypeOK
    <3> QED
      BY <2>1, <2>3, <3>1, <3>3, SameMembers DEF LoopInv
  <2> QED
    BY <1>4, <2>2, <2>3 DEF SortCandidates
<1>5. CASE Promote \/ AssignRoundRobin
  <2>1. PICK p \in Partitions, c \in Members : Gives(p, c)
    BY <1>5, GiveFacts
  <2>2. UNCHANGED <<reported, members, start, rounds, pc, kind, candidates>>
        /\ cursor' \in Nat /\ unassigned' \in Seq(Partitions)
        /\ assigned' \in [Clients -> Assignment]
    BY <2>1 DEF Gives
  <2>3. TypeOK'
    BY <2>2 DEF TypeOK
  <2>4. pc = "assign"
    BY <2>1 DEF Gives
  <2> QED
    BY <2>2, <2>3, <2>4, SameMembers DEF LoopInv
<1>6. CASE Swap
  <2>1. CASE \E p, q \in Partitions, c \in Members : Swaps(p, q, c)
    <3>1. UNCHANGED <<reported, members, start, rounds, pc, kind, candidates>>
          /\ cursor' \in Nat /\ unassigned' \in Seq(Partitions)
          /\ assigned' \in [Clients -> Assignment] /\ pc = "assign"
      BY <2>1 DEF Swaps
    <3>2. TypeOK'
      BY <3>1 DEF TypeOK
    <3> QED
      BY <3>1, <3>2, SameMembers DEF LoopInv
  <2>2. CASE /\ pc = "assign" /\ pc' = "failed"
             /\ UNCHANGED <<reported, members, start, rounds, kind, candidates, assigned,
                            cursor, unassigned>>
    BY <2>2 DEF TypeOK, LoopInv
  <2> QED
    BY <1>6, <2>1, <2>2, SwapFacts
<1>7. CASE Assigned
  <2>1. /\ pc = "assign" /\ kind' \in {kind, "standby"} /\ pc' \in {"failed", "over", "done"}
        /\ pc' = "done" => kind' = "standby"
        /\ UNCHANGED <<reported, members, start, rounds, assigned, candidates, cursor,
                       unassigned>>
    BY <1>7 DEF Assigned
  <2>2. TypeOK'
    BY <2>1 DEF TypeOK, Kinds
  <2> QED
    BY <2>1, <2>2 DEF LoopInv
<1>8. CASE \E S \in SUBSET Members : Sync(S)
  <2>1. PICK S \in SUBSET Members : Sync(S)
    BY <1>8
  <2>2. /\ reported' = [c \in Clients |->
                          IF c \notin S THEN reported[c]
                          ELSE IF GlobalTable /\ assigned[c] = Nothing THEN Alone
                          ELSE assigned[c]]
        /\ pc' = "idle" /\ members' = <<>> /\ kind' = "active" /\ candidates' = <<>>
        /\ cursor' = 0 /\ unassigned' = <<>> /\ rounds' = rounds
        /\ start' = [c \in Clients |-> Nothing] /\ assigned' = [c \in Clients |-> Nothing]
    BY <2>1 DEF Sync, Discard
  <2>3. reported' \in [Clients -> Assignment]
    BY <2>2, EmptyFacts DEF TypeOK
  <2>4. start' \in [Clients -> Assignment] /\ assigned' \in [Clients -> Assignment]
    BY <2>2, EmptyFacts
  <2>5. TypeOK'
    BY <2>2, <2>3, <2>4, EmptyFacts DEF TypeOK, Kinds
  <2> QED
    BY <2>2, <2>5 DEF LoopInv
<1>9. CASE UNCHANGED vars
  <2>1. UNCHANGED <<reported, members, start, assigned, pc, kind, candidates, cursor,
                    unassigned, rounds>>
    BY <1>9 DEF vars
  <2>2. TypeOK'
    BY <2>1 DEF TypeOK
  <2> QED
    BY <2>1, <2>2, SameMembers DEF LoopInv
<1> QED
  BY <1>1, <1>2, <1>3, <1>4, <1>5, <1>6, <1>7, <1>8, <1>9 DEF Next, Leader

(* Whatever the members claim, every variable keeps its type: the leader's *)
(* lists hold clients and partitions only, and every loop over clients     *)
(* ends within the mapping.                                                *)
THEOREM TypeCorrect == Spec => []TypeOK
<1>1. TypeOK /\ LoopInv => TypeOK
  OBVIOUS
<1> QED
  BY <1>1, TypeInit, TypeNext, PTL DEF Spec


-----------------------------------------------------------------------------
(* No client goes beyond its share.                                        *)

(* A client from which partitions are only taken has no more than before.  *)
LEMMA Fewer ==
    ASSUME TypeOK, NEW c \in Clients, NEW k \in Kinds,
           assigned'[c][k] \subseteq assigned[c][k]
    PROVE  Cardinality(assigned'[c][k]) \in Nat /\ Cardinality(assigned'[c][k]) <= Load(c, k)
<1>1. IsFiniteSet(assigned[c][k])
  BY AssignedFacts
<1> QED
  BY <1>1, PartSize DEF Load

(* One more is within the share of a client that is not exhausted.         *)
LEMMA OneMore ==
    ASSUME TypeOK, members # <<>>, NEW c \in Clients, NEW k \in Kinds, NEW p,
           p \notin assigned[c][k], ~Exhausted(c, k), Load(c, k) <= ClientLimit(k),
           assigned'[c][k] = assigned[c][k] \cup {p}
    PROVE  Cardinality(assigned'[c][k]) <= ClientLimit(k)
<1>1. IsFiniteSet(assigned[c][k]) /\ Load(c, k) \in Nat
  BY AssignedFacts
<1>2. Cardinality(assigned'[c][k]) = Load(c, k) + 1
  BY <1>1, FS_AddElement DEF Load
<1>3. ClientLimit(k) \in Nat
  BY CapacityFacts DEF ClientLimit, TotalAssigns
<1>4. Load(c, k) # ClientLimit(k)
  BY DEF Exhausted, Load
<1> QED
  BY <1>1, <1>2, <1>3, <1>4

(* Giving up one partition for another leaves the number.                  *)
LEMMA AsMany ==
    ASSUME NEW S, IsFiniteSet(S), NEW p, NEW q, p \notin S, q \in S
    PROVE  Cardinality((S \cup {p}) \ {q}) = Cardinality(S)
<1>1. IsFiniteSet(S \cup {p}) /\ Cardinality(S \cup {p}) = Cardinality(S) + 1
  BY FS_AddElement
<1>2. Cardinality((S \cup {p}) \ {q}) = Cardinality(S \cup {p}) - 1
  BY <1>1, FS_RemoveElement
<1>3. Cardinality(S) \in Nat
  BY FS_CardinalityType
<1> QED
  BY <1>1, <1>2, <1>3

(* The limits of the two kinds.                                            *)
LEMMA LimitFacts ==
    ASSUME TypeOK, members # <<>>
    PROVE  /\ ClientLimit("active") = MaxCapacity
           /\ ClientLimit("standby") = MaxCapacity * EffReplicas
           /\ MaxCapacity \in Nat /\ MaxCapacity * EffReplicas \in Nat
           /\ Capacity \in Nat /\ Capacity <= MaxCapacity
           /\ Capacity * EffReplicas \in Nat
           /\ Capacity * EffReplicas <= MaxCapacity * EffReplicas
<1>1. /\ MaxCapacity \in Nat /\ EffReplicas \in Nat /\ Capacity \in Nat
      /\ Capacity <= MaxCapacity
  BY CapacityFacts
<1>2. Capacity * EffReplicas <= MaxCapacity * EffReplicas
  BY <1>1
<1> QED
  BY <1>1, <1>2 DEF ClientLimit, TotalAssigns

(* What the client at a place may have.                                    *)
Within(c) ==
    /\ Load(c, "active") <= MaxCapacity
    /\ Load(c, "standby") <= MaxCapacity * EffReplicas

(* The same after a step that leaves the mapping.                          *)
LEMMA WithinNext ==
    ASSUME UNCHANGED members, NEW c \in Clients
    PROVE  Within(c)' <=>
             /\ Cardinality(assigned'[c]["active"]) <= MaxCapacity
             /\ Cardinality(assigned'[c]["standby"]) <= MaxCapacity * EffReplicas
  BY SameMembers DEF Within, Load

(* ShareInv, as far as the steps within a round see it.                    *)
LEMMA ShareStep ==
    ASSUME TypeOK, UNCHANGED members, assigned' \in [Clients -> Assignment],
           \A c \in Clients : assigned'[c]["active"] \cap assigned'[c]["standby"] = {},
           \A i \in 1..NumClients : (pc' # "extras" \/ i <= cursor') => Within(members[i])'
    PROVE  ShareInv'
<1>1. NumClients' = NumClients
  BY SameMembers
<1> QED
  BY <1>1 DEF ShareInv, Within

(* Every step keeps the clients within their shares.                       *)
LEMMA ShareNext ==
    TypeOK /\ LoopInv /\ ShareInv /\ [Next]_vars => ShareInv'
<1> SUFFICES ASSUME TypeOK, LoopInv, ShareInv, [Next]_vars PROVE ShareInv'
  OBVIOUS
<1> USE DEF roundVars, loopVars
<1>1. /\ \A i \in 1..NumClients : members[i] \in Members /\ members[i] \in Clients
      /\ \A i, j \in 1..NumClients : members[i] = members[j] => i = j
      /\ NumClients \in Nat /\ Members \subseteq Clients
      /\ \A c \in Members : Index(c) \in 1..NumClients /\ members[Index(c)] = c
  BY MemberFacts
<1>2. \A c \in Clients : assigned[c]["active"] \cap assigned[c]["standby"] = {}
  BY DEF ShareInv
<1>3. \A i \in 1..NumClients : (pc # "extras" \/ i <= cursor) => Within(members[i])
  BY DEF ShareInv, Within
<1>4. pc # "extras" => \A c \in Members : Within(c)
  BY <1>1, <1>3
<1>5. \A c \in Clients : Load(c, "active") \in Nat /\ Load(c, "standby") \in Nat
  BY AssignedFacts DEF Kinds
<1>6. pc # "idle" => /\ members # <<>> /\ MaxCapacity \in Nat
                     /\ MaxCapacity * EffReplicas \in Nat
  BY LimitFacts DEF LoopInv
<1>7. CASE \E M \in (SUBSET Clients) \ {{}} : Begin(M)
  <2>1. PICK M \in (SUBSET Clients) \ {{}} : Begin(M)
    BY <1>7
  <2>2. pc' = "extras" /\ cursor' = 0
    BY <2>1 DEF Begin
  <2>3. \A c \in Clients : assigned'[c]["active"] \cap assigned'[c]["standby"] = {}
    BY <2>1, BeginFacts
  <2>4. \A i \in 1..NumClients' : ~(i <= 0)
    BY <2>1, BeginFacts DEF NumClients
  <2> QED
    BY <2>2, <2>3, <2>4 DEF ShareInv
<1>8. CASE UnassignExtras
  <2>1. PICK c \in Members : Cut(c)
    BY <1>8, ExtrasFacts
  <2>2. pc = "extras" /\ c = members[cursor + 1] /\ UNCHANGED members /\ cursor \in Nat
        /\ assigned' \in [Clients -> Assignment]
        /\ \A d \in Clients \ {c} : assigned'[d] = assigned[d]
    BY <2>1 DEF Cut, TypeOK
  <2>3. Within(c)'
    <3>1. /\ Cardinality(assigned'[c]["active"]) <= Capacity
          /\ Cardinality(assigned'[c]["standby"]) <= Capacity * EffReplicas
      BY <2>1 DEF Cut
    <3>2. /\ Cardinality(assigned'[c]["active"]) \in Nat
          /\ Cardinality(assigned'[c]["standby"]) \in Nat
      BY <1>1, <2>1, Fewer DEF Cut, Kinds
    <3>3. /\ Capacity \in Nat /\ Capacity <= MaxCapacity /\ MaxCapacity \in Nat
          /\ Capacity * EffReplicas \in Nat /\ MaxCapacity * EffReplicas \in Nat
          /\ Capacity * EffReplicas <= MaxCapacity * EffReplicas
      BY <1>6, <2>2, LimitFacts
    <3> DEFINE a == Cardinality(assigned'[c]["active"])
               b == Cardinality(assigned'[c]["standby"])
               x == Capacity * EffReplicas
               y == MaxCapacity * EffReplicas
    <3> HIDE DEF a, b, x, y
    <3>4. a <= MaxCapacity /\ b <= y
      BY <3>1, <3>2, <3>3 DEF a, b, x, y
    <3> QED
      BY <1>1, <2>2, <3>4, WithinNext DEF a, b, y
  <2>4. \A i \in 1..NumClients : (pc' # "extras" \/ i <= cursor') => Within(members[i])'
    <3> TAKE i \in 1..NumClients
    <3> HAVE pc' # "extras" \/ i <= cursor'
    <3>1. CASE i = cursor + 1
      <4>1. members[i] = c
        BY <2>2, <3>1
      <4> QED
        BY <2>2, <2>3, <4>1 DEF Within, Load
    <3>2. CASE i # cursor + 1
      <4>1. i <= cursor
        BY <1>1, <2>1, <2>2, <3>2 DEF Cut
      <4>2. Within(members[i])
        BY <1>3, <4>1
      <4>3. members[i] # c /\ members[i] \in Clients
        <5>1. cursor + 1 \in 1..NumClients
          BY <1>1, <2>2 DEF LoopInv
        <5> QED
          BY <1>1, <2>2, <3>2, <5>1
      <4>4. assigned'[members[i]] = assigned[members[i]]
        BY <2>2, <4>3
      <4> QED
        BY <2>2, <4>2, <4>4, SameMembers DEF Within, Load
    <3> QED
      BY <3>1, <3>2
  <2>5. ASSUME NEW d \in Clients PROVE assigned'[d]["active"] \cap assigned'[d]["standby"] = {}
    <3>1. CASE d = c
      BY <1>2, <2>1, <3>1 DEF Cut
    <3>2. CASE d # c
      BY <1>2, <2>2, <3>2
    <3> QED
      BY <3>1, <3>2
  <2> QED
    BY <2>2, <2>4, <2>5, ShareStep
<1>9. CASE UnassignOverassigned
  <2>1. pc = "over" /\ UNCHANGED members /\ members # <<>>
    BY <1>6, <1>9 DEF UnassignOverassigned
  <2>2. assigned' \in [Clients -> Assignment]
        /\ \A c \in Clients : /\ assigned'[c]["active"] \subseteq assigned[c]["active"]
                              /\ assigned'[c]["standby"] \subseteq assigned[c]["standby"]
    BY <1>9, OverFacts DEF Kinds
  <2>3. \A c \in Clients : assigned'[c]["active"] \cap assigned'[c]["standby"] = {}
    BY <1>2, <2>2
  <2>4. ASSUME NEW i \in 1..NumClients PROVE Within(members[i])'
    <3> DEFINE c == members[i]
    <3>1. c \in Clients /\ Within(c)
      BY <1>1, <1>4, <2>1
    <3>2. /\ Cardinality(assigned'[c]["active"]) \in Nat
          /\ Cardinality(assigned'[c]["active"]) <= Load(c, "active")
      BY <2>2, <3>1, Fewer DEF Kinds
    <3>3. /\ Cardinality(assigned'[c]["standby"]) \in Nat
          /\ Cardinality(assigned'[c]["standby"]) <= Load(c, "standby")
      BY <2>2, <3>1, Fewer DEF Kinds
    <3> DEFINE y == MaxCapacity * EffReplicas
    <3>4. y \in Nat /\ MaxCapacity \in Nat /\ Load(c, "standby") <= y
          /\ Load(c, "active") <= MaxCapacity
      BY <1>6, <2>1, <3>1 DEF Within
    <3> HIDE DEF y
    <3>5. Cardinality(assigned'[c]["active"]) <= MaxCapacity
          /\ Cardinality(assigned'[c]["standby"]) <= y
      BY <1>5, <3>1, <3>2, <3>3, <3>4
    <3> QED
      BY <2>1, <3>1, <3>5, SameMembers DEF Within, Load, y
  <2> QED
    BY <2>1, <2>2, <2>3, <2>4, ShareStep
<1>10. CASE SortCandidates
  <2>1. pc = "sort" /\ UNCHANGED <<members, assigned>>
    BY <1>10 DEF SortCandidates
  <2>2. \A i \in 1..NumClients : Within(members[i])'
    BY <1>3, <2>1, SameMembers DEF Within, Load
  <2> QED
    BY <1>2, <2>1, <2>2, ShareStep DEF TypeOK
<1>11. CASE Promote \/ AssignRoundRobin
  <2>1. PICK p \in Partitions, c \in Members : Gives(p, c)
    BY <1>11, GiveFacts
  <2>2. /\ pc = "assign" /\ UNCHANGED <<members, kind>> /\ assigned' \in [Clients -> Assignment]
        /\ \A d \in Clients \ {c} : assigned'[d] = assigned[d]
        /\ p \notin assigned[c][kind] /\ ~Exhausted(c, kind)
        /\ assigned'[c][kind] = assigned[c][kind] \cup {p}
    BY <2>1 DEF Gives
  <2>3. c \in Clients /\ Within(c) /\ members # <<>> /\ kind \in {"active", "standby"}
    BY <1>1, <1>4, <1>6, <2>2 DEF TypeOK, Kinds
  <2>4. /\ ClientLimit("active") = MaxCapacity
        /\ ClientLimit("standby") = MaxCapacity * EffReplicas
    BY <2>3, LimitFacts
  <2>5. Load(c, kind) <= ClientLimit(kind)
    BY <2>3, <2>4 DEF Within
  <2>6. Cardinality(assigned'[c][kind]) <= ClientLimit(kind)
    <3> DEFINE k == kind
    <3>1. /\ k \in Kinds /\ p \notin assigned[c][k] /\ ~Exhausted(c, k)
          /\ Load(c, k) <= ClientLimit(k) /\ assigned'[c][k] = assigned[c][k] \cup {p}
      BY <2>2, <2>3, <2>5 DEF Kinds
    <3> HIDE DEF k
    <3>2. Cardinality(assigned'[c][k]) <= ClientLimit(k)
      BY <2>3, <3>1, OneMore
    <3> QED
      BY <3>2 DEF k
  <2>7. Within(c)' /\ assigned'[c]["active"] \cap assigned'[c]["standby"] = {}
    <3>1. CASE kind = "active"
      <4>1. assigned'[c]["standby"] = assigned[c]["standby"] \ {p}
        BY <2>1, <3>1 DEF Gives
      <4>2. /\ Cardinality(assigned'[c]["standby"]) \in Nat
            /\ Cardinality(assigned'[c]["standby"]) <= Load(c, "standby")
        BY <2>3, <4>1, Fewer DEF Kinds
      <4> DEFINE y == MaxCapacity * EffReplicas
      <4>3. y \in Nat /\ Load(c, "standby") <= y /\ Load(c, "standby") \in Nat
        BY <1>5, <1>6, <2>2, <2>3 DEF Within
      <4> HIDE DEF y
      <4>4. Cardinality(assigned'[c]["standby"]) <= y
        BY <4>2, <4>3
      <4>5. Cardinality(assigned'[c]["active"]) <= MaxCapacity
        BY <2>4, <2>6, <3>1
      <4>6. assigned'[c]["active"] \cap assigned'[c]["standby"] = {}
        <5>1. assigned'[c]["active"] = assigned[c]["active"] \cup {p}
              /\ assigned[c]["active"] \cap assigned[c]["standby"] = {}
          BY <1>2, <2>2, <2>3, <3>1
        <5> QED
          BY <4>1, <5>1
      <4> QED
        BY <2>2, <2>3, <4>4, <4>5, <4>6, WithinNext DEF y
    <3>2. CASE kind = "standby"
      <4>1. assigned'[c]["active"] = assigned[c]["active"] /\ p \notin assigned[c]["active"]
        BY <2>1, <3>2 DEF Gives
      <4>2. Cardinality(assigned'[c]["active"]) <= MaxCapacity
        BY <2>3, <4>1 DEF Within, Load
      <4>3. Cardinality(assigned'[c]["standby"]) <= MaxCapacity * EffReplicas
        BY <2>4, <2>6, <3>2
      <4>4. assigned'[c]["active"] \cap assigned'[c]["standby"] = {}
        <5>1. assigned'[c]["standby"] = assigned[c]["standby"] \cup {p}
              /\ assigned[c]["active"] \cap assigned[c]["standby"] = {}
          BY <1>2, <2>2, <2>3, <3>2
        <5> QED
          BY <4>1, <5>1
      <4> QED
        BY <2>2, <2>3, <4>2, <4>3, <4>4, WithinNext
    <3> QED
      BY <2>3, <3>1, <3>2
  <2>8. ASSUME NEW d \in Clients, d # c
        PROVE  /\ assigned'[d]["active"] \cap assigned'[d]["standby"] = {}
               /\ d \in Members => Within(d)'
    <3>1. assigned'[d] = assigned[d]
      BY <2>2, <2>8
    <3> QED
      BY <1>2, <1>4, <2>2, <3>1, SameMembers DEF Within, Load
  <2>9. ASSUME NEW i \in 1..NumClients PROVE Within(members[i])'
    <3>1. CASE members[i] = c
      BY <2>2, <2>7, <3>1 DEF Within, Load
    <3>2. CASE members[i] # c
      <4>1. members[i] \in Clients /\ members[i] \in Members
        BY <1>1
      <4>2. \A d \in Members : d # c => Within(d)'
        BY <1>1, <2>8
      <4> QED
        BY <2>2, <3>2, <4>1, <4>2 DEF Within, Load
    <3> QED
      BY <3>1, <3>2
  <2> QED
    BY <2>2, <2>7, <2>8, <2>9, ShareStep
<1>12. CASE Swap
  <2>1. CASE \E p, q \in Partitions, c \in Members : Swaps(p, q, c)
    <3>1. PICK p, q \in Partitions, c \in Members : Swaps(p, q, c)
      BY <2>1
    <3>2. /\ pc = "assign" /\ UNCHANGED members /\ assigned' \in [Clients -> Assignment]
          /\ \A d \in Clients \ {c} : assigned'[d] = assigned[d]
          /\ p \notin assigned[c]["standby"] /\ p \notin assigned[c]["active"]
          /\ q \in assigned[c]["standby"]
          /\ assigned'[c]["standby"] = (assigned[c]["standby"] \cup {p}) \ {q}
          /\ assigned'[c]["active"] = assigned[c]["active"]
      BY <3>1 DEF Swaps
    <3>3. c \in Clients /\ Within(c) /\ IsFiniteSet(assigned[c]["standby"])
      BY <1>1, <1>4, <3>2, AssignedFacts DEF Kinds
    <3>4. Cardinality(assigned'[c]["standby"]) = Load(c, "standby")
      BY <3>2, <3>3, AsMany DEF Load
    <3>5. Within(c)'
      BY <3>2, <3>3, <3>4, SameMembers DEF Within, Load
    <3>6. assigned'[c]["active"] \cap assigned'[c]["standby"] = {}
      BY <1>2, <3>2, <3>3
    <3>7. ASSUME NEW d \in Clients, d # c
          PROVE  /\ assigned'[d]["active"] \cap assigned'[d]["standby"] = {}
                 /\ d \in Members => Within(d)'
      <4>1. assigned'[d] = assigned[d]
        BY <3>2, <3>7
      <4> QED
        BY <1>2, <1>4, <3>2, <4>1, SameMembers DEF Within, Load
    <3>8. ASSUME NEW i \in 1..NumClients PROVE Within(members[i])'
      <4>1. \A d \in Members : Within(d)'
        BY <1>1, <3>5, <3>7
      <4> QED
        BY <1>1, <3>2, <4>1 DEF Within, Load
    <3> QED
      BY <3>2, <3>6, <3>7, <3>8, ShareStep
  <2>2. CASE pc = "assign" /\ UNCHANGED <<members, assigned>>
    <3>1. \A i \in 1..NumClients : Within(members[i])'
      BY <1>3, <2>2, SameMembers DEF Within, Load
    <3> QED
      BY <1>2, <2>2, <3>1, ShareStep DEF TypeOK
  <2> QED
    BY <1>12, <2>1, <2>2, SwapFacts
<1>13. CASE Assigned
  <2>1. pc = "assign" /\ UNCHANGED <<members, assigned>>
    BY <1>13 DEF Assigned
  <2>2. \A i \in 1..NumClients : Within(members[i])'
    BY <1>3, <2>1, SameMembers DEF Within, Load
  <2> QED
    BY <1>2, <2>1, <2>2, ShareStep DEF TypeOK
<1>14. CASE \E S \in SUBSET Members : Sync(S)
  <2>1. members' = <<>> /\ assigned' = [c \in Clients |-> Nothing]
    BY <1>14 DEF Sync, Discard
  <2>2. \A c \in Clients : assigned'[c]["active"] \cap assigned'[c]["standby"] = {}
    BY <2>1, EmptyFacts
  <2>3. NumClients' = 0
    BY <2>1 DEF NumClients
  <2> QED
    BY <2>2, <2>3 DEF ShareInv
<1>15. CASE UNCHANGED vars
  <2>1. UNCHANGED <<members, assigned, pc, cursor>>
    BY <1>15 DEF vars
  <2> QED
    BY <2>1, SameMembers DEF ShareInv, Load
<1> QED
  BY <1>7, <1>8, <1>9, <1>10, <1>11, <1>12, <1>13, <1>14, <1>15 DEF Next, Leader

-----------------------------------------------------------------------------
(* Nothing is lost and nothing is given out twice.                         *)

(* How many members have p after a step.                                   *)
After(k, p) == Cardinality({c \in Members : p \in assigned'[c][k]})

(* CountInv after a step within a round.                                   *)
LEMMA CountStep ==
    ASSUME UNCHANGED members, kind' \in Kinds, pc' # "failed",
           \A p \in Partitions :
             /\ pc' = "sort" => After(kind', p) <= TotalAssigns(kind')
             /\ pc' = "assign" =>
                  After(kind', p) + Occurs(unassigned', p) = TotalAssigns(kind')
             /\ kind' = "standby" => After("active", p) = 1
             /\ pc' = "done" => After("standby", p) = EffReplicas
    PROVE  CountInv'
<1>1. Members' = Members /\ EffReplicas' = EffReplicas
  BY SameMembers
<1>2. \A p \in Partitions : /\ Count(kind, p)' = After(kind', p)
                            /\ Count("active", p)' = After("active", p)
                            /\ Count("standby", p)' = After("standby", p)
  BY <1>1 DEF Count, Holders, After
<1>3. TotalAssigns(kind)' = TotalAssigns(kind')
  BY <1>1 DEF TotalAssigns
<1>4. \A p \in Partitions : Occurs(unassigned, p)' = Occurs(unassigned', p)
  BY DEF Occurs
<1> QED
  BY <1>1, <1>2, <1>3, <1>4 DEF CountInv

(* As many clients keep a partition as are allowed.                        *)
LEMMA KeepersFacts ==
    ASSUME TypeOK, members # <<>>, NEW k \in Kinds, NEW p \in Partitions
    PROVE  /\ IsFiniteSet(Keepers(k, p)) /\ Cardinality(Keepers(k, p)) \in Nat
           /\ Cardinality(Keepers(k, p)) <= TotalAssigns(k)
<1> DEFINE H == Holders(k, p)
           R == {z \in H \X H : Index(z[1]) > Index(z[2])}
           t == TotalAssigns(k)
           K == Keepers(k, p)
           f == [c \in K |-> Rank(H, R, c)]
<1>1. t \in Nat /\ IsFiniteSet(H) /\ H \subseteq Members
  BY CopyOrderIsOrder, AssignedFacts
<1>2. \A c, d \in H : <<c, d>> \in R <=> Index(c) > Index(d)
  OBVIOUS
<1>3. /\ \A c \in H : Index(c) \in Nat
      /\ \A c, d \in H : Index(c) = Index(d) => c = d
  BY <1>1, MemberFacts
<1>4. Order(H, R)
  <2> HIDE DEF H, R
  <2> QED
    BY <1>2, <1>3 DEF Order
<1>5. \A c \in H : {d \in H : Index(d) > Index(c)} = {d \in H : <<d, c>> \in R}
  BY <1>2
<1>6. K = {c \in H : Rank(H, R, c) < t}
  BY <1>5 DEF Keepers, Rank
<1> HIDE DEF H, R, t, K
<1>7. /\ \A c \in H : Rank(H, R, c) \in Nat
      /\ \A c, d \in H : Rank(H, R, c) = Rank(H, R, d) => c = d
  BY <1>1, <1>4, RankFacts
<1>8. f \in [K -> 0..t - 1] /\ \A c, d \in K : f[c] = f[d] => c = d
  BY <1>1, <1>6, <1>7
<1>9. IsFiniteSet(0..t - 1) /\ Cardinality(0..t - 1) = t
  BY <1>1, FS_Interval
<1> HIDE DEF f
<1>10. IsFiniteSet(K) /\ Cardinality(K) \in Nat /\ Cardinality(K) <= Cardinality(0..t - 1)
  <2> DEFINE T == 0..t - 1
  <2>1. f \in [K -> T] /\ IsFiniteSet(T)
    BY <1>8, <1>9
  <2> HIDE DEF T
  <2>2. IsFiniteSet(K) /\ Cardinality(K) \in Nat /\ Cardinality(K) <= Cardinality(T)
    BY <1>8, <2>1, OneToOne
  <2> QED
    BY <2>2 DEF T
<1> QED
  BY <1>9, <1>10 DEF K, t

(* _unassign_overassigned leaves a partition with no more clients than are *)
(* allowed.                                                                *)
LEMMA OverCount ==
    ASSUME TypeOK, members # <<>>, UnassignOverassigned, NEW p \in Partitions
    PROVE  After(kind, p) \in Nat /\ After(kind, p) <= TotalAssigns(kind)
<1> DEFINE T == {c \in Members : p \in assigned'[c][kind]}
<1>1. kind \in Kinds
  BY DEF TypeOK
<1>2. \A c \in T : /\ p \in assigned[c][kind]
                   /\ Count(kind, p) > TotalAssigns(kind) => c \in Keepers(kind, p)
  BY OverFacts
<1>3. /\ Count(kind, p) \in Nat /\ TotalAssigns(kind) \in Nat
      /\ IsFiniteSet(Holders(kind, p))
  BY <1>1, AssignedFacts, CopyOrderIsOrder
<1>4. CASE Count(kind, p) > TotalAssigns(kind)
  <2>1. T \subseteq Keepers(kind, p)
    BY <1>2, <1>4
  <2>2. /\ IsFiniteSet(Keepers(kind, p)) /\ Cardinality(Keepers(kind, p)) \in Nat
        /\ Cardinality(Keepers(kind, p)) <= TotalAssigns(kind)
    BY <1>1, KeepersFacts
  <2> HIDE DEF T
  <2>3. Cardinality(T) \in Nat /\ Cardinality(T) <= Cardinality(Keepers(kind, p))
    BY <2>1, <2>2, PartSize
  <2> QED
    BY <1>3, <2>2, <2>3 DEF After, T
<1>5. CASE ~(Count(kind, p) > TotalAssigns(kind))
  <2>1. T \subseteq Holders(kind, p)
    BY <1>2 DEF Holders
  <2> HIDE DEF T
  <2>2. Cardinality(T) \in Nat /\ Cardinality(T) <= Cardinality(Holders(kind, p))
    BY <1>3, <2>1, PartSize
  <2> QED
    BY <1>3, <1>5, <2>2 DEF After, T, Count
<1> QED
  BY <1>4, <1>5

(* A partition that is given out is no longer missing once.                *)
LEMMA GiveCount ==
    ASSUME TypeOK, NEW p \in Partitions, NEW c \in Members, Gives(p, c),
           NEW q \in Partitions
    PROVE  /\ After(kind, q) + Occurs(unassigned', q) = Count(kind, q) + Occurs(unassigned, q)
           /\ kind = "standby" => After("active", q) = Count("active", q)
<1>1. /\ unassigned # <<>> /\ p = Head(unassigned) /\ unassigned' = Tail(unassigned)
      /\ p \notin assigned[c][kind] /\ assigned'[c][kind] = assigned[c][kind] \cup {p}
      /\ kind = "standby" => assigned'[c]["active"] = assigned[c]["active"]
      /\ \A d \in Clients \ {c} : assigned'[d] = assigned[d]
  BY DEF Gives
<1>2. /\ unassigned \in Seq(Partitions) /\ Tail(unassigned) \in Seq(Partitions)
      /\ kind \in Kinds
  BY <1>1, HeadFacts DEF TypeOK
<1>3. /\ Occurs(unassigned, q) = Occurs(unassigned', q) + IF p = q THEN 1 ELSE 0
      /\ Occurs(unassigned', q) \in Nat
  <2>1. Occurs(unassigned, q) = Occurs(Tail(unassigned), q)
                                  + IF Head(unassigned) = q THEN 1 ELSE 0
    BY <1>1, <1>2, OccursFacts
  <2> DEFINE t == Tail(unassigned)
  <2>2. t \in Seq(Partitions)
    BY <1>2
  <2> HIDE DEF t
  <2>3. Occurs(t, q) \in Nat
    BY <2>2, OccursFacts
  <2> QED
    BY <1>1, <2>1, <2>3 DEF t
<1>4. IsFiniteSet(Holders(kind, q)) /\ Count(kind, q) \in Nat
  BY <1>2, AssignedFacts
<1>5. Members \subseteq Clients
  BY MemberFacts
<1> DEFINE T == {d \in Members : q \in assigned'[d][kind]}
<1>6. T = IF p = q THEN Holders(kind, q) \cup {c} ELSE Holders(kind, q)
  <2>1. \A d \in Members : q \in assigned'[d][kind] <=>
          q \in assigned[d][kind] \/ (d = c /\ p = q)
    <3> TAKE d \in Members
    <3>1. CASE d = c
      BY <1>1, <3>1
    <3>2. CASE d # c
      BY <1>1, <1>5, <3>2
    <3> QED
      BY <3>1, <3>2
  <2> QED
    BY <2>1 DEF Holders
<1>7. p = q => c \notin Holders(kind, q)
  BY <1>1 DEF Holders
<1> HIDE DEF T
<1>8. Cardinality(T) = Count(kind, q) + IF p = q THEN 1 ELSE 0
  <2> DEFINE H == Holders(kind, q)
  <2>1. /\ IsFiniteSet(H) /\ Cardinality(H) = Count(kind, q)
        /\ T = IF p = q THEN H \cup {c} ELSE H
        /\ p = q => c \notin H
    BY <1>4, <1>6, <1>7 DEF Count
  <2> HIDE DEF H
  <2>2. Cardinality(H \cup {c}) = IF c \in H THEN Cardinality(H) ELSE Cardinality(H) + 1
    BY <2>1, FS_AddElement
  <2> QED
    BY <1>4, <2>1, <2>2
<1>9. kind = "standby" => \A d \in Members : assigned'[d]["active"] = assigned[d]["active"]
  BY <1>1, <1>5
<1>10. kind = "standby" => After("active", q) = Count("active", q)
  BY <1>9 DEF After, Count, Holders
<1>11. After(kind, q) = Cardinality(T)
  BY DEF After, T
<1> QED
  BY <1>3, <1>4, <1>8, <1>10, <1>11

(* One that is swapped makes another one missing.                          *)
LEMMA SwapCount ==
    ASSUME TypeOK, NEW p \in Partitions, NEW r \in Partitions, NEW c \in Members,
           Swaps(p, r, c), NEW q \in Partitions
    PROVE  /\ After("standby", q) + Occurs(unassigned', q)
                = Count("standby", q) + Occurs(unassigned, q)
           /\ After("active", q) = Count("active", q)
<1>1. /\ unassigned # <<>> /\ p = Head(unassigned) /\ kind = "standby"
      /\ unassigned' = Append(Tail(unassigned), r)
      /\ p \notin assigned[c]["standby"] /\ r \in assigned[c]["standby"]
      /\ assigned'[c]["standby"] = (assigned[c]["standby"] \cup {p}) \ {r}
      /\ assigned'[c]["active"] = assigned[c]["active"]
      /\ \A d \in Clients \ {c} : assigned'[d] = assigned[d]
  BY DEF Swaps
<1>2. unassigned \in Seq(Partitions) /\ Tail(unassigned) \in Seq(Partitions)
  BY <1>1, HeadFacts DEF TypeOK
<1>3. /\ Occurs(unassigned, q) = Occurs(Tail(unassigned), q) + IF p = q THEN 1 ELSE 0
      /\ Occurs(Tail(unassigned), q) \in Nat
      /\ Occurs(unassigned', q) = Occurs(Tail(unassigned), q) + IF r = q THEN 1 ELSE 0
  <2>1. Occurs(unassigned, q) = Occurs(Tail(unassigned), q) + IF p = q THEN 1 ELSE 0
    BY <1>1, <1>2, OccursFacts
  <2> DEFINE t == Tail(unassigned)
  <2>2. t \in Seq(Partitions)
    BY <1>2
  <2> HIDE DEF t
  <2>3. /\ Occurs(t, q) \in Nat
        /\ \A s \in Partitions : Occurs(Append(t, s), q)
                                  = Occurs(t, q) + IF s = q THEN 1 ELSE 0
    BY <2>2, OccursFacts
  <2> QED
    BY <1>1, <2>1, <2>3 DEF t
<1>4. IsFiniteSet(Holders("standby", q)) /\ Count("standby", q) \in Nat
  BY AssignedFacts DEF Kinds
<1>5. Members \subseteq Clients /\ p # r
  BY <1>1, MemberFacts
<1> DEFINE H == Holders("standby", q)
           T == {d \in Members : q \in assigned'[d]["standby"]}
<1>6. \A d \in Members : q \in assigned'[d]["standby"] <=>
        IF d = c THEN q # r /\ (q = p \/ q \in assigned[d]["standby"])
                 ELSE q \in assigned[d]["standby"]
  BY <1>1, <1>5
<1>7. T = IF p = q THEN H \cup {c} ELSE IF r = q THEN H \ {c} ELSE H
  <2>1. CASE p = q
    BY <1>5, <1>6, <2>1 DEF Holders
  <2>2. CASE r = q
    BY <1>5, <1>6, <2>2 DEF Holders
  <2>3. CASE p # q /\ r # q
    BY <1>6, <2>3 DEF Holders
  <2> QED
    BY <1>5, <2>1, <2>2, <2>3
<1>8. (p = q => c \notin H) /\ (r = q => c \in H)
  BY <1>1 DEF Holders
<1>9. IsFiniteSet(H) /\ Cardinality(H) = Count("standby", q) /\ Cardinality(H) \in Nat
  BY <1>4 DEF Count
<1> HIDE DEF T, H
<1>10. Cardinality(H \cup {c}) = IF c \in H THEN Cardinality(H) ELSE Cardinality(H) + 1
  BY <1>9, FS_AddElement
<1>11. Cardinality(H \ {c}) = IF c \in H THEN Cardinality(H) - 1 ELSE Cardinality(H)
  BY <1>9, FS_RemoveElement
<1>12. Cardinality(T) = Count("standby", q) + (IF p = q THEN 1 ELSE 0)
                                            - (IF r = q THEN 1 ELSE 0)
  BY <1>5, <1>7, <1>8, <1>9, <1>10, <1>11
<1>13. After("standby", q) = Cardinality(T)
  BY DEF After, T
<1>14. \A d \in Members : assigned'[d]["active"] = assigned[d]["active"]
  BY <1>1, <1>5
<1>15. After("active", q) = Count("active", q)
  BY <1>14 DEF After, Count, Holders
<1> QED
  BY <1>3, <1>4, <1>12, <1>13, <1>15

(* What is to be given out is not with as many as it should be.            *)
LEMMA HeadMissing ==
    ASSUME TypeOK, LoopInv, CountInv, pc = "assign", unassigned # <<>>
    PROVE  Count(kind, Head(unassigned)) < TotalAssigns(kind)
<1> DEFINE p == Head(unassigned)
<1>1. p \in Partitions /\ Tail(unassigned) \in Seq(Partitions)
      /\ unassigned \in Seq(Partitions) /\ kind \in Kinds /\ members # <<>>
  BY HeadFacts DEF TypeOK, LoopInv
<1>2. Occurs(unassigned, p) = Occurs(Tail(unassigned), p) + 1
      /\ Occurs(Tail(unassigned), p) \in Nat
  BY <1>1, OccursFacts
<1>3. Count(kind, p) + Occurs(unassigned, p) = TotalAssigns(kind)
  BY <1>1 DEF CountInv
<1>4. Count(kind, p) \in Nat
  BY <1>1, AssignedFacts
<1> QED
  BY <1>2, <1>3, <1>4

(* As long as an active is missing, a client has room for it: with all at  *)
(* max_capacity there would be more partitions than there are.             *)
LEMMA RoomForActive ==
    ASSUME TypeOK, LoopInv, CountInv, pc = "assign", unassigned # <<>>, kind = "active"
    PROVE  \E d \in Members : Assignable(Head(unassigned), d)
<1> DEFINE p == Head(unassigned)
           m == MaxCapacity
           A(d) == assigned[d]["active"]
<1> SUFFICES ASSUME \A d \in Members : ~Assignable(p, d) PROVE FALSE
  OBVIOUS
<1>1. /\ p \in Partitions /\ unassigned \in Seq(Partitions)
      /\ NumClients \in Nat \ {0} /\ Members \subseteq Clients /\ members # <<>>
  BY HeadFacts, MemberFacts DEF LoopInv, TypeOK
<1>2. m \in Nat /\ NumPartitions <= m * NumClients /\ ClientLimit("active") = m
  BY <1>1, CapacityFacts, LimitFacts
<1>3. \A q \in Partitions : Count("active", q) \in Nat /\ Count("active", q) <= 1
  <2> TAKE q \in Partitions
  <2>1. Count("active", q) + Occurs(unassigned, q) = 1
    BY DEF CountInv, TotalAssigns
  <2>2. Occurs(unassigned, q) \in Nat /\ Count("active", q) \in Nat
    BY <1>1, OccursFacts, AssignedFacts DEF Kinds
  <2> QED
    BY <2>1, <2>2
<1>4. \A d \in Members : p \notin A(d)
  <2>1. Count("active", p) = 0
    BY <1>1, <1>3, HeadMissing DEF TotalAssigns
  <2>2. Holders("active", p) = {}
    BY <1>1, <2>1, AssignedFacts, FS_EmptySet DEF Count, Kinds
  <2> QED
    BY <2>2 DEF Holders
<1>5. \A d \in Members : Cardinality(A(d)) = m
  BY <1>2, <1>4 DEF Assignable, CanAssign, Exhausted
<1>6. ASSUME NEW c \in Members, NEW d \in Members, NEW q, q \in A(c), q \in A(d)
      PROVE  c = d
  <2>1. q \in Partitions
    BY <1>1, <1>6, AssignedFacts DEF Kinds
  <2> DEFINE H == Holders("active", q)
  <2>2. c \in H /\ d \in H /\ IsFiniteSet(H) /\ Cardinality(H) <= 1 /\ Cardinality(H) \in Nat
    BY <1>3, <1>6, <2>1, AssignedFacts DEF Count, Holders, Kinds
  <2> HIDE DEF H
  <2>3. {c} \subseteq H /\ Cardinality({c}) = 1
    BY <2>2, FS_Singleton
  <2>4. c # d => Cardinality({c}) < Cardinality(H)
    BY <2>2, <2>3, PartSize
  <2> QED
    BY <2>2, <2>3, <2>4
<1> DEFINE B(d) == CHOOSE f : f \in Bijection(1..m, A(d))
           D == Members \X (1..m)
           T == Partitions \ {p}
           g == [z \in D |-> B(z[1])[z[2]]]
<1>7. \A d \in Members : A(d) \subseteq Partitions /\ IsFiniteSet(A(d))
  BY <1>1, AssignedFacts DEF Kinds
<1>8. ASSUME NEW d \in Members PROVE B(d) \in Bijection(1..m, A(d))
  <2>1. ExistsBijection(1..Cardinality(A(d)), A(d))
    BY <1>7, FS_CardinalityType
  <2>2. \E f : f \in Bijection(1..m, A(d))
    BY <1>5, <2>1 DEF ExistsBijection
  <2> QED
    BY <2>2, Zenon
<1> HIDE DEF B
<1>9. \A d \in Members : /\ \A i \in 1..m : B(d)[i] \in A(d)
                         /\ \A i, j \in 1..m : B(d)[i] = B(d)[j] => i = j
  BY <1>8 DEF Bijection, Injection, Surjection, IsInjective
<1>10. g \in [D -> T]
  <2>1. \A z \in D : B(z[1])[z[2]] \in A(z[1]) /\ z[1] \in Members
    BY <1>9
  <2> QED
    BY <1>4, <1>7, <2>1
<1>11. ASSUME NEW y \in D, NEW z \in D, g[y] = g[z]
       PROVE  y = z
  <2>1. /\ y[1] \in Members /\ y[2] \in 1..m /\ y = <<y[1], y[2]>>
        /\ z[1] \in Members /\ z[2] \in 1..m /\ z = <<z[1], z[2]>>
    OBVIOUS
  <2>2. g[y] = B(y[1])[y[2]] /\ g[z] = B(z[1])[z[2]]
    OBVIOUS
  <2>3. y[1] = z[1]
    BY <1>6, <1>9, <1>11, <2>1, <2>2
  <2>4. y[2] = z[2]
    BY <1>9, <1>11, <2>1, <2>2, <2>3
  <2> QED
    BY <2>1, <2>3, <2>4
<1>12. IsFiniteSet(T) /\ Cardinality(T) = NumPartitions - 1
  BY <1>1, AssignedFacts, FS_RemoveElement
<1>13. Cardinality(D) = NumClients * m
  <2>1. IsFiniteSet(Members) /\ Cardinality(Members) = NumClients
    BY MemberFacts
  <2>2. IsFiniteSet(1..m) /\ Cardinality(1..m) = m
    BY <1>2, FS_Interval
  <2> QED
    BY <2>1, <2>2, FS_Product
<1> HIDE DEF g, D, T
<1>14. Cardinality(D) <= Cardinality(T)
  BY <1>10, <1>11, <1>12, OneToOne
<1>15. NumClients * m = m * NumClients /\ m * NumClients \in Nat
  BY <1>1, <1>2
<1> DEFINE x == m * NumClients
<1>16. x \in Nat /\ NumPartitions <= x /\ x <= NumPartitions - 1
  BY <1>2, <1>12, <1>13, <1>14, <1>15
<1> HIDE DEF x
<1> QED
  BY <1>16, AssignorAssumption

(* As long as a standby is missing, some client has the partition neither  *)
(* as an active nor as a standby.                                          *)
LEMMA RoomForStandby ==
    ASSUME TypeOK, LoopInv, CountInv, pc = "assign", unassigned # <<>>, kind = "standby"
    PROVE  \E d \in Members : CanAssign(d, Head(unassigned), "standby")
<1> DEFINE p == Head(unassigned)
           A == Holders("active", p)
           S == Holders("standby", p)
<1> SUFFICES ASSUME \A d \in Members : ~CanAssign(d, p, "standby") PROVE FALSE
  OBVIOUS
<1>1. p \in Partitions /\ members # <<>>
  BY HeadFacts DEF LoopInv
<1>2. /\ EffReplicas \in Nat /\ EffReplicas <= NumClients - 1 /\ NumClients \in Nat
      /\ Cardinality(Members) = NumClients
  BY <1>1, CapacityFacts, MemberFacts
<1>3. Cardinality(S) < EffReplicas
  BY HeadMissing DEF TotalAssigns, Count
<1>4. Cardinality(A) = 1
  BY <1>1 DEF CountInv, Count
<1>5. /\ IsFiniteSet(A) /\ IsFiniteSet(S) /\ A \subseteq Members /\ S \subseteq Members
      /\ Cardinality(S) \in Nat
  BY <1>1, AssignedFacts DEF Kinds, Count
<1>6. Members = A \cup S
  BY <1>5 DEF CanAssign, Holders
<1> HIDE DEF A, S
<1>7. Cardinality(A \cup S) = Cardinality(A) + Cardinality(S) - Cardinality(A \cap S)
  BY <1>5, FS_Union
<1>8. Cardinality(A \cap S) \in Nat
  <2>1. A \cap S \subseteq A
    OBVIOUS
  <2> QED
    BY <1>5, <2>1, PartSize
<1> QED
  BY <1>2, <1>3, <1>4, <1>5, <1>6, <1>7, <1>8

(* No step fails, loses a partition or gives one out too often.            *)
LEMMA CountNext ==
    TypeOK /\ TypeOK' /\ LoopInv /\ ShareInv /\ CountInv /\ [Next]_vars => CountInv'
<1> SUFFICES ASSUME TypeOK, TypeOK', LoopInv, ShareInv, CountInv, [Next]_vars
             PROVE  CountInv'
  OBVIOUS
<1> USE DEF roundVars, loopVars
<1>1. kind \in Kinds /\ kind' \in Kinds /\ (pc # "idle" => members # <<>>)
  BY DEF TypeOK, LoopInv
<1>2. \A p \in Partitions : kind = "standby" => Count("active", p) = 1
  BY DEF CountInv
<1>3. UNCHANGED assigned => \A k \in Kinds, p \in Partitions : After(k, p) = Count(k, p)
  BY DEF After, Count, Holders
<1>4. CASE \E M \in (SUBSET Clients) \ {{}} : Begin(M)
  <2>1. pc' = "extras" /\ kind' = "active"
    BY <1>4 DEF Begin
  <2> QED
    BY <2>1 DEF CountInv
<1>5. CASE UnassignExtras
  <2>1. pc' \in {"over", "extras"} /\ kind' = "active"
    BY <1>5, ExtrasFacts DEF Cut
  <2> QED
    BY <2>1 DEF CountInv
<1>6. CASE UnassignOverassigned
  <2>1. pc = "over" /\ pc' = "sort" /\ UNCHANGED <<members, kind>>
    BY <1>6 DEF UnassignOverassigned
  <2>2. \A p \in Partitions : After(kind, p) <= TotalAssigns(kind)
    BY <1>1, <1>6, <2>1, OverCount
  <2>3. ASSUME kind = "standby", NEW p \in Partitions PROVE After("active", p) = 1
    <3>1. \A c \in Members : assigned'[c]["active"] = assigned[c]["active"]
      BY <1>6, <2>3, OverFacts, MemberFacts DEF Kinds
    <3>2. After("active", p) = Count("active", p)
      BY <3>1 DEF After, Count, Holders
    <3> QED
      BY <1>2, <2>3, <3>2
  <2> QED
    BY <1>1, <2>1, <2>2, <2>3, CountStep
<1>7. CASE SortCandidates
  <2>1. pc = "sort" /\ UNCHANGED <<members, assigned, kind>>
    BY <1>7 DEF SortCandidates
  <2>2. \A p \in Partitions : /\ Count(kind, p) <= TotalAssigns(kind)
                              /\ Count(kind, p) \in Nat /\ TotalAssigns(kind) \in Nat
    BY <1>1, <2>1, AssignedFacts, CopyOrderIsOrder DEF CountInv
  <2>3. ~\E p \in Partitions : Count(kind, p) > TotalAssigns(kind)
    BY <2>2
  <2>4. pc' = "assign" /\ unassigned' = Missing(kind)
    BY <1>7, <2>3 DEF SortCandidates
  <2>5. \A p \in Partitions :
           After(kind, p) + Occurs(unassigned', p) = TotalAssigns(kind)
    BY <1>1, <1>3, <2>1, <2>2, <2>4, MissingFacts
  <2>6. \A p \in Partitions : kind = "standby" => After("active", p) = 1
    BY <1>2, <1>3, <2>1 DEF Kinds
  <2> QED
    BY <1>1, <2>1, <2>4, <2>5, <2>6, CountStep
<1>8. CASE Promote \/ AssignRoundRobin
  <2>1. PICK p \in Partitions, c \in Members : Gives(p, c)
    BY <1>8, GiveFacts
  <2>2. pc = "assign" /\ UNCHANGED <<members, kind, pc>>
    BY <2>1 DEF Gives
  <2>3. \A q \in Partitions :
          /\ After(kind, q) + Occurs(unassigned', q) = Count(kind, q) + Occurs(unassigned, q)
          /\ kind = "standby" => After("active", q) = Count("active", q)
    BY <2>1, GiveCount
  <2>4. \A q \in Partitions :
          /\ After(kind, q) + Occurs(unassigned', q) = TotalAssigns(kind)
          /\ kind = "standby" => After("active", q) = 1
    BY <1>2, <2>2, <2>3 DEF CountInv
  <2> QED
    BY <1>1, <2>2, <2>4, CountStep
<1>9. CASE Swap
  <2>1. CASE \E p, q \in Partitions, c \in Members : Swaps(p, q, c)
    <3>1. PICK p, q \in Partitions, c \in Members : Swaps(p, q, c)
      BY <2>1
    <3>2. pc = "assign" /\ kind = "standby" /\ UNCHANGED <<members, kind, pc>>
      BY <3>1 DEF Swaps
    <3>3. \A r \in Partitions :
            /\ After("standby", r) + Occurs(unassigned', r)
                 = Count("standby", r) + Occurs(unassigned, r)
            /\ After("active", r) = Count("active", r)
      BY <3>1, SwapCount
    <3>4. \A r \in Partitions :
            /\ After(kind, r) + Occurs(unassigned', r) = TotalAssigns(kind)
            /\ After("active", r) = 1
      BY <1>2, <3>2, <3>3 DEF CountInv
    <3> QED
      BY <1>1, <3>2, <3>4, CountStep
  <2>2. CASE /\ pc = "assign" /\ unassigned # <<>>
             /\ kind = "active" \/ Swappable(Head(unassigned)) = {}
             /\ \A d \in Members : ~Assignable(Head(unassigned), d)
    <3>1. kind = "standby"
      BY <1>1, <2>2, RoomForActive DEF Kinds
    <3>2. PICK d \in Members : CanAssign(d, Head(unassigned), "standby")
      BY <2>2, <3>1, RoomForStandby
    <3> QED
      BY <2>2, <3>1, <3>2 DEF Assignable, Swappable
  <2> QED
    BY <1>9, <2>1, <2>2, SwapFacts
<1>10. CASE Assigned
  <2>1. pc = "assign" /\ unassigned = <<>> /\ UNCHANGED <<members, assigned>>
    BY <1>10 DEF Assigned
  <2>2. \A p \in Partitions : Count(kind, p) = TotalAssigns(kind)
    <3> TAKE p \in Partitions
    <3>1. Count(kind, p) + Occurs(unassigned, p) = TotalAssigns(kind)
      BY <2>1 DEF CountInv
    <3>2. Occurs(unassigned, p) = 0
      BY <2>1, OccursFacts DEF TypeOK
    <3>3. Count(kind, p) \in Nat
      BY <1>1, AssignedFacts
    <3> QED
      BY <3>1, <3>2, <3>3
  <2>3. pc' = (IF kind = "active" THEN "over" ELSE "done") /\ kind' = "standby"
    BY <1>10, <2>2 DEF Assigned
  <2>4. \A p \in Partitions : After("active", p) = 1
    <3>1. kind = "active" => \A p \in Partitions : Count("active", p) = 1
      BY <2>2 DEF TotalAssigns
    <3>2. \A p \in Partitions : Count("active", p) = 1
      BY <1>1, <1>2, <3>1 DEF Kinds
    <3> QED
      BY <1>3, <2>1, <3>2 DEF Kinds
  <2>5. pc' = "done" => \A p \in Partitions : After("standby", p) = EffReplicas
    <3>1. pc' = "done" => kind = "standby"
      BY <1>1, <2>3 DEF Kinds
    <3> QED
      BY <1>3, <2>1, <2>2, <3>1 DEF TotalAssigns, Kinds
  <2> QED
    BY <1>1, <2>1, <2>3, <2>4, <2>5, CountStep
<1>11. CASE \E S \in SUBSET Members : Sync(S)
  <2>1. pc' = "idle" /\ kind' = "active"
    BY <1>11 DEF Sync, Discard
  <2> QED
    BY <2>1 DEF CountInv
<1>12. CASE UNCHANGED vars
  <2>1. UNCHANGED <<members, assigned, pc, kind, unassigned>>
    BY <1>12 DEF vars
  <2> QED
    BY <2>1, SameMembers DEF CountInv, Count, Holders, Occurs, TotalAssigns
<1> QED
  BY <1>4, <1>5, <1>6, <1>7, <1>8, <1>9, <1>10, <1>11, <1>12 DEF Next, Leader

(* The invariant holds at the start.                                       *)
LEMMA AssignInit == Init => AssignInv
<1> SUFFICES ASSUME Init PROVE AssignInv
  OBVIOUS
<1>1. LoopInv
  BY TypeInit
<1>2. members = <<>> /\ pc = "idle" /\ kind = "active"
      /\ assigned = [c \in Clients |-> Nothing]
  BY DEF Init
<1>3. \A c \in Clients : assigned[c]["active"] \cap assigned[c]["standby"] = {}
  BY <1>2, EmptyFacts
<1>4. NumClients = 0
  BY <1>2 DEF NumClients
<1>5. ShareInv
  BY <1>3, <1>4 DEF ShareInv
<1>6. CountInv
  BY <1>2 DEF CountInv
<1> QED
  BY <1>1, <1>5, <1>6 DEF AssignInv

(* Every step keeps it.                                                    *)
LEMMA AssignNext == TypeOK /\ AssignInv /\ [Next]_vars => TypeOK' /\ AssignInv'
<1>1. TypeOK /\ LoopInv /\ [Next]_vars => TypeOK' /\ LoopInv'
  BY TypeNext
<1>2. TypeOK /\ LoopInv /\ ShareInv /\ [Next]_vars => ShareInv'
  BY ShareNext
<1>3. TypeOK /\ TypeOK' /\ LoopInv /\ ShareInv /\ CountInv /\ [Next]_vars => CountInv'
  BY CountNext
<1> QED
  BY <1>1, <1>2, <1>3 DEF AssignInv

(* The invariant of the leader.                                            *)
LEMMA AssignCorrect == Spec => [](TypeOK /\ AssignInv)
<1>1. Init => TypeOK /\ AssignInv
  BY TypeInit, AssignInit
<1> QED
  BY <1>1, AssignNext, PTL DEF Spec

(* Whatever the members claim, none of the asserts of _assign fails and    *)
(* the search for a client to free finds one: as long as something is      *)
(* missing there is a client that can take it, with or without a swap.     *)
THEOREM NeverFailsCorrect == Spec => []NeverFails
<1>1. TypeOK /\ AssignInv => NeverFails
  BY DEF AssignInv, CountInv, NeverFails
<1> QED
  BY <1>1, AssignCorrect, PTL

(* What is handed out has one active and all standbys of every partition,  *)
(* on different clients, and no client has more than its share.            *)
THEOREM BalancedCorrect == Spec => []Balanced
<1>1. TypeOK /\ AssignInv => Balanced
  <2> SUFFICES ASSUME TypeOK, AssignInv, pc = "done" PROVE Balanced
    BY DEF Balanced
  <2>1. kind = "standby"
    BY DEF AssignInv, LoopInv
  <2>2. \A p \in Partitions : Count("active", p) = 1 /\ Count("standby", p) = EffReplicas
    BY <2>1 DEF AssignInv, CountInv
  <2>3. \A c \in Members : c \in Clients /\ Index(c) \in 1..NumClients /\ members[Index(c)] = c
    BY MemberFacts
  <2>4. \A c \in Members : /\ assigned[c]["active"] \cap assigned[c]["standby"] = {}
                           /\ Load(c, "active") <= MaxCapacity
                           /\ Load(c, "standby") <= MaxCapacity * EffReplicas
    BY <2>3 DEF AssignInv, ShareInv
  <2> QED
    BY <2>2, <2>4 DEF Balanced
<1> QED
  BY <1>1, AssignCorrect, PTL

-----------------------------------------------------------------------------
(* What a client keeps of its claims.                                      *)

(* The members keep or lose what they claim, before anything is given out. *)
LEMMA ClaimNext ==
    TypeOK /\ TypeOK' /\ LoopInv /\ ClaimInv /\ [Next]_vars => ClaimInv'
<1> SUFFICES ASSUME TypeOK, TypeOK', LoopInv, ClaimInv, [Next]_vars PROVE ClaimInv'
  OBVIOUS
<1> USE DEF roundVars, loopVars
<1>1. /\ Members \subseteq Clients
      /\ \A c \in Members :
           /\ Taking => assigned[c]["active"] \subseteq start[c]["active"]
           /\ kind = "active" => assigned[c]["standby"] \subseteq start[c]["standby"]
  BY MemberFacts DEF ClaimInv
<1>2. CASE \E M \in (SUBSET Clients) \ {{}} : Begin(M)
  <2>1. assigned' = start'
    BY <1>2 DEF Begin
  <2> QED
    BY <2>1 DEF ClaimInv
<1>3. CASE UnassignExtras
  <2>1. PICK c \in Members : Cut(c)
    BY <1>3, ExtrasFacts
  <2>2. /\ UNCHANGED <<members, start>> /\ Taking /\ kind = "active"
        /\ \A d \in Clients \ {c} : assigned'[d] = assigned[d]
        /\ assigned'[c]["active"] \subseteq assigned[c]["active"]
        /\ assigned'[c]["standby"] \subseteq assigned[c]["standby"]
    BY <2>1 DEF Cut, Taking
  <2>3. ASSUME NEW d \in Members
        PROVE  /\ assigned'[d]["active"] \subseteq start[d]["active"]
               /\ assigned'[d]["standby"] \subseteq start[d]["standby"]
    <3>1. CASE d = c
      BY <1>1, <2>2, <3>1
    <3>2. CASE d # c
      <4>1. assigned'[d] = assigned[d]
        BY <1>1, <2>2, <3>2
      <4> QED
        BY <1>1, <2>2, <4>1
    <3> QED
      BY <3>1, <3>2
  <2> QED
    BY <2>2, <2>3, SameMembers DEF ClaimInv
<1>4. CASE UnassignOverassigned
  <2>1. /\ UNCHANGED <<members, start, kind>> /\ (kind = "active" => Taking)
    BY <1>4 DEF UnassignOverassigned, Taking
  <2>2. \A d \in Members : /\ assigned'[d]["active"] \subseteq assigned[d]["active"]
                           /\ assigned'[d]["standby"] \subseteq assigned[d]["standby"]
    BY <1>1, <1>4, OverFacts DEF Kinds
  <2>3. Taking' => Taking
    BY <2>1 DEF Taking
  <2> QED
    BY <1>1, <2>1, <2>2, <2>3, SameMembers DEF ClaimInv
<1>5. CASE SortCandidates
  <2>1. UNCHANGED <<members, start, assigned, kind>> /\ ~Taking'
    BY <1>5 DEF SortCandidates, Taking
  <2> QED
    BY <1>1, <2>1, SameMembers DEF ClaimInv
<1>6. CASE Promote \/ AssignRoundRobin
  <2>1. PICK p \in Partitions, c \in Members : Gives(p, c)
    BY <1>6, GiveFacts
  <2>2. /\ UNCHANGED <<members, start, kind>> /\ ~Taking'
        /\ \A d \in Clients \ {c} : assigned'[d] = assigned[d]
        /\ kind = "active" => assigned'[c]["standby"] = assigned[c]["standby"] \ {p}
    BY <2>1 DEF Gives, Taking
  <2>3. ASSUME kind = "active", NEW d \in Members
        PROVE  assigned'[d]["standby"] \subseteq start[d]["standby"]
    <3>1. CASE d = c
      BY <1>1, <2>2, <2>3, <3>1
    <3>2. CASE d # c
      BY <1>1, <2>2, <2>3, <3>2
    <3> QED
      BY <3>1, <3>2
  <2> QED
    BY <2>2, <2>3, SameMembers DEF ClaimInv
<1>7. CASE Swap
  <2>1. CASE \E p, q \in Partitions, c \in Members : Swaps(p, q, c)
    <3>1. kind' = "standby"
      BY <2>1 DEF Swaps
    <3> QED
      BY <3>1 DEF ClaimInv, Taking
  <2>2. CASE pc' = "failed" /\ UNCHANGED <<members, start, assigned, kind>>
    BY <1>1, <2>2, SameMembers DEF ClaimInv, Taking
  <2> QED
    BY <1>7, <2>1, <2>2, SwapFacts
<1>8. CASE Assigned
  <2>1. /\ UNCHANGED <<members, start, assigned>>
        /\ kind' = "standby" \/ (pc' = "failed" /\ kind' = kind)
    BY <1>8 DEF Assigned
  <2> QED
    BY <1>1, <2>1, SameMembers DEF ClaimInv, Taking
<1>9. CASE \E S \in SUBSET Members : Sync(S)
  <2>1. members' = <<>>
    BY <1>9 DEF Sync, Discard
  <2>2. Members' = {}
    BY <2>1, EmptyFacts DEF Members
  <2> QED
    BY <2>2 DEF ClaimInv
<1>10. CASE UNCHANGED vars
  <2>1. UNCHANGED <<members, start, assigned, kind, pc>>
    BY <1>10 DEF vars
  <2> QED
    BY <1>1, <2>1, SameMembers DEF ClaimInv, Taking
<1> QED
  BY <1>2, <1>3, <1>4, <1>5, <1>6, <1>7, <1>8, <1>9, <1>10 DEF Next, Leader

(* A partition that more than one member has is also with another one.     *)
LEMMA AnotherHolder ==
    ASSUME TypeOK, NEW k \in Kinds, NEW p \in Partitions, NEW c \in Members,
           Count(k, p) > 1
    PROVE  \E d \in Members \ {c} : p \in assigned[d][k]
<1> DEFINE H == Holders(k, p)
<1>1. IsFiniteSet(H) /\ H \subseteq Members /\ Cardinality(H) > 1 /\ Cardinality(H) \in Nat
  BY AssignedFacts DEF Count
<1>2. IsFiniteSet({c}) /\ Cardinality({c}) = 1
  BY FS_Singleton
<1>3. ~ (H \subseteq {c})
  <2> HIDE DEF H
  <2> SUFFICES ASSUME H \subseteq {c} PROVE FALSE
    OBVIOUS
  <2>1. Cardinality(H) <= Cardinality({c})
    BY <1>2, PartSize
  <2> QED
    BY <1>1, <1>2, <2>1
<1> QED
  BY <1>1, <1>3 DEF Holders

(* An active that nobody else claims stays with a client that is within    *)
(* max_capacity, given that clients are not cut down to min_capacity.      *)
LEMMA StickyNext ==
    ASSUME Replicas # 0
    PROVE  TypeOK /\ LoopInv /\ ClaimInv /\ StickyInv /\ [Next]_vars => StickyInv'
<1> SUFFICES ASSUME TypeOK, LoopInv, ClaimInv, StickyInv, [Next]_vars PROVE StickyInv'
  OBVIOUS
<1> USE DEF roundVars, loopVars
<1>1. Members \subseteq Clients
  BY MemberFacts
(* A step within a round that takes an active only from a client whose     *)
(* claim is contested, or beyond max_capacity.                             *)
<1>2. ASSUME UNCHANGED <<members, start>>,
             \A c \in Members : Cardinality(start[c]["active"]) <= MaxCapacity =>
               \A p \in start[c]["active"] : p \in assigned[c]["active"] =>
                 \/ p \in assigned'[c]["active"]
                 \/ \E d \in Members \ {c} : p \in start[d]["active"]
      PROVE  StickyInv'
  BY <1>2, SameMembers DEF StickyInv
<1>3. CASE \E M \in (SUBSET Clients) \ {{}} : Begin(M)
  <2>1. assigned' = start'
    BY <1>3 DEF Begin
  <2> QED
    BY <2>1 DEF StickyInv
<1>4. CASE UnassignExtras
  <2>1. PICK c \in Members : Cut(c)
    BY <1>4, ExtrasFacts
  <2>2. /\ UNCHANGED <<members, start>> /\ Taking /\ pc = "extras"
        /\ \A d \in Clients \ {c} : assigned'[d] = assigned[d]
    BY <2>1 DEF Cut, Taking
  <2>3. Capacity = MaxCapacity /\ MaxCapacity \in Nat
    BY <2>2, CapacityFacts DEF LoopInv
  <2>4. ASSUME Cardinality(start[c]["active"]) <= MaxCapacity
        PROVE  assigned'[c]["active"] = assigned[c]["active"]
    <3>1. assigned[c]["active"] \subseteq start[c]["active"]
      BY <2>2 DEF ClaimInv
    <3>2. IsFiniteSet(start[c]["active"])
      <4>1. start[c]["active"] \subseteq Partitions
        BY <1>1 DEF TypeOK, Assignment, Kinds
      <4> QED
        BY <4>1, AssignedFacts, PartSize
    <3>3. /\ Cardinality(assigned[c]["active"]) <= Cardinality(start[c]["active"])
          /\ Cardinality(assigned[c]["active"]) \in Nat
          /\ Cardinality(start[c]["active"]) \in Nat
      BY <3>1, <3>2, PartSize
    <3>4. Cardinality(assigned[c]["active"]) <= Capacity
      BY <2>3, <2>4, <3>3
    <3> QED
      BY <2>1, <3>4 DEF Cut
  <2>5. \A d \in Members : Cardinality(start[d]["active"]) <= MaxCapacity =>
          assigned'[d]["active"] = assigned[d]["active"]
    BY <1>1, <2>2, <2>4
  <2> QED
    BY <1>2, <2>2, <2>5
<1>5. CASE UnassignOverassigned
  <2>1. /\ UNCHANGED <<members, start, kind>> /\ (kind = "active" => Taking)
        /\ kind \in {"active", "standby"}
    BY <1>5 DEF UnassignOverassigned, Taking, TypeOK, Kinds
  <2>2. ASSUME NEW c \in Members, NEW p \in start[c]["active"], p \in assigned[c]["active"],
               p \notin assigned'[c]["active"]
        PROVE  \E d \in Members \ {c} : p \in start[d]["active"]
    <3>1. p \in Partitions /\ c \in Clients
      BY <1>1, <2>2, AssignedFacts DEF Kinds
    <3>2. kind = "active"
      BY <1>5, <2>1, <2>2, <3>1, OverFacts DEF Kinds
    <3>3. Count("active", p) > 1
      BY <1>5, <2>2, <3>1, <3>2, OverFacts DEF TotalAssigns
    <3>4. PICK d \in Members \ {c} : p \in assigned[d]["active"]
      BY <3>1, <3>3, AnotherHolder DEF Kinds
    <3> QED
      BY <2>1, <3>2, <3>4 DEF ClaimInv
  <2> QED
    BY <1>2, <2>1, <2>2
<1>6. CASE SortCandidates
  <2>1. UNCHANGED <<members, start, assigned>>
    BY <1>6 DEF SortCandidates
  <2> QED
    BY <1>2, <2>1
<1>7. CASE Promote \/ AssignRoundRobin
  <2>1. PICK p \in Partitions, c \in Members : Gives(p, c)
    BY <1>7, GiveFacts
  <2>2. /\ UNCHANGED <<members, start>> /\ kind \in {"active", "standby"}
        /\ \A d \in Clients \ {c} : assigned'[d] = assigned[d]
        /\ assigned'[c][kind] = assigned[c][kind] \cup {p}
        /\ kind = "standby" => assigned'[c]["active"] = assigned[c]["active"]
    BY <2>1 DEF Gives, TypeOK, Kinds
  <2>3. assigned[c]["active"] \subseteq assigned'[c]["active"]
    <3>1. CASE kind = "active"
      <4>1. assigned'[c]["active"] = assigned[c]["active"] \cup {p}
        BY <2>2, <3>1
      <4> QED
        BY <4>1
    <3>2. CASE kind = "standby"
      BY <2>2, <3>2
    <3> QED
      BY <2>2, <3>1, <3>2
  <2>4. \A d \in Members : assigned[d]["active"] \subseteq assigned'[d]["active"]
    BY <1>1, <2>2, <2>3
  <2> QED
    BY <1>2, <2>2, <2>4
<1>8. CASE Swap
  <2>1. CASE \E p, q \in Partitions, c \in Members : Swaps(p, q, c)
    <3>1. PICK p, q \in Partitions, c \in Members : Swaps(p, q, c)
      BY <2>1
    <3>2. /\ UNCHANGED <<members, start>>
          /\ assigned'[c]["active"] = assigned[c]["active"]
          /\ \A d \in Clients \ {c} : assigned'[d] = assigned[d]
      BY <3>1 DEF Swaps
    <3>3. \A d \in Members : assigned'[d]["active"] = assigned[d]["active"]
      BY <1>1, <3>2
    <3> QED
      BY <1>2, <3>2, <3>3
  <2>2. CASE UNCHANGED <<members, start, assigned>>
    BY <1>2, <2>2
  <2> QED
    BY <1>8, <2>1, <2>2, SwapFacts
<1>9. CASE Assigned
  <2>1. UNCHANGED <<members, start, assigned>>
    BY <1>9 DEF Assigned
  <2> QED
    BY <1>2, <2>1
<1>10. CASE \E S \in SUBSET Members : Sync(S)
  <2>1. members' = <<>>
    BY <1>10 DEF Sync, Discard
  <2>2. Members' = {}
    BY <2>1, EmptyFacts DEF Members
  <2> QED
    BY <2>2 DEF StickyInv
<1>11. CASE UNCHANGED vars
  <2>1. UNCHANGED <<members, start, assigned>>
    BY <1>11 DEF vars
  <2> QED
    BY <1>2, <2>1
<1> QED
  BY <1>3, <1>4, <1>5, <1>6, <1>7, <1>8, <1>9, <1>10, <1>11 DEF Next, Leader

(* With standbys, a client within max_capacity keeps every active that     *)
(* nobody else claims, whatever the other members claim.                   *)
THEOREM StickyCorrect ==
    ASSUME Replicas # 0
    PROVE  Spec => []Sticky
<1> DEFINE I == TypeOK /\ LoopInv /\ ClaimInv /\ StickyInv
<1>1. Init => I
  <2> SUFFICES ASSUME Init PROVE I
    OBVIOUS
  <2>1. Members = {}
    BY EmptyFacts DEF Init, Members
  <2> QED
    BY <2>1, TypeInit DEF ClaimInv, StickyInv
<1>2. I /\ [Next]_vars => I'
  BY TypeNext, ClaimNext, StickyNext
<1>3. I => Sticky
  BY DEF StickyInv, Sticky
<1> QED
  BY <1>1, <1>2, <1>3, PTL DEF Spec

-----------------------------------------------------------------------------
(* A standby is promoted before state is rebuilt elsewhere.                *)

(* Claims stay during a round, and so do the heirs.                        *)
LEMMA SameHeir ==
    ASSUME UNCHANGED <<members, start>>, NEW c, NEW p
    PROVE  Heir(c, p)' <=> Heir(c, p)
  BY SameMembers DEF Heir

(* A step within a round that leaves the actives, and where there is       *)
(* something pending also the standbys.                                    *)
LEMMA PromoteStep ==
    ASSUME PromoteInv, UNCHANGED <<members, start>>,
           Taking' => Taking,
           kind = "active" \/ kind' = kind,
           \A c \in Members : assigned'[c]["active"] = assigned[c]["active"],
           kind' = "active" =>
             \A c \in Members : assigned'[c]["standby"] = assigned[c]["standby"],
           kind' = "standby" /\ kind = "active" =>
             \A c \in Members, p \in Partitions : ~Pending(c, p)
    PROVE  PromoteInv'
<1>1. Members' = Members /\ MaxCapacity' = MaxCapacity
  BY SameMembers
<1> SUFFICES ASSUME NEW c \in Members, NEW p \in Partitions, Heir(c, p)
             PROVE  /\ Taking' => Pending(c, p)'
                    /\ kind' = "active" =>
                         Pending(c, p)' \/ Promoted(p)' \/ (Load(c, "active") >= MaxCapacity)'
                    /\ kind' = "standby" =>
                         Promoted(p)' \/ (Load(c, "active") >= MaxCapacity)'
  BY <1>1, SameHeir DEF PromoteInv
<1>2. /\ Promoted(p) => Promoted(p)'
      /\ Load(c, "active") >= MaxCapacity => (Load(c, "active") >= MaxCapacity)'
      /\ kind' = "active" /\ Pending(c, p) => Pending(c, p)'
  BY <1>1 DEF Promoted, Load, Pending
<1>3. /\ Taking => Pending(c, p)
      /\ kind = "active" =>
           Pending(c, p) \/ Promoted(p) \/ Load(c, "active") >= MaxCapacity
      /\ kind = "standby" => Promoted(p) \/ Load(c, "active") >= MaxCapacity
  BY DEF PromoteInv
<1>4. Taking' => kind' = "active"
  BY DEF Taking
<1> QED
  BY <1>2, <1>3, <1>4

(* Giving out an active: p goes to a client that has it as a standby, or   *)
(* all of these are full.                                                  *)
LEMMA PromoteGive ==
    ASSUME TypeOK, LoopInv, ClaimInv, PromoteInv, kind = "active",
           NEW q \in Partitions, NEW e \in Members, Gives(q, e)
    PROVE  PromoteInv'
<1>1. /\ UNCHANGED <<members, start, kind, pc>> /\ pc = "assign"
      /\ q \notin assigned[e]["active"] /\ ~Exhausted(e, "active")
      /\ \A d \in Clients \ {e} : assigned'[d] = assigned[d]
      /\ assigned'[e]["active"] = assigned[e]["active"] \cup {q}
      /\ assigned'[e]["standby"] = assigned[e]["standby"] \ {q}
      /\ q \in assigned[e]["standby"] \/ Unpromotable(q)
      /\ assigned' \in [Clients -> Assignment]
  BY DEF Gives, roundVars
<1>2. /\ Members' = Members /\ MaxCapacity' = MaxCapacity /\ Members \subseteq Clients
      /\ members # <<>>
  BY <1>1, SameMembers, MemberFacts DEF LoopInv
<1>3. ~Taking' /\ kind' = "active"
  BY <1>1 DEF Taking
<1> SUFFICES ASSUME NEW c \in Members, NEW p \in Partitions, Heir(c, p)
             PROVE  Pending(c, p)' \/ Promoted(p)' \/ (Load(c, "active") >= MaxCapacity)'
  BY <1>1, <1>2, <1>3, SameHeir DEF PromoteInv
<1>4. \A d \in Members : assigned[d]["active"] \subseteq assigned'[d]["active"]
  BY <1>1, <1>2
<1>5. CASE Promoted(p)
  BY <1>1, <1>2, <1>4, <1>5 DEF Promoted
<1>6. ASSUME Load(c, "active") >= MaxCapacity PROVE (Load(c, "active") >= MaxCapacity)'
  <2> DEFINE S == assigned'[c]["active"]
             T == assigned[c]["active"]
  <2>1. S \subseteq Partitions /\ c \in Clients
    BY <1>1, <1>2 DEF Assignment, Kinds
  <2>2. IsFiniteSet(S)
    BY <2>1, AssignedFacts, PartSize
  <2>3. T \subseteq S
    BY <1>4
  <2>4. Cardinality(T) >= MaxCapacity /\ MaxCapacity \in Nat
    BY <1>2, <1>6, CapacityFacts DEF Load
  <2> HIDE DEF S, T
  <2>5. Cardinality(T) <= Cardinality(S) /\ Cardinality(T) \in Nat /\ Cardinality(S) \in Nat
    BY <2>2, <2>3, PartSize
  <2>6. Cardinality(S) >= MaxCapacity
    BY <2>4, <2>5
  <2> QED
    BY <1>2, <2>6 DEF Load, S
<1>7. CASE Pending(c, p)
  <2>1. /\ p \in assigned[c]["standby"]
        /\ \A d \in Members : p \notin assigned[d]["active"]
    BY <1>7 DEF Pending
  <2>2. CASE p # q
    <3>1. p \in assigned'[c]["standby"]
      <4>1. CASE c = e
        BY <1>1, <2>1, <2>2, <4>1
      <4>2. CASE c # e
        BY <1>1, <1>2, <2>1, <4>2
      <4> QED
        BY <4>1, <4>2
    <3>2. ASSUME NEW d \in Members PROVE p \notin assigned'[d]["active"]
      <4>1. CASE d = e
        BY <1>1, <2>1, <2>2, <4>1
      <4>2. CASE d # e
        BY <1>1, <1>2, <2>1, <4>2
      <4> QED
        BY <4>1, <4>2
    <3> QED
      BY <1>2, <3>1, <3>2 DEF Pending
  <2>3. CASE p = q
    <3>1. CASE q \in assigned[e]["standby"]
      <4>1. p \in start[e]["standby"] /\ p \in assigned'[e]["active"]
        BY <1>1, <2>3, <3>1 DEF ClaimInv
      <4> QED
        BY <1>1, <1>2, <4>1 DEF Promoted
    <3>2. CASE Unpromotable(q)
      <4>1. ~Promotable(p, c)
        BY <2>3, <3>2 DEF Unpromotable
      <4>2. Exhausted(c, "active")
        BY <2>1, <4>1 DEF Promotable, CanAssign
      <4>3. c # e /\ c \in Clients
        BY <1>1, <1>2, <4>2
      <4>4. assigned'[c] = assigned[c]
        BY <1>1, <4>3
      <4>5. Cardinality(assigned[c]["active"]) = MaxCapacity /\ MaxCapacity \in Nat
        BY <1>2, <4>2, LimitFacts DEF Exhausted
      <4>6. Cardinality(assigned'[c]["active"]) >= MaxCapacity
        BY <4>4, <4>5
      <4> QED
        BY <1>2, <4>6 DEF Load
    <3> QED
      BY <1>1, <3>1, <3>2
  <2> QED
    BY <2>2, <2>3
<1>8. Pending(c, p) \/ Promoted(p) \/ Load(c, "active") >= MaxCapacity
  BY DEF PromoteInv
<1> QED
  BY <1>5, <1>6, <1>7, <1>8

(* Every step keeps an heir in sight of its partition, until it is given   *)
(* out.                                                                    *)
LEMMA PromoteNext ==
    TypeOK /\ AssignInv /\ CountInv' /\ ClaimInv /\ PromoteInv /\ [Next]_vars => PromoteInv'
<1> SUFFICES ASSUME TypeOK, LoopInv, CountInv', ClaimInv, PromoteInv, [Next]_vars
             PROVE  PromoteInv'
  BY DEF AssignInv
<1> USE DEF roundVars, loopVars
<1>1. Members \subseteq Clients /\ kind \in {"active", "standby"} /\ pc' # "failed"
  BY MemberFacts DEF TypeOK, Kinds, CountInv
<1>2. CASE \E M \in (SUBSET Clients) \ {{}} : Begin(M)
  <2>1. assigned' = start' /\ kind' = "active"
    BY <1>2 DEF Begin
  <2>2. \A c \in Members', p \in Partitions : Heir(c, p)' => Pending(c, p)'
    BY <2>1 DEF Heir, Pending
  <2> QED
    BY <2>1, <2>2 DEF PromoteInv
<1>3. CASE UnassignExtras
  <2>1. PICK e \in Members : Cut(e)
    BY <1>3, ExtrasFacts
  <2>2. /\ UNCHANGED <<members, start, kind>> /\ Taking /\ kind = "active" /\ pc = "extras"
        /\ \A d \in Clients \ {e} : assigned'[d] = assigned[d]
        /\ assigned'[e]["active"] \subseteq assigned[e]["active"]
        /\ Cardinality(assigned[e]["standby"]) <= Capacity * EffReplicas =>
             assigned'[e]["standby"] = assigned[e]["standby"]
    BY <2>1 DEF Cut, Taking
  <2>3. Members' = Members
    BY <2>2, SameMembers
  <2>4. ASSUME NEW c \in Members, NEW p \in Partitions, Heir(c, p)
        PROVE  Pending(c, p)'
    <3>1. Pending(c, p)
      BY <2>2, <2>4 DEF PromoteInv
    <3>2. \A d \in Members : p \notin assigned'[d]["active"]
      <4> TAKE d \in Members
      <4>1. assigned'[d]["active"] \subseteq assigned[d]["active"]
        BY <1>1, <2>2
      <4> QED
        BY <3>1, <4>1 DEF Pending
    <3>3. ASSUME c = e PROVE Cardinality(assigned[e]["standby"]) <= Capacity * EffReplicas
      <4> DEFINE S == start[e]["standby"]
                 T == assigned[e]["standby"]
                 x == Capacity * EffReplicas
      <4>1. T \subseteq S
        BY <2>2 DEF ClaimInv
      <4>2. IsFiniteSet(S)
        <5>1. S \subseteq Partitions
          BY <1>1 DEF TypeOK, Assignment, Kinds
        <5> QED
          BY <5>1, AssignedFacts, PartSize
      <4>3. Cardinality(S) <= x /\ x \in Nat
        BY <2>2, <2>4, <3>3, LimitFacts DEF Heir, LoopInv
      <4> HIDE DEF S, T, x
      <4>4. Cardinality(T) <= Cardinality(S) /\ Cardinality(T) \in Nat /\ Cardinality(S) \in Nat
        BY <4>1, <4>2, PartSize
      <4>5. Cardinality(T) <= x
        BY <4>3, <4>4
      <4> QED
        BY <4>5 DEF T, x
    <3>4. assigned'[c]["standby"] = assigned[c]["standby"]
      <4>1. CASE c = e
        BY <2>2, <3>3, <4>1
      <4>2. CASE c # e
        BY <1>1, <2>2, <4>2
      <4> QED
        BY <4>1, <4>2
    <3> QED
      BY <2>3, <3>1, <3>2, <3>4 DEF Pending
  <2>5. \A c \in Members', p \in Partitions : Heir(c, p)' => Pending(c, p)'
    BY <2>2, <2>3, <2>4, SameHeir
  <2> QED
    BY <2>2, <2>5 DEF PromoteInv
<1>4. CASE UnassignOverassigned
  <2>1. UNCHANGED <<members, start, kind>> /\ pc = "over" /\ pc' = "sort"
    BY <1>4 DEF UnassignOverassigned
  <2>2. \A c \in Members :
          /\ assigned'[c]["active"] \subseteq assigned[c]["active"]
          /\ kind = "active" => assigned'[c]["standby"] = assigned[c]["standby"]
          /\ kind = "standby" => assigned'[c]["active"] = assigned[c]["active"]
    BY <1>1, <1>4, OverFacts DEF Kinds
  <2>3. CASE kind = "active"
    <3>1. Taking /\ Members' = Members
      BY <2>1, <2>3, SameMembers DEF Taking
    <3>2. \A c \in Members, p \in Partitions : Heir(c, p) => Pending(c, p)
      BY <3>1 DEF PromoteInv
    <3>3. \A c \in Members, p \in Partitions : Heir(c, p) => Pending(c, p)'
      BY <2>2, <2>3, <3>1, <3>2 DEF Pending
    <3>4. \A c \in Members', p \in Partitions : Heir(c, p)' => Pending(c, p)'
      BY <2>1, <3>1, <3>3, SameHeir
    <3> QED
      BY <2>1, <2>3, <3>4 DEF PromoteInv
  <2>4. CASE kind = "standby"
    <3>1. ~Taking' /\ kind' = "standby"
      BY <2>1, <2>4 DEF Taking
    <3> QED
      BY <2>1, <2>2, <2>4, <3>1, PromoteStep
  <2> QED
    BY <1>1, <2>3, <2>4
<1>5. CASE SortCandidates
  <2>1. UNCHANGED <<members, start, assigned, kind>> /\ ~Taking'
    BY <1>5 DEF SortCandidates, Taking
  <2> QED
    BY <2>1, PromoteStep
<1>6. CASE Promote \/ AssignRoundRobin
  <2>1. PICK p \in Partitions, c \in Members : Gives(p, c)
    BY <1>6, GiveFacts
  <2>2. CASE kind = "active"
    BY <2>1, <2>2, PromoteGive
  <2>3. CASE kind = "standby"
    <3>1. /\ UNCHANGED <<members, start, kind>> /\ ~Taking'
          /\ \A d \in Clients \ {c} : assigned'[d] = assigned[d]
          /\ assigned'[c]["active"] = assigned[c]["active"]
      BY <2>1, <2>3 DEF Gives, Taking
    <3>2. \A d \in Members : assigned'[d]["active"] = assigned[d]["active"]
      BY <1>1, <3>1
    <3> QED
      BY <2>3, <3>1, <3>2, PromoteStep
  <2> QED
    BY <1>1, <2>2, <2>3
<1>7. CASE Swap
  <2>1. PICK p, q \in Partitions, c \in Members : Swaps(p, q, c)
    BY <1>1, <1>7, SwapFacts
  <2>2. /\ UNCHANGED <<members, start, kind>> /\ kind = "standby" /\ ~Taking'
        /\ assigned'[c]["active"] = assigned[c]["active"]
        /\ \A d \in Clients \ {c} : assigned'[d] = assigned[d]
    BY <2>1 DEF Swaps, Taking
  <2>3. \A d \in Members : assigned'[d]["active"] = assigned[d]["active"]
    BY <1>1, <2>2
  <2> QED
    BY <2>2, <2>3, PromoteStep
<1>8. CASE Assigned
  <2>1. UNCHANGED <<members, start, assigned>> /\ kind' = "standby"
    BY <1>1, <1>8 DEF Assigned
  <2>2. ASSUME NEW c \in Members, NEW p \in Partitions PROVE ~Pending(c, p)
    <3>1. Count("active", p)' = 1
      BY <2>1 DEF CountInv
    <3>2. Count("active", p)' = Count("active", p)
      BY <2>1, SameMembers DEF Count, Holders
    <3>3. Holders("active", p) # {}
      BY <3>1, <3>2, FS_EmptySet DEF Count
    <3> QED
      BY <3>3 DEF Holders, Pending
  <2>3. ~Taking'
    BY <2>1 DEF Taking
  <2> QED
    BY <1>1, <2>1, <2>2, <2>3, PromoteStep
<1>9. CASE \E S \in SUBSET Members : Sync(S)
  <2>1. members' = <<>>
    BY <1>9 DEF Sync, Discard
  <2>2. Members' = {}
    BY <2>1, EmptyFacts DEF Members
  <2> QED
    BY <2>2 DEF PromoteInv
<1>10. CASE UNCHANGED vars
  <2>1. UNCHANGED <<members, start, assigned, kind, pc>>
    BY <1>10 DEF vars
  <2>2. Taking' <=> Taking
    BY <2>1 DEF Taking
  <2> QED
    BY <2>1, <2>2, PromoteStep
<1> QED
  BY <1>2, <1>3, <1>4, <1>5, <1>6, <1>7, <1>8, <1>9, <1>10 DEF Next, Leader

(* A partition nobody had as an active goes to a client that had it as a   *)
(* standby, unless every such client that kept it is full.                 *)
THEOREM PromotesStandbyCorrect == Spec => []PromotesStandby
<1> DEFINE I == TypeOK /\ AssignInv /\ ClaimInv /\ PromoteInv
<1>1. Init => I
  <2> SUFFICES ASSUME Init PROVE I
    OBVIOUS
  <2>1. Members = {}
    BY EmptyFacts DEF Init, Members
  <2> QED
    BY <2>1, TypeInit, AssignInit DEF ClaimInv, PromoteInv
<1>2. I /\ [Next]_vars => I'
  <2>1. I /\ [Next]_vars => TypeOK' /\ AssignInv'
    BY AssignNext
  <2>2. I /\ [Next]_vars => ClaimInv'
    BY <2>1, ClaimNext DEF AssignInv
  <2>3. I /\ [Next]_vars => PromoteInv'
    BY <2>1, PromoteNext DEF AssignInv
  <2> QED
    BY <2>1, <2>2, <2>3
<1>3. I => PromotesStandby
  <2> SUFFICES ASSUME I, pc = "done", NEW p \in Partitions, NEW c \in Members, Heir(c, p),
                      Load(c, "active") < MaxCapacity
               PROVE  Promoted(p)
    BY DEF PromotesStandby, Heir, Promoted
  <2>1. kind = "standby" /\ members # <<>>
    BY DEF AssignInv, LoopInv
  <2>2. Promoted(p) \/ Load(c, "active") >= MaxCapacity
    BY <2>1 DEF PromoteInv
  <2>3. Load(c, "active") \in Nat /\ MaxCapacity \in Nat
    BY <2>1, MemberFacts, AssignedFacts, CapacityFacts DEF Kinds
  <2> QED
    BY <2>2, <2>3
<1> QED
  BY <1>1, <1>2, <1>3, PTL DEF Spec
=============================================================================

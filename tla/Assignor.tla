------------------------------- MODULE Assignor -------------------------------
(***************************************************************************)
(* faust/assignor: how the leader of the consumer group hands out the      *)
(* partitions of one group of copartitioned topics, round after round.     *)
(*                                                                         *)
(* Every member sends the assignment it had last; one that was restarted   *)
(* sends none, one that missed a round (a zombie) sends an old one.  From  *)
(* these, CopartitionedAssignor computes the new assignment: it takes      *)
(* partitions from members that have too many, then from all but one that  *)
(* claim the same, and gives out what is left round robin, actives first.  *)
(***************************************************************************)
EXTENDS Integers, Sequences, FiniteSets, SequencesExt

CONSTANTS
    Clients,        \* workers that may join
    NumPartitions,  \* partitions of each topic of the group
    Replicas,       \* table_standby_replicas
    GlobalTable,    \* one of the topics is the changelog of a global table
    MaxRounds,      \* bound: rounds of the group protocol
    MaxMissed       \* bound: members an answer of the leader does not reach

ASSUME AssignorAssumption ==
    /\ IsFiniteSet(Clients) /\ Clients # {}
    /\ NumPartitions \in Nat \ {0}
    /\ GlobalTable \in BOOLEAN
    /\ Replicas \in Nat /\ MaxRounds \in Nat /\ MaxMissed \in Nat

Partitions == 0..NumPartitions - 1
Kinds == {"active", "standby"}
Assignment == [Kinds -> SUBSET Partitions]
Nothing == [k \in Kinds |-> {}]

VARIABLES
    reported,     \* PartitionAssignor._assignment of each client
    members,      \* keys of _client_assignments, in the order of the mapping
    start,        \* what the members sent in this round
    assigned,     \* _client_assignments: actives and standbys
    pc,           \* where the leader is
    kind,         \* "active" in _assign(active=True), else "standby"
    candidates,   \* candidates_list, sorted
    cursor,       \* place in the loop over clients, or in the cycle of candidates
    unassigned,   \* partitions still to be given out
    rounds

vars == <<reported, members, start, assigned, pc, kind, candidates, cursor,
          unassigned, rounds>>
loopVars == <<candidates, cursor, unassigned>>
roundVars == <<reported, members, start, rounds>>

TypeOK ==
    /\ reported \in [Clients -> Assignment]
    /\ members \in Seq(Clients) /\ IsInjective(members)
    /\ start \in [Clients -> Assignment]
    /\ assigned \in [Clients -> Assignment]
    /\ pc \in {"idle", "extras", "over", "sort", "assign", "done", "failed"}
    /\ kind \in Kinds
    /\ candidates \in Seq(Clients)
    /\ cursor \in Nat
    /\ unassigned \in Seq(Partitions)
    /\ rounds \in 0..MaxRounds

(* Workers that have just been started, which have nothing to send, and    *)
(* workers that were alone in the group at some time before.               *)
Alone == [active |-> Partitions, standby |-> {}]

Init ==
    /\ reported \in [Clients -> {Nothing, Alone}]
    /\ members = <<>>
    /\ start = [c \in Clients |-> Nothing]
    /\ assigned = [c \in Clients |-> Nothing]
    /\ pc = "idle"
    /\ kind = "active"
    /\ candidates = <<>>
    /\ cursor = 0
    /\ unassigned = <<>>
    /\ rounds = 0

-----------------------------------------------------------------------------
(* CopartitionedAssignor.__init__                                          *)
Members == Range(members)
NumClients == Len(members)
EffReplicas == Min({Replicas, NumClients - 1})

MinCapacity == NumPartitions \div NumClients
MaxCapacity == (NumPartitions + NumClients - 1) \div NumClients

TotalAssigns(k) == IF k = "active" THEN 1 ELSE EffReplicas
ClientLimit(k) == MaxCapacity * TotalAssigns(k)

Holders(k, p) == {c \in Members : p \in assigned[c][k]}
Count(k, p) == Cardinality(Holders(k, p))

(* The place of a client in the mapping.                                   *)
Index(c) == CHOOSE i \in 1..NumClients : members[i] = c

(* The members of S one after another, R being the pairs in order.         *)
Sorted(S, R) ==
    [i \in 1..Cardinality(S) |->
       CHOOSE x \in S : Cardinality({y \in S : <<y, x>> \in R}) = i - 1]

(* Mutant: a standby may be given to the client that has the active.       *)
CanAssignAny(c, p, k) == p \notin assigned[c][k]

(* CopartitionedAssignment.can_assign                                      *)
CanAssign(c, p, k) ==
    /\ p \notin assigned[c][k]
    /\ k = "active" \/ p \notin assigned[c]["active"]

(* _client_exhausted                                                       *)
Exhausted(c, k) == Cardinality(assigned[c][k]) = ClientLimit(k)

-----------------------------------------------------------------------------
(* ClientAssignment.copartitioned_assignment reads what a client had from  *)
(* the first topic of the group that has any, for actives and for standbys *)
(* apart.  _global_table_standby_assignments has made every partition of a *)
(* global table active for every member, and standby where it was not; and *)
(* validate takes a partition out of the standbys that is among the        *)
(* actives.                                                                *)
Claim(c, global) ==
    LET had == reported[c]
        actives == IF global \/ (GlobalTable /\ had["active"] = {})
                   THEN Partitions ELSE had["active"]
        standbys == IF global \/ (GlobalTable /\ had["standby"] = {})
                    THEN Partitions ELSE had["standby"]
    IN  IF had = Nothing THEN Nothing
        ELSE [active |-> actives, standby |-> standbys \ actives]

(* A round begins with the members that have joined.  Which topic is read  *)
(* depends on the order of a set of names, for all clients alike.          *)
Begin(M) ==
    /\ pc = "idle"
    /\ rounds < MaxRounds
    /\ rounds' = rounds + 1
    /\ members' \in SetToSeqs(M)
    /\ \E global \in {FALSE, GlobalTable} :
         start' = [c \in Clients |-> IF c \in M THEN Claim(c, global)
                                     ELSE Nothing]
    /\ assigned' = start'
    /\ pc' = "extras"
    /\ kind' = "active"
    /\ candidates' = <<>> /\ cursor' = 0 /\ unassigned' = <<>>
    /\ UNCHANGED reported

(* Mutant: clients are cut down to the minimum with standbys, too.         *)
CapacityMin == MinCapacity

(* The number of actives a client may keep.                                *)
Capacity ==
    IF EffReplicas = 0 /\ NumPartitions >= NumClients
      THEN MinCapacity ELSE MaxCapacity

(* What pop leaves of a set that has to be cut down to n members.          *)
Left(S, n) ==
    IF Cardinality(S) <= n THEN {S}
    ELSE {T \in SUBSET S : Cardinality(T) = n}

(* CopartitionedAssignment.unassign_extras, for one client after another.  *)
UnassignExtras ==
    /\ pc = "extras"
    /\ LET c == members[cursor + 1]
       IN  \E A \in Left(assigned[c]["active"], Capacity),
              S \in Left(assigned[c]["standby"], Capacity * EffReplicas) :
             assigned' = [assigned EXCEPT ![c] = [active |-> A, standby |-> S]]
    /\ cursor' = (cursor + 1) % NumClients
    /\ pc' = IF cursor' = 0 THEN "over" ELSE "extras"
    /\ UNCHANGED <<roundVars, kind, candidates, unassigned>>

(* The clients that keep p: as many as are allowed, the last of the mapping.*)
Keepers(k, p) ==
    {c \in Holders(k, p) :
       Cardinality({d \in Holders(k, p) : Index(d) > Index(c)}) < TotalAssigns(k)}

(* Mutant: partitions claimed by several clients are left with them.       *)
UnassignOverassignedNot ==
    /\ pc = "over"
    /\ pc' = "sort"
    /\ UNCHANGED <<roundVars, assigned, kind, loopVars>>

(* _unassign_overassigned: a partition several clients claim is taken from *)
(* the first ones in the mapping.                                          *)
UnassignOverassigned ==
    /\ pc = "over"
    /\ assigned' =
         [c \in Clients |-> IF c \notin Members THEN assigned[c] ELSE
            [assigned[c] EXCEPT ![kind] =
               {p \in @ : Count(kind, p) > TotalAssigns(kind) =>
                            c \in Keepers(kind, p)}]]
    /\ pc' = "sort"
    /\ UNCHANGED <<roundVars, kind, loopVars>>

(* The copies of each partition that are still missing, and their order.   *)
Copies(k) == {x \in Partitions \X (1..TotalAssigns(k)) : Count(k, x[1]) < x[2]}
CopyOrder(k) ==
    {z \in Copies(k) \X Copies(k) :
       \/ z[1][1] < z[2][1]
       \/ z[1][1] = z[2][1] /\ z[1][2] < z[2][2]}

(* Mutant: partitions are counted from one.                                *)
MissingFromOne(k) ==
    LET s == Sorted(Copies(k), CopyOrder(k))
    IN  [i \in 1..Cardinality(Copies(k)) |-> s[i][1] + 1]

(* _get_unassigned: a partition occurs as often as it is still missing.    *)
Missing(k) ==
    LET s == Sorted(Copies(k), CopyOrder(k))
    IN  [i \in 1..Cardinality(Copies(k)) |-> s[i][1]]

(* sorted is stable: clients with equal load keep the order of the mapping.*)
Load(c, k) == Cardinality(assigned[c][k])
LoadOrder(k) ==
    {z \in Members \X Members :
       \/ Load(z[1], k) < Load(z[2], k)
       \/ Load(z[1], k) = Load(z[2], k) /\ Index(z[1]) < Index(z[2])}
ByLoad(k) == Sorted(Members, LoadOrder(k))

(* The start of _assign_round_robin, after _get_unassigned with its assert.*)
SortCandidates ==
    /\ pc = "sort"
    /\ IF \E p \in Partitions : Count(kind, p) > TotalAssigns(kind)
         THEN pc' = "failed" /\ UNCHANGED loopVars
         ELSE /\ candidates' = ByLoad(kind)
              /\ cursor' = 0
              /\ unassigned' = Missing(kind)
              /\ pc' = "assign"
    /\ UNCHANGED <<roundVars, assigned, kind>>

-----------------------------------------------------------------------------
(* _assign_round_robin                                                     *)

At(i) == candidates[(i % NumClients) + 1]

(* next(candidates) until one is found, for at most a full circle: how     *)
(* many were taken.                                                        *)
Found(from, able) == {i \in 1..NumClients : At(from + i - 1) \in able}
Taken(from, able) ==
    IF Found(from, able) = {} THEN NumClients ELSE Min(Found(from, able))

(* Mutant: standbys are not looked for.                                    *)
PromotableNone(p, c) == FALSE

(* _find_promotable_standby                                                *)
Promotable(p, c) ==
    /\ p \in assigned[c]["standby"]
    /\ ~Exhausted(c, "active")
    /\ CanAssign(c, p, "active")

Assignable(p, c) == ~Exhausted(c, kind) /\ CanAssign(c, p, kind)

(* unassign_partition of the standby that is promoted, assign_partition.   *)
Give(p, c, rest, at) ==
    /\ assigned' =
         [assigned EXCEPT ![c] =
            IF kind = "active"
              THEN [active |-> @["active"] \cup {p},
                    standby |-> IF Promotable(p, c) THEN @["standby"] \ {p}
                                ELSE @["standby"]]
              ELSE [active |-> @["active"], standby |-> @["standby"] \cup {p}]]
    /\ unassigned' = rest
    /\ cursor' = at % NumClients
    /\ UNCHANGED <<roundVars, pc, kind, candidates>>

(* For an active, first a client that has it as a standby.                 *)
Promote ==
    /\ pc = "assign" /\ unassigned # <<>> /\ kind = "active"
    /\ LET p == Head(unassigned)
           able == {c \in Members : Promotable(p, c)}
           k == Taken(cursor, able)
       IN  /\ able # {}
           /\ Give(p, At(cursor + k - 1), Tail(unassigned), cursor + k)

(* Where the round robin for p starts: after a full circle in search of a  *)
(* standby, or as many clients on as the number of the partition.          *)
From(p) == cursor + (IF kind = "active" THEN NumClients ELSE p)

Unpromotable(p) ==
    kind = "active" => ~\E c \in Members : Promotable(p, c)

AssignRoundRobin ==
    /\ pc = "assign" /\ unassigned # <<>>
    /\ LET p == Head(unassigned)
           able == {c \in Members : Assignable(p, c)}
           k == Taken(From(p), able)
       IN  /\ Unpromotable(p)
           /\ able # {}
           /\ Give(p, At(From(p) + k - 1), Tail(unassigned), From(p) + k)

(* No client can take p: it must be a standby, and the first full client   *)
(* that does not have p gives up one of its own.                           *)
Swappable(p) ==
    {c \in Members : Exhausted(c, kind) /\ CanAssign(c, p, kind)}
First(S) == members[Min({i \in 1..NumClients : members[i] \in S})]

(* Mutant: the partition is added before another one is popped.            *)
GiveUpAny(c, p) == assigned[c][kind] \cup {p}

(* CopartitionedAssignment.pop_partition                                   *)
GiveUp(c, p) == assigned[c][kind]

Swap ==
    /\ pc = "assign" /\ unassigned # <<>>
    /\ LET p == Head(unassigned)
           c == First(Swappable(p))
       IN  /\ Unpromotable(p)
           /\ ~\E d \in Members : Assignable(p, d)
           /\ IF kind = "active" \/ Swappable(p) = {}
                THEN /\ pc' = "failed"
                     /\ UNCHANGED <<assigned, cursor, unassigned>>
                ELSE /\ \E q \in GiveUp(c, p) :
                          /\ assigned' = [assigned EXCEPT
                                            ![c][kind] = (@ \cup {p}) \ {q}]
                          /\ unassigned' = Append(Tail(unassigned), q)
                     /\ cursor' = (From(p) + NumClients) % NumClients
                     /\ UNCHANGED pc
    /\ UNCHANGED <<roundVars, kind, candidates>>

(* _assign ends with an assert that everything is assigned; standbys come  *)
(* after actives.                                                          *)
Assigned ==
    /\ pc = "assign" /\ unassigned = <<>>
    /\ \/ /\ \E p \in Partitions : Count(kind, p) # TotalAssigns(kind)
          /\ pc' = "failed" /\ UNCHANGED kind
       \/ /\ \A p \in Partitions : Count(kind, p) = TotalAssigns(kind)
          /\ pc' = IF kind = "active" THEN "over" ELSE "done"
          /\ kind' = "standby"
    /\ UNCHANGED <<roundVars, assigned, loopVars>>

-----------------------------------------------------------------------------
(* The objects of the round are gone when it is over.                      *)
Discard ==
    /\ members' = <<>>
    /\ start' = [c \in Clients |-> Nothing]
    /\ assigned' = [c \in Clients |-> Nothing]
    /\ kind' = "active"
    /\ candidates' = <<>> /\ cursor' = 0 /\ unassigned' = <<>>

(* PartitionAssignor.on_assignment, for the members the answer reaches.  A *)
(* member without partitions of other topics has those of a global table.  *)
Sync(S) ==
    /\ pc = "done"
    /\ Cardinality(Members \ S) <= MaxMissed
    /\ reported' = [c \in Clients |->
                      IF c \notin S THEN reported[c]
                      ELSE IF GlobalTable /\ assigned[c] = Nothing THEN Alone
                      ELSE assigned[c]]
    /\ pc' = "idle"
    /\ Discard
    /\ UNCHANGED rounds

Leader ==
    \/ UnassignExtras \/ UnassignOverassigned \/ SortCandidates
    \/ Promote \/ AssignRoundRobin \/ Swap \/ Assigned

Next ==
    \/ \E M \in (SUBSET Clients) \ {{}} : Begin(M)
    \/ Leader
    \/ \E S \in SUBSET Members : Sync(S)

Spec == Init /\ [][Next]_vars
FairSpec == Spec /\ WF_vars(Leader)

-----------------------------------------------------------------------------
(* None of the asserts of CopartitionedAssignor fails, and the search for  *)
(* a client to free ("should never throw error") finds one.                *)
NeverFails == pc # "failed"

(* What the leader hands out: every partition has one active and its       *)
(* standbys, on different clients, and no client has more than its share.  *)
Balanced ==
    pc = "done" =>
        /\ \A p \in Partitions :
             Count("active", p) = 1 /\ Count("standby", p) = EffReplicas
        /\ \A c \in Members :
             /\ assigned[c]["active"] \cap assigned[c]["standby"] = {}
             /\ Load(c, "active") <= MaxCapacity
             /\ Load(c, "standby") <= MaxCapacity * EffReplicas

(* A client within max_capacity keeps every active nobody else claims,     *)
(* as the docstring of CopartitionedAssignor promises.                     *)
Sticky ==
    pc = "done" =>
        \A c \in Members :
            Cardinality(start[c]["active"]) <= MaxCapacity =>
                \A p \in start[c]["active"] :
                    \/ p \in assigned[c]["active"]
                    \/ \E d \in Members \ {c} : p \in start[d]["active"]

(* A partition nobody had goes to a client that had it as a standby,       *)
(* unless all of these are full: state is not rebuilt without need.        *)
PromotesStandby ==
    pc = "done" =>
        \A p \in Partitions, c \in Members :
            (/\ \A d \in Members : p \notin start[d]["active"]
             /\ p \in start[c]["standby"]
             /\ Cardinality(start[c]["standby"]) <= Capacity * EffReplicas
             /\ Load(c, "active") < MaxCapacity)
            => \E d \in Members : /\ p \in start[d]["standby"]
                                  /\ p \in assigned[d]["active"]

(* The leader comes to an end: taking a standby back to make room for      *)
(* another cannot go on for ever.                                          *)
Terminates == (pc = "assign") ~> (pc # "assign")
=============================================================================

------------------------------ MODULE MCRecovery ------------------------------
(* Small instances of Recovery for TLC.                                    *)
EXTENDS Recovery

CONSTANTS t1, t2

(* t1 comes and goes, t2 is a standby all along.                           *)
Stays == {[tp \in TP |-> IF tp = t1 THEN r ELSE "standby"] :
            r \in {"active", "none"}}

(* t1 is active and t2 a standby, or they are elsewhere.                   *)
Mixed == {a \in [TP -> {"active", "standby", "none"}] :
            a[t1] # "standby" /\ a[t2] # "active"}

(* Each partition comes and goes, and the worker always has one.           *)
SomeActive == {a \in [TP -> {"active", "none"}] : \E tp \in TP : a[tp] = "active"}

(* A standby and nothing else.                                             *)
StandbyOnly == [TP -> {"standby"}]
=============================================================================

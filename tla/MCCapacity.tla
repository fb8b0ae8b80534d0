------------------------------ MODULE MCCapacity ------------------------------
(***************************************************************************)
(* Capacity for TLC: the keys, repositories and limits of each run.         *)
(***************************************************************************)
EXTENDS Capacity, TLC

CONSTANTS c1, c2, c3, k1, k2, r1, r2

NoKeys == [c \in Cases |-> <<>>]
SharedKey == [c \in Cases |-> <<k1>>]
OneShared == (c1 :> <<k1>> @@ c2 :> <<k1>> @@ c3 :> <<>>)
CrossedKeys == (c1 :> <<k1, k2>> @@ c2 :> <<k2, k1>> @@ c3 :> <<k2>>)

SameRepository == [c \in Cases |-> r1]
TwoRepositories == (c1 :> r1 @@ c2 :> r2 @@ c3 :> r2)

Limits1 == [k \in Kinds |-> 1]
Limits2 == [k \in Kinds |-> IF k = "PROBE" THEN 1 ELSE 2]
Limits3 == [k \in Kinds |-> 3]
=============================================================================

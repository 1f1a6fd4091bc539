------------------------------ MODULE MCTopup ------------------------------
(* Constants for checking Topup with TLC. *)
EXTENDS Topup, TLC

CONSTANTS u1, a1, o1, o2, s1, s2, s3, m1, m2, m3

OneOrder == {o1}
TwoOrders == {o1, o2}
OneOwner == [o \in Orders |-> u1]
OneSource == [o \in Orders |-> a1]
UnitAmounts == [o \in Orders |-> 1]
DistinctAmounts == [o \in Orders |-> IF o = o1 THEN 1 ELSE 2]
FundsForOne == [a \in Accounts |-> 2]

Interchangeable == Permutations(Sessions) \cup Permutations(Msgs)
=============================================================================

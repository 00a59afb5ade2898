---------------------------- MODULE MCOrderFunds ----------------------------
(***************************************************************************)
(* OrderFunds for TLC.  The first order is bought by one user from the     *)
(* other and the second the other way round: a user's wallet then takes    *)
(* part in the payment of one order and the settlement of the other.       *)
(***************************************************************************)
EXTENDS OrderFunds, TLC

CONSTANTS o1, o2, u1, u2

OneOrder  == {o1}
TwoOrders == {o1, o2}
TwoUsers  == {u1, u2}

MCBuyer  == [o \in Orders |-> IF o = o1 THEN u1 ELSE u2]
MCSeller == [o \in Orders |-> IF o = o1 THEN u2 ELSE u1]
=============================================================================

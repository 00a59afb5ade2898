----------------------------- MODULE OrderState -----------------------------
(***************************************************************************)
(* The statuses of an order row (consts/order.go) and the table of legal   *)
(* transitions (internal/order/state.go), with the abstract state machine  *)
(* they describe.  The handlers do not walk this table: most of them move  *)
(* the row with one conditional UPDATE of their own.  OrderLifecycle models *)
(* those UPDATEs and is shown to implement the machine below.              *)
(***************************************************************************)

CONSTANT Orders

VARIABLE type       \* type[o]: the status column; "None" while no row exists

OrderStates == {"WaitPay", "WaitShip", "Closed", "WaitReceive", "Completed",
                "Refunding", "Refunded", "WaitGroup"}

\* orderStateTransitions; Closed and Refunded have no way out.
Transitions ==
  {<<"WaitPay",     "WaitShip">>,    <<"WaitPay",     "Closed">>,
   <<"WaitShip",    "WaitReceive">>, <<"WaitShip",    "Refunding">>,
   <<"WaitReceive", "Completed">>,   <<"WaitReceive", "Refunding">>,
   <<"Completed",   "Refunding">>,
   <<"Refunding",   "Refunded">>,    <<"Refunding",   "WaitShip">>,
   <<"Refunding",   "WaitReceive">>, <<"Refunding",   "Completed">>,
   <<"WaitGroup",   "WaitShip">>,    <<"WaitGroup",   "Closed">>}

CanTransition(from, to) == <<from, to>> \in Transitions

-----------------------------------------------------------------------------
Init == type = [o \in Orders |-> "None"]

Insert(o) == /\ type[o] = "None"
             /\ \E s \in {"WaitPay", "WaitGroup"} : type' = [type EXCEPT ![o] = s]

Move(o) == /\ type[o] # "None"
           /\ \E s \in OrderStates : /\ CanTransition(type[o], s)
                                     /\ type' = [type EXCEPT ![o] = s]

Next == \E o \in Orders : Insert(o) \/ Move(o)

Spec == Init /\ [][Next]_type
=============================================================================

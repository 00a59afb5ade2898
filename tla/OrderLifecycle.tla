--------------------------- MODULE OrderLifecycle ---------------------------
(***************************************************************************)
(* The order row as its handlers write it: creation, payment, cancelling,  *)
(* shipping, receipt and the three refund decisions.  Every action is one  *)
(* committed database transaction; the guard is the WHERE clause of its    *)
(* conditional UPDATE.                                                     *)
(*                                                                         *)
(* The handlers also read the row before their transaction.  Except for    *)
(* RejectRefund, what they read is checked again by the WHERE clause and   *)
(* so is not modelled.  RejectRefund carries refund_from_type from that    *)
(* read into the UPDATE: the read is an action of its own and what the     *)
(* handlers in flight hold is the variable rejecting.                      *)
(*                                                                         *)
(* OrderStock and OrderFunds extend this module: their actions conjoin     *)
(* these with the stock and the money that the same transactions move.     *)
(***************************************************************************)
EXTENDS Integers

CONSTANTS Orders,
          MaxRefunds    \* maxRefundRequests (3 in the code)

ASSUME MaxRefundsAssumption == MaxRefunds \in Nat

VARIABLES type,         \* type[o]: "None" while there is no row
          refundFrom,   \* refund_from_type; "None" before the first request
          refundCount,  \* refund_count
          shipped,      \* shipped_at is set: the goods left the warehouse
          rejecting     \* the statuses to restore, held by RejectRefund
                        \* handlers between their read and their UPDATE

lifeVars == <<type, refundFrom, refundCount, shipped, rejecting>>

State == INSTANCE OrderState

\* refundAllowedFrom
RefundAllowedFrom == {"WaitShip", "WaitReceive", "Completed"}

LifeTypeOK ==
  /\ type \in [Orders -> State!OrderStates \cup {"None"}]
  /\ refundFrom \in [Orders -> RefundAllowedFrom \cup {"None"}]
  /\ refundCount \in [Orders -> 0..MaxRefunds]
  /\ shipped \in [Orders -> BOOLEAN]
  /\ rejecting \in [Orders -> SUBSET RefundAllowedFrom]

LifeInit ==
  /\ type = [o \in Orders |-> "None"]
  /\ refundFrom = [o \in Orders |-> "None"]
  /\ refundCount = [o \in Orders |-> 0]
  /\ shipped = [o \in Orders |-> FALSE]
  /\ rejecting = [o \in Orders |-> {}]

-----------------------------------------------------------------------------
SetType(o, s) == type' = [type EXCEPT ![o] = s]

CreateOrder(o) ==
  /\ type[o] = "None"
  /\ SetType(o, "WaitPay")
  /\ UNCHANGED <<refundFrom, refundCount, shipped, rejecting>>

MarkOrderPaid(o) ==
  /\ type[o] = "WaitPay"
  /\ SetType(o, "WaitShip")
  /\ UNCHANGED <<refundFrom, refundCount, shipped, rejecting>>

\* Mutant: the UPDATE without its status.
MutCloseOrder(o) ==
  /\ type[o] # "None"
  /\ SetType(o, "Closed")
  /\ UNCHANGED <<refundFrom, refundCount, shipped, rejecting>>

CloseOrder(o) ==
  /\ type[o] = "WaitPay"
  /\ SetType(o, "Closed")
  /\ UNCHANGED <<refundFrom, refundCount, shipped, rejecting>>

ShipOrder(o) ==
  /\ type[o] = "WaitShip"
  /\ SetType(o, "WaitReceive")
  /\ shipped' = [shipped EXCEPT ![o] = TRUE]
  /\ UNCHANGED <<refundFrom, refundCount, rejecting>>

\* The buyer, or the cron seven days after shipped_at.
ConfirmReceive(o) ==
  /\ type[o] = "WaitReceive"
  /\ SetType(o, "Completed")
  /\ UNCHANGED <<refundFrom, refundCount, shipped, rejecting>>

\* Mutant: refund_count is not compared with the limit.
MutRequestRefund(o) ==
  /\ type[o] \in RefundAllowedFrom
  /\ SetType(o, "Refunding")
  /\ refundFrom' = [refundFrom EXCEPT ![o] = type[o]]
  /\ refundCount' = [refundCount EXCEPT ![o] = @ + 1]
  /\ UNCHANGED <<shipped, rejecting>>

\* FOR UPDATE, so read and write are one step.  The after-sales window of a
\* completed order is the buyer's choice not to ask any more.
RequestRefund(o) ==
  /\ type[o] \in RefundAllowedFrom
  /\ refundCount[o] < MaxRefunds
  /\ SetType(o, "Refunding")
  /\ refundFrom' = [refundFrom EXCEPT ![o] = type[o]]
  /\ refundCount' = [refundCount EXCEPT ![o] = @ + 1]
  /\ UNCHANGED <<shipped, rejecting>>

ApproveRefund(o) ==
  /\ type[o] = "Refunding"
  /\ SetType(o, "Refunded")
  /\ UNCHANGED <<refundFrom, refundCount, shipped, rejecting>>

\* Mutant: a rejection completes every order.
MutRestoreType(o) == "Completed"

\* A row migrated while Refunding has no usable refund_from_type.
RestoreType(o) ==
  IF refundFrom[o] \in RefundAllowedFrom THEN refundFrom[o] ELSE "Completed"

\* RejectRefund up to its transaction: the row is read without a lock.
RejectRefundRead(o) ==
  /\ type[o] = "Refunding"
  /\ rejecting' = [rejecting EXCEPT ![o] = @ \cup {RestoreType(o)}]
  /\ UNCHANGED <<type, refundFrom, refundCount, shipped>>

\* The transaction of a handler that read restoreType.  Another handler may
\* hold the same value, so the value may stay in the set.
RejectRefund(o, restoreType) ==
  /\ restoreType \in rejecting[o]
  /\ type[o] = "Refunding"
  /\ SetType(o, restoreType)
  /\ \E rest \in {rejecting[o], rejecting[o] \ {restoreType}} :
        rejecting' = [rejecting EXCEPT ![o] = rest]
  /\ UNCHANGED <<refundFrom, refundCount, shipped>>

\* The UPDATE of a late handler matches no row, or the handler dies.
RejectRefundGivesUp(o, restoreType) ==
  /\ restoreType \in rejecting[o]
  /\ rejecting' = [rejecting EXCEPT ![o] = @ \ {restoreType}]
  /\ UNCHANGED <<type, refundFrom, refundCount, shipped>>

LifeNext ==
  \E o \in Orders :
    \/ CreateOrder(o)
    \/ MarkOrderPaid(o)
    \/ CloseOrder(o)
    \/ ShipOrder(o)
    \/ ConfirmReceive(o)
    \/ RequestRefund(o)
    \/ ApproveRefund(o)
    \/ RejectRefundRead(o)
    \/ \E s \in RefundAllowedFrom : RejectRefund(o, s) \/ RejectRefundGivesUp(o, s)

LifeSpec == LifeInit /\ [][LifeNext]_lifeVars

-----------------------------------------------------------------------------
\* The conditional UPDATEs of internal/order/repo.go, none of which looks at
\* the table, take an order only along the transitions of state.go, and leave
\* Closed and Refunded orders alone, whatever stale value a rejection writes.
ImplementsStateTable == State!Spec

\* No order is ever received or completed without having been shipped: the
\* rejection of a refund puts the order back, it cannot jump over fulfilment
\* (RejectRefund restores refund_from_type and not always Completed).
NoFulfilmentSkipped ==
  \A o \in Orders : type[o] \in {"WaitReceive", "Completed"} => shipped[o]

\* A rejected refund returns the order to the status it had when this refund
\* was requested: what repo.go says of RejectRefund.
RejectRestoresRefundFrom ==
  [][\A o \in Orders :
       type[o] = "Refunding" /\ type'[o] \in RefundAllowedFrom
         => type'[o] = refundFrom[o]]_lifeVars
=============================================================================

----------------------------- MODULE OrderFunds -----------------------------
(***************************************************************************)
(* The money of paid orders: the clearing record of internal/clearing, the *)
(* ledger and the wallets of internal/money and internal/user, and the     *)
(* settlements that follow order.completed and order.refunded.             *)
(*                                                                         *)
(* A settlement runs some time after the transaction that called for it,   *)
(* from an event that is delivered at least once, retried for hours, and   *)
(* lost in the end if it keeps failing, or because RunSettleCompensation   *)
(* listed the order.  Either way it is an item of work here.               *)
(*                                                                         *)
(* An order costs one unit: a payment, payout or refund moves its whole    *)
(* amount.  SettleRefund also puts stock back; that half of its            *)
(* transaction is in OrderStock.  Orders paid before clearing records      *)
(* existed are left out.                                                   *)
(***************************************************************************)
EXTENDS OrderLifecycle, FiniteSets

CONSTANTS Users, Buyer, Seller,  \* Buyer[o] and Seller[o] of an order
          InitWallet,
          MaxOutside             \* bound on what a user moves outside orders

ASSUME PartiesAssumption ==
  /\ Buyer \in [Orders -> Users] /\ Seller \in [Orders -> Users]
  /\ \A o \in Orders : Buyer[o] # Seller[o]
  /\ Users \cap {"escrow", "external"} = {}
ASSUME WalletAssumption == InitWallet \in Nat /\ MaxOutside \in Nat

VARIABLES clearing,   \* payment_clearing.status; "none" without a record
          ledger,     \* account_transaction: <<order, account, direction, biz_type>>
          wallet,     \* users.money
          outside,    \* what a user took in, less what he spent, elsewhere
          work,       \* settlements to run
          shortfall,  \* SettleRefund rolled back and is to RecordRefundShortfall
          anomaly,    \* the refund_seller_shortfall anomaly; "none" without one
          deleted     \* orders whose row was deleted

moneyVars == <<clearing, ledger, wallet>>
fundsVars == <<lifeVars, moneyVars, outside, work, shortfall, anomaly, deleted>>

Directions == {"debit", "credit"}
BizTypes   == {"order_clear", "order_settle", "refund", "escrow_refund"}
Work       == {"settle", "refund"} \X Orders

\* A shortfall that RunSettleCompensation leaves alone.
OpenAnomalies == {"pending_review", "reviewing", "refunded", "rejected"}

FundsTypeOK ==
  /\ LifeTypeOK
  /\ clearing \in [Orders -> {"none", "cleared", "settled", "refunded"}]
  /\ ledger \in SUBSET (Orders \X (Users \cup {"escrow", "external"}) \X Directions \X BizTypes)
  /\ wallet \in [Users -> Nat]
  /\ outside \in [Users -> (-MaxOutside)..MaxOutside]
  /\ work \in SUBSET Work
  /\ shortfall \in SUBSET Orders
  /\ anomaly \in [Orders -> OpenAnomalies \cup {"none", "resolved"}]
  /\ deleted \in SUBSET Orders

FundsInit ==
  /\ LifeInit
  /\ clearing = [o \in Orders |-> "none"]
  /\ ledger = {}
  /\ wallet = [u \in Users |-> InitWallet]
  /\ outside = [u \in Users |-> 0]
  /\ work = {}
  /\ shortfall = {}
  /\ anomaly = [o \in Orders |-> "none"]
  /\ deleted = {}

-----------------------------------------------------------------------------
(* Payment *)

SetClearing(o, status) == clearing' = [clearing EXCEPT ![o] = status]

\* One business of an order posts one debit and one credit: the unique index
\* on (ref_order_id, direction, biz_type) rolls the transaction back otherwise.
Post(o, debited, credited, biz) ==
  /\ ~ \E a \in Users \cup {"escrow", "external"}, d \in Directions : <<o, a, d, biz>> \in ledger
  /\ ledger' = ledger \cup {<<o, debited, "debit", biz>>, <<o, credited, "credit", biz>>}

OnlyPayment == UNCHANGED <<outside, work, shortfall, anomaly, deleted>>

\* Mutant: the seller is paid when the buyer pays.
MutPayByWallet(o) ==
  /\ MarkOrderPaid(o)
  /\ wallet[Buyer[o]] >= 1
  /\ wallet' = [wallet EXCEPT ![Buyer[o]] = @ - 1, ![Seller[o]] = @ + 1]
  /\ Post(o, Buyer[o], Seller[o], "order_settle")
  /\ SetClearing(o, "settled")
  /\ OnlyPayment

\* PayDown.  It may also fail for want of stock; then nothing has happened.
PayByWallet(o) ==
  /\ MarkOrderPaid(o)
  /\ wallet[Buyer[o]] >= 1
  /\ wallet' = [wallet EXCEPT ![Buyer[o]] = @ - 1]
  /\ Post(o, Buyer[o], "escrow", "order_clear")
  /\ SetClearing(o, "cleared")
  /\ OnlyPayment

\* Mutant: an order that was cancelled meanwhile is cleared as well.
MutPayExternal(o) ==
  /\ MarkOrderPaid(o) \/ (type[o] = "Closed" /\ UNCHANGED lifeVars)
  /\ Post(o, "external", "escrow", "order_clear")
  /\ SetClearing(o, "cleared")
  /\ OnlyPayment /\ UNCHANGED wallet

\* The webhook of an external channel, for an order that can be paid.
PayExternal(o) ==
  /\ MarkOrderPaid(o)
  /\ Post(o, "external", "escrow", "order_clear")
  /\ SetClearing(o, "cleared")
  /\ OnlyPayment /\ UNCHANGED wallet

-----------------------------------------------------------------------------
(* The steps of the order that call for a settlement *)

OnlyOrder == UNCHANGED <<moneyVars, outside, shortfall, anomaly, deleted>>

\* order.completed
CompleteOrder(o) ==
  /\ ConfirmReceive(o)
  /\ work' = work \cup {<<"settle", o>>}
  /\ OnlyOrder

\* order.refund_rejected; the consumer ignores it unless it restored Completed.
RefundRejected(o, restoreType) ==
  /\ RejectRefund(o, restoreType)
  /\ work' = IF restoreType = "Completed" THEN work \cup {<<"settle", o>>} ELSE work
  /\ OnlyOrder

\* order.refunded
RefundApproved(o) ==
  /\ ApproveRefund(o)
  /\ work' = work \cup {<<"refund", o>>}
  /\ OnlyOrder

\* Mutants: refunds only; a shortfall is never tried again.
MutListedRefunds(kind, o) ==
  /\ o \notin deleted
  /\ anomaly[o] \notin OpenAnomalies
  /\ kind = "refund" /\ type[o] = "Refunded" /\ clearing[o] \in {"cleared", "settled"}

MutListedOnce(kind, o) ==
  /\ o \notin deleted
  /\ anomaly[o] = "none"
  /\ \/ kind = "settle" /\ type[o] = "Completed" /\ clearing[o] = "cleared"
     \/ kind = "refund" /\ type[o] = "Refunded" /\ clearing[o] \in {"cleared", "settled"}

\* The scans of RunSettleCompensation.
Listed(kind, o) ==
  /\ o \notin deleted
  /\ anomaly[o] \notin OpenAnomalies
  /\ \/ kind = "settle" /\ type[o] = "Completed" /\ clearing[o] = "cleared"
     \/ kind = "refund" /\ type[o] = "Refunded" /\ clearing[o] \in {"cleared", "settled"}

Compensate(kind, o) ==
  /\ Listed(kind, o)
  /\ <<kind, o>> \notin work
  /\ work' = work \cup {<<kind, o>>}
  /\ UNCHANGED lifeVars /\ OnlyOrder

-----------------------------------------------------------------------------
(* Settlement *)

\* A handled item is gone, or comes again: a duplicate delivery, the retry of
\* a failure.
Handle(kind, o) ==
  /\ <<kind, o>> \in work
  /\ work' \in {work, work \ {<<kind, o>>}}

OnlySettlement == UNCHANGED <<lifeVars, outside, anomaly, deleted>>

\* Mutant: the payout is posted, users.money stays.
MutSettleCompletedOrder(o) ==
  /\ Handle("settle", o)
  /\ o \notin deleted /\ clearing[o] = "cleared" /\ type[o] = "Completed"
  /\ Post(o, "escrow", Seller[o], "order_settle")
  /\ SetClearing(o, "settled")
  /\ OnlySettlement /\ UNCHANGED <<wallet, shortfall>>

SettleCompletedOrder(o) ==
  /\ Handle("settle", o)
  /\ o \notin deleted /\ clearing[o] = "cleared" /\ type[o] = "Completed"
  /\ wallet' = [wallet EXCEPT ![Seller[o]] = @ + 1]
  /\ Post(o, "escrow", Seller[o], "order_settle")
  /\ SetClearing(o, "settled")
  /\ OnlySettlement /\ UNCHANGED shortfall

\* Mutants: the seller is overdrawn; every refund is taken from escrow.
MutSettleRefundOverdraws(o) ==
  /\ Handle("refund", o)
  /\ o \notin deleted /\ type[o] = "Refunded" /\ clearing[o] = "settled"
  /\ wallet' = [wallet EXCEPT ![Buyer[o]] = @ + 1, ![Seller[o]] = @ - 1]
  /\ Post(o, Seller[o], Buyer[o], "refund")
  /\ SetClearing(o, "refunded")
  /\ OnlySettlement /\ UNCHANGED shortfall

MutSettleRefundFromEscrow(o) ==
  /\ Handle("refund", o)
  /\ o \notin deleted /\ type[o] = "Refunded" /\ clearing[o] \in {"cleared", "settled"}
  /\ wallet' = [wallet EXCEPT ![Buyer[o]] = @ + 1]
  /\ Post(o, "escrow", Buyer[o], "escrow_refund")
  /\ SetClearing(o, "refunded")
  /\ OnlySettlement /\ UNCHANGED shortfall

SettleRefund(o) ==
  /\ Handle("refund", o)
  /\ o \notin deleted /\ type[o] = "Refunded"
  /\ \/ /\ clearing[o] = "cleared"
        /\ wallet' = [wallet EXCEPT ![Buyer[o]] = @ + 1]
        /\ Post(o, "escrow", Buyer[o], "escrow_refund")
     \/ /\ clearing[o] = "settled" /\ wallet[Seller[o]] >= 1
        /\ wallet' = [wallet EXCEPT ![Buyer[o]] = @ + 1, ![Seller[o]] = @ - 1]
        /\ Post(o, Seller[o], Buyer[o], "refund")
  /\ SetClearing(o, "refunded")
  /\ OnlySettlement /\ UNCHANGED shortfall

\* The seller has spent the money: the transaction rolls back.
SettleRefundShort(o) ==
  /\ Handle("refund", o)
  /\ o \notin deleted /\ type[o] = "Refunded"
  /\ clearing[o] = "settled" /\ wallet[Seller[o]] < 1
  /\ shortfall' = shortfall \cup {o}
  /\ OnlySettlement /\ UNCHANGED moneyVars

\* A call the handlers answer with a skip or an error, one whose transaction
\* fails, and an item that is dead-lettered.
WorkLost(kind, o) ==
  /\ <<kind, o>> \in work
  /\ work' = work \ {<<kind, o>>}
  /\ OnlySettlement /\ UNCHANGED <<moneyVars, shortfall>>

-----------------------------------------------------------------------------
(* Refunds the seller cannot pay *)

OnlyAnomaly == UNCHANGED <<lifeVars, moneyVars, outside, work, deleted>>

RecordRefundShortfall(o) ==
  /\ o \in shortfall
  /\ anomaly' = IF anomaly[o] \in {"none", "resolved"}
                THEN [anomaly EXCEPT ![o] = "pending_review"] ELSE anomaly
  /\ shortfall' \in {shortfall, shortfall \ {o}}
  /\ OnlyAnomaly

\* The process dies before, or the insert fails and is only logged.
ShortfallLost(o) ==
  /\ o \in shortfall
  /\ shortfall' = shortfall \ {o}
  /\ OnlyAnomaly /\ UNCHANGED anomaly

AllowedAnomalyTransition(from, to) ==
  \/ from = "pending_review" /\ to = "reviewing"
  \/ from = "reviewing" /\ to \in {"resolved", "refunded", "rejected"}

\* RecordPaymentAnomalyTransition, an operator's decision.
OperatorDecides(o, to) ==
  /\ AllowedAnomalyTransition(anomaly[o], to)
  /\ anomaly' = [anomaly EXCEPT ![o] = to]
  /\ OnlyAnomaly /\ UNCHANGED shortfall

-----------------------------------------------------------------------------
\* A user takes money in or spends it on something else.
MovesOutside(u, d) ==
  /\ wallet[u] + d >= 0
  /\ outside[u] + d \in (-MaxOutside)..MaxOutside
  /\ wallet' = [wallet EXCEPT ![u] = @ + d]
  /\ outside' = [outside EXCEPT ![u] = @ + d]
  /\ UNCHANGED <<lifeVars, clearing, ledger, work, shortfall, anomaly, deleted>>

\* Mutant: the status alone decides.
MutDeleteOrder(o) ==
  /\ o \notin deleted
  /\ type[o] \in {"Closed", "Completed", "Refunded"}
  /\ deleted' = deleted \cup {o}
  /\ UNCHANGED <<lifeVars, moneyVars, outside, work, shortfall, anomaly>>

\* The buyer deletes a row whose money has come to rest.
DeleteOrder(o) ==
  /\ o \notin deleted
  /\ \/ type[o] = "Closed"
     \/ type[o] = "Completed" /\ clearing[o] \in {"none", "settled", "refunded"}
     \/ /\ type[o] = "Refunded"
        /\ \E a \in Users, b \in {"refund", "escrow_refund"} : <<o, a, "credit", b>> \in ledger
  /\ deleted' = deleted \cup {o}
  /\ UNCHANGED <<lifeVars, moneyVars, outside, work, shortfall, anomaly>>

\* The handlers that move only the row; a deleted row is found by none.
MoveRow(o) ==
  /\ \/ CreateOrder(o)
     \/ CloseOrder(o)
     \/ ShipOrder(o)
     \/ o \notin deleted /\ RequestRefund(o)
     \/ RejectRefundRead(o)
     \/ \E s \in RefundAllowedFrom : RejectRefundGivesUp(o, s)
  /\ OnlyOrder /\ UNCHANGED work

FundsNext ==
  \/ \E o \in Orders :
       \/ MoveRow(o) \/ PayByWallet(o) \/ PayExternal(o)
       \/ CompleteOrder(o) \/ RefundApproved(o) \/ DeleteOrder(o)
       \/ \E s \in RefundAllowedFrom : RefundRejected(o, s)
       \/ SettleCompletedOrder(o) \/ SettleRefund(o) \/ SettleRefundShort(o)
       \/ RecordRefundShortfall(o) \/ ShortfallLost(o)
       \/ \E k \in {"settle", "refund"} : Compensate(k, o) \/ WorkLost(k, o)
       \/ \E to \in {"reviewing", "resolved", "refunded", "rejected"} : OperatorDecides(o, to)
  \/ \E u \in Users, d \in {-1, 1} : MovesOutside(u, d)

FundsSpec == FundsInit /\ [][FundsNext]_fundsVars

\* The cron scans again and again, and a settlement that is called for again
\* and again is not cut short every time.  Users and operators owe nothing.
FundsFairness ==
  \A o \in Orders :
    /\ \A k \in {"settle", "refund"} : WF_fundsVars(Compensate(k, o))
    /\ SF_fundsVars(SettleCompletedOrder(o))
    /\ SF_fundsVars(SettleRefund(o) \/ SettleRefundShort(o))
    /\ SF_fundsVars(RecordRefundShortfall(o))

FundsFairSpec == FundsSpec /\ FundsFairness

-----------------------------------------------------------------------------
(* Where the ledger says the money of an order is *)

Escrowed(o) ==
  /\ <<o, "escrow", "credit", "order_clear">> \in ledger
  /\ \A b \in BizTypes : <<o, "escrow", "debit", b>> \notin ledger

WithSeller(o) ==
  /\ <<o, Seller[o], "credit", "order_settle">> \in ledger
  /\ <<o, Seller[o], "debit", "refund">> \notin ledger

Returned(o) ==
  \E b \in {"refund", "escrow_refund"} : <<o, Buyer[o], "credit", b>> \in ledger

Place == [o \in Orders |-> IF Returned(o) THEN "buyer"
                           ELSE IF WithSeller(o) THEN "seller"
                           ELSE IF Escrowed(o) THEN "escrow" ELSE "unpaid"]

EscrowOf == INSTANCE Escrow WITH place <- Place

\* The books move an order's money only as Escrow allows: it is paid out
\* once, and refunded once, whatever events are duplicated, late or replayed
\* by the compensation.
ImplementsEscrow == EscrowOf!Spec

\* The books and the clearing record, which decides where a refund is taken
\* from, agree; the money of an order is never in two places.
MoneyInOnePlace ==
  \A o \in Orders :
    /\ clearing[o] = "cleared"  <=> Escrowed(o)
    /\ clearing[o] = "settled"  <=> WithSeller(o)
    /\ clearing[o] = "refunded" <=> Returned(o)

\* The money follows the goods: the seller is paid only for goods that were
\* sent, the buyer gets back only what was approved, and every paid order that
\* is not at its end has its money somewhere.
MoneyFollowsOrder ==
  \A o \in Orders :
    /\ clearing[o] = "settled" => shipped[o]
    /\ clearing[o] = "refunded" => type[o] = "Refunded"
    /\ clearing[o] = "none" <=> type[o] \in {"None", "WaitPay", "Closed"}

\* users.money, which the settlements rewrite as a whole, is what the ledger
\* and the outside add up to, for each user and over all his orders.
WalletMatchesLedger ==
  \A u \in Users :
    wallet[u] = InitWallet + outside[u]
                + Cardinality({e \in ledger : e[2] = u /\ e[3] = "credit"})
                - Cardinality({e \in ledger : e[2] = u /\ e[3] = "debit"})

\* A row is deleted only when nothing more is to be done with its money:
\* the settlements look the order up and would leave the money for ever.
DeletedAtRest ==
  \A o \in deleted :
    \/ type[o] = "Closed" /\ clearing[o] = "none"
    \/ type[o] = "Completed" /\ clearing[o] = "settled"
    \/ type[o] = "Refunded" /\ clearing[o] = "refunded"

\* The seller of a completed order is paid, though the event was lost, as
\* long as the buyer does not ask for the money back.
SellerIsPaid ==
  \A o \in Orders :
    type[o] = "Completed" ~> clearing[o] = "settled" \/ type[o] # "Completed"

\* An approved refund reaches the buyer or the operators, and a refund that
\* they resolved is tried again.
RefundIsHandled ==
  \A o \in Orders :
    type[o] = "Refunded" ~> clearing[o] = "refunded" \/ anomaly[o] \in OpenAnomalies

\* A shortfall an operator settled offline or rejected is not refunded
\* automatically any more: what clearing/service.go says of it.
OfflineIsFinal ==
  [][\A o \in Orders : anomaly[o] \in {"refunded", "rejected"} => clearing'[o] = clearing[o]]_fundsVars
=============================================================================

---------------------------- MODULE PaymentBooks ----------------------------
(***************************************************************************)
(* The books an external payment ends in: the order it pays, the clearing  *)
(* record of that order (one, by unique index) and the anomalies, which    *)
(* the operators review by hand.  A receipt is money a provider has        *)
(* confirmed; its reference is unique per channel.                         *)
(*                                                                         *)
(* A settlement is a transaction that reads the order without a lock and   *)
(* then writes: the read is a step (the channel modules keep what it saw), *)
(* the writes and the commit are the operators of this module.             *)
(***************************************************************************)
EXTENDS Integers, FiniteSets

CONSTANTS MaxAttempts, \* Xcash invoices of the order
          PayFaults,   \* failures of the calls of the channels
          MaxRivals    \* bound: what others do to the order and its product

ASSUME AttemptsAssumption  == MaxAttempts \in Nat /\ MaxRivals \in Nat
ASSUME PayFaultsAssumption == PayFaults \subseteq {"db_error", "redis_error", "death"}

VARIABLES
  configured, \* the channels that have their environment variables
  payRow,     \* order.type: waiting for payment, paid or further, closed
  num,        \* product.num, in pieces of this order's size
  cleared,    \* payment_clearing of the order
  anomaly,    \* payment_anomaly by provider reference: its reason
  rivals      \* what others have done

booksVars == <<configured, payRow, num, cleared, anomaly, rivals>>

Channels == {"stripe", "web3", "xcash"}
Stripe   == <<"stripe", 1>>
Web3     == <<"web3", 1>>
Xcash(i) == <<"xcash", i>>
Attempts == 1..MaxAttempts
Receipts == {Stripe, Web3} \cup {Xcash(i) : i \in Attempts}
Nothing  == <<"none", 0>>
Wallet   == <<"wallet", 0>>

Reasons == {"duplicate", "amount", "high_risk", "fulfillment_failed"}

BooksTypeOK ==
  /\ configured \subseteq Channels
  /\ payRow \in {"WaitPay", "Paid", "Closed"}
  /\ num \in 0..1
  /\ cleared \in Receipts \cup {Nothing, Wallet}
  /\ anomaly \in [Receipts -> Reasons \cup {"none"}]
  /\ rivals \in 0..MaxRivals

BooksInit ==
  /\ configured \in SUBSET Channels
  /\ payRow = "WaitPay"
  /\ num \in 0..1 /\ rivals = 0
  /\ cleared = Nothing
  /\ anomaly = [r \in Receipts |-> "none"]

-----------------------------------------------------------------------------
(* What a transaction writes. *)

\* The insert waits for a transaction that has the key and then fails: not an
\* outcome isUnfulfillable knows, so the channel is asked to deliver again.
KeyTaken == cleared # Nothing

\* DeductStock or MarkOrderPaidWithCheck finds no row: retrying is no use.
isUnfulfillable == ~KeyTaken /\ (num = 0 \/ payRow # "WaitPay")

\* RecordClearedTx and finishPaymentConfirmationTx.
ClearAndConfirm(r) ==
  /\ ~KeyTaken /\ ~isUnfulfillable
  /\ cleared' = r /\ payRow' = "Paid" /\ num' = num - 1
  /\ UNCHANGED <<configured, anomaly, rivals>>

\* OnConflict DoNothing: the first reason stands.
RecordAnomaly(r, reason) ==
  /\ anomaly' = [anomaly EXCEPT ![r] = IF @ = "none" THEN reason ELSE @]
  /\ UNCHANGED <<configured, payRow, num, cleared, rivals>>

\* The order is not payable: this receipt paid it, or it is one too many.
RecordDuplicate(r) ==
  \/ cleared = r /\ UNCHANGED booksVars
  \/ cleared # r /\ RecordAnomaly(r, "duplicate")

Accounted(r) == cleared = r \/ anomaly[r] # "none"

-----------------------------------------------------------------------------
(* Everybody else. *)

Rival == rivals < MaxRivals /\ rivals' = rivals + 1

\* PayDown from the wallet, in one transaction.
PayDown ==
  /\ Rival /\ ~KeyTaken /\ ~isUnfulfillable
  /\ cleared' = Wallet /\ payRow' = "Paid" /\ num' = num - 1
  /\ UNCHANGED <<configured, anomaly>>

\* Another buyer takes the last piece, or the merchant restocks.
StockMoves ==
  /\ Rival /\ num' = 1 - num
  /\ UNCHANGED <<configured, payRow, cleared, anomaly>>

BooksNext == PayDown \/ StockMoves
=============================================================================

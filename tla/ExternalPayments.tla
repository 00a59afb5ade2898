-------------------------- MODULE ExternalPayments --------------------------
(***************************************************************************)
(* One order, the three external channels that can pay it, the wallet, and *)
(* CancelUnpaidOrder, which closes the order when it has seen no channel   *)
(* in use.  The check is made before the transaction that closes.          *)
(***************************************************************************)
EXTENDS StripePayment, Web3Payment, XcashPayment

VARIABLE closing  \* CancelUnpaidOrder has made its check

payVars == <<booksVars, stripeVars, web3Vars, xcashVars, closing>>

PaymentsTypeOK ==
  BooksTypeOK /\ StripeTypeOK /\ Web3TypeOK /\ XcashTypeOK /\ closing \in BOOLEAN

PaymentsInit ==
  BooksInit /\ StripeInit /\ Web3Init /\ XcashInit /\ closing = FALSE

-----------------------------------------------------------------------------
hasActivePaymentIntent ==
  \/ mark
  \/ parked # NoWallet
  \/ \E i \in Attempts : \/ intent[i] = "risk_pending"
                         \/ intent[i] = "waiting" /\ overdue[i] = "no"

\* The channels are asked; a failing question puts the closing off.
CancelChecked ==
  /\ ~closing /\ payRow = "WaitPay"
  /\ ~hasActivePaymentIntent
  /\ closing' = TRUE /\ Rival
  /\ UNCHANGED <<configured, payRow, num, cleared, anomaly, stripeVars, web3Vars, xcashVars>>

\* The transaction, which looks at the status alone.
CancelCommits ==
  /\ closing /\ closing' = FALSE
  /\ payRow' = IF payRow = "WaitPay" THEN "Closed" ELSE payRow
  /\ UNCHANGED <<configured, num, cleared, anomaly, rivals>>
  /\ UNCHANGED <<stripeVars, web3Vars, xcashVars>>

PaymentsNext ==
  \/ BooksNext  /\ UNCHANGED <<stripeVars, web3Vars, xcashVars, closing>>
  \/ StripeNext /\ UNCHANGED <<web3Vars, xcashVars, closing>>
  \/ Web3Next   /\ UNCHANGED <<stripeVars, xcashVars, closing>>
  \/ XcashNext  /\ UNCHANGED <<stripeVars, web3Vars, closing>>
  \/ CancelChecked
  \/ CancelCommits

PaymentsSpec == PaymentsInit /\ [][PaymentsNext]_payVars

-----------------------------------------------------------------------------
(* Properties *)

\* A provider is told that its notification has been dealt with only when the
\* money is in the books, as the payment of the order or as a case for review
\* (or, at Xcash, waits for its rating), whatever fails: the acknowledgements of
\* the consumer of web3.payment.confirmed, the receipts and answers of the Xcash
\* webhook, and those of Stripe's, but where a delivery was answered for the
\* sake of another one that had claimed the event.
AcknowledgedIsBooked ==
  /\ message = "acked" => Accounted(Web3)
  /\ \A i \in Attempts : receipt[i] \/ webhook[i] = "answered" =>
       Accounted(Xcash(i)) \/ intent[i] = "risk_pending"
  /\ event = "answered" => Accounted(Stripe) \/ relied

\* An Xcash intent says of its invoice what the books say: "completed" for the
\* one that paid the order, "anomaly" for one under review, and money that paid
\* the order is not up for repayment as a duplicate or as unfulfillable.
IntentMatchesBooks ==
  \A i \in Attempts :
    /\ intent[i] = "completed" => cleared = Xcash(i)
    /\ intent[i] = "anomaly" <=> anomaly[Xcash(i)] # "none"
    /\ cleared = Xcash(i) => /\ intent[i] \in {"completed", "anomaly"}
                             /\ anomaly[Xcash(i)] \notin {"duplicate", "fulfillment_failed"}

\* While nothing fails, a completed invoice that the shop knows is settled or
\* set aside, even if its webhook is lost, unless it was paid a day too late
\* or waits for a rating; a confirmed transfer is acknowledged or dead-lettered.
PaymentUnbooked ==
  \/ message = "queued"
  \/ \E i \in Attempts :
       /\ invoice[i].state = "completed" /\ intent[i] # "none" /\ overdue[i] # "late"
       /\ ~Accounted(Xcash(i)) /\ (RequireAML => invoice[i].risk # "none")

PaymentsBooked == (PayFaults = {} /\ PaymentUnbooked) ~> ~PaymentUnbooked
=============================================================================

---------------------------- MODULE XcashPayment ----------------------------
(***************************************************************************)
(* Xcash: one invoice at a time, a further one when the last has expired.  *)
(* A completed invoice is settled by a webhook or by a query (the buyer    *)
(* looks, or ReconcilePending goes through the open intents); both end in  *)
(* processConfirmedEvent, which locks the intent.  Queries may answer from *)
(* a cache.  Risk ratings come late and may get worse.                     *)
(***************************************************************************)
EXTENDS PaymentBooks

CONSTANTS Desks,      \* webhooks and queries that may be handled side by side
          RequireAML

ASSUME AMLAssumption == RequireAML \in BOOLEAN

VARIABLES
  invoice,  \* at Xcash
  webhook,  \* its notification: due until a delivery is answered with "ok"
  receipt,  \* xcash_webhook_receipt: the notification has been processed
  intent,   \* xcash_payment_intent: its status
  overdue,  \* expires_at has passed; the window of ReconcilePending as well
  buyer,    \* CreateCheckout
  desk

xcashVars == <<invoice, webhook, receipt, intent, overdue, buyer, desk>>

IdleDesk == [at |-> "idle"]
\* A webhook or a query that has just begun.
Case(i, by, risk) == [at |-> "query", i |-> i, by |-> by, saw |-> "none",
                      risk |-> risk, pays |-> FALSE]
InvoiceStates == {"none", "waiting", "expired", "completed"}
\* An amount or a detail that does not fit the order isolates a payment, whatever
\* its rating: it counts as the worst of them.
Risks == {"none", "low", "high", "amount"}
IntentStates == {"none", "waiting", "expired", "risk_pending", "completed", "anomaly"}

XcashTypeOK ==
  /\ invoice \in [Attempts -> [state : InvoiceStates, risk : Risks]]
  /\ webhook \in [Attempts -> {"none", "due", "answered"}]
  /\ receipt \in [Attempts -> BOOLEAN]
  /\ intent \in [Attempts -> IntentStates]
  /\ overdue \in [Attempts -> {"no", "expired", "late"}]
  /\ buyer \in [at : {"idle", "syncing", "create", "insert"}, attempt : 0..MaxAttempts]
  /\ desk \in [Desks -> {IdleDesk} \cup
        [at : {"query", "open", "completed", "commit", "isolate", "processed"},
         i : Attempts, by : {"webhook", "query"},
         saw : {"none", "waiting", "expired"}, risk : Risks, pays : BOOLEAN]]

XcashInit ==
  /\ invoice = [i \in Attempts |-> [state |-> "none", risk |-> "none"]]
  /\ webhook = [i \in Attempts |-> "none"]
  /\ receipt = [i \in Attempts |-> FALSE]
  /\ intent = [i \in Attempts |-> "none"]
  /\ overdue = [i \in Attempts |-> "no"]
  /\ buyer = [at |-> "idle", attempt |-> 0]
  /\ desk = [d \in Desks |-> IdleDesk]

-----------------------------------------------------------------------------
(* Xcash, and time. *)

AtXcash == UNCHANGED <<booksVars, receipt, intent, buyer, desk>>

InvoiceCompleted(i) ==
  /\ invoice[i].state \in {"waiting", "expired"}
  /\ \E risk \in Risks : invoice' = [invoice EXCEPT ![i] = [state |-> "completed", risk |-> risk]]
  /\ webhook' = [webhook EXCEPT ![i] = "due"]
  /\ AtXcash /\ UNCHANGED overdue

riskRank(risk) ==
  CASE risk = "none" -> 0 [] risk = "low" -> 1 [] risk = "high" -> 4 [] risk = "amount" -> 5

RiskRated(i) ==
  /\ invoice[i].state = "completed"
  /\ \E risk \in {"low", "high"} :
       /\ riskRank(risk) > riskRank(invoice[i].risk)
       /\ invoice' = [invoice EXCEPT ![i].risk = risk]
  /\ AtXcash /\ UNCHANGED <<webhook, overdue>>

InvoiceExpires(i) ==
  /\ overdue[i] = "no" /\ invoice[i].state # "none"
  /\ overdue' = [overdue EXCEPT ![i] = "expired"]
  /\ invoice' = [invoice EXCEPT ![i].state = IF @ = "waiting" THEN "expired" ELSE @]
  /\ AtXcash /\ UNCHANGED webhook

\* A day later; the queries of a day have seen what had been paid by then.
WindowCloses(i) ==
  /\ overdue[i] = "expired" /\ invoice[i].state = "expired"
  /\ \A d \in Desks : desk[d] = IdleDesk
  /\ overdue' = [overdue EXCEPT ![i] = "late"]
  /\ AtXcash /\ UNCHANGED <<invoice, webhook>>

-----------------------------------------------------------------------------
(* CreateCheckout *)

AtBuyer == UNCHANGED <<booksVars, webhook, receipt, overdue>>

latest == CHOOSE i \in 0..MaxAttempts :
            /\ i = 0 \/ intent[i] # "none"
            /\ \A j \in Attempts : j > i => intent[j] = "none"

\* An invoice that is waiting or settled is returned; one whose time is up is
\* queried first.
XcashChecked(d) ==
  LET status == IF latest = 0 THEN "expired" ELSE intent[latest]
      due == status = "waiting" /\ overdue[latest] # "no"
  IN
  /\ "xcash" \in configured /\ buyer.at = "idle" /\ payRow = "WaitPay"
  /\ \/ /\ status = "expired" /\ latest < MaxAttempts
        /\ buyer' = [at |-> "create", attempt |-> latest + 1] /\ UNCHANGED desk
     \/ /\ due /\ desk[d] = IdleDesk
        /\ buyer' = [at |-> "syncing", attempt |-> latest]
        /\ desk' = [desk EXCEPT ![d] = Case(latest, "query", "none")]
  /\ AtBuyer /\ UNCHANGED <<invoice, intent>>

Synced ==
  LET i == buyer.attempt IN
  /\ buyer.at = "syncing"
  /\ \/ /\ intent[i] = "expired" /\ i < MaxAttempts
        /\ buyer' = [at |-> "create", attempt |-> i + 1]
     \/ buyer' = [at |-> "idle", attempt |-> 0]
  /\ AtBuyer /\ UNCHANGED <<invoice, intent, desk>>

\* The same out_no returns the same invoice, whatever has become of it.
CreateInvoice ==
  LET i == buyer.attempt IN
  /\ buyer.at = "create" /\ buyer' = [buyer EXCEPT !.at = "insert"]
  /\ invoice' = [invoice EXCEPT ![i].state = IF @ = "none" THEN "waiting" ELSE @]
  /\ AtBuyer /\ UNCHANGED <<intent, desk>>

\* A completed invoice is stored as waiting; the query that follows settles it.
InsertIntent ==
  LET i == buyer.attempt IN
  /\ buyer.at = "insert" /\ buyer' = [at |-> "idle", attempt |-> 0]
  /\ \/ intent' = [intent EXCEPT ![i] =
            IF @ # "none" THEN @
            ELSE IF invoice[i].state = "expired" THEN "expired" ELSE "waiting"]
     \/ "db_error" \in PayFaults /\ UNCHANGED intent
  /\ AtBuyer /\ UNCHANGED <<invoice, desk>>

-----------------------------------------------------------------------------
(* HandleWebhook, GetCheckout, ReconcilePending *)

AtDesk == UNCHANGED <<invoice, overdue, buyer>>

\* An error: a webhook is answered with it, a query is made again some time.
DeskGivesUp(d) == desk' = [desk EXCEPT ![d] = IdleDesk]

\* A query is over, a webhook has still to be answered.
DeskDone(d) ==
  desk' = [desk EXCEPT ![d] = IF @.by = "query" THEN IdleDesk
                              ELSE [Case(@.i, @.by, "none") EXCEPT !.at = "processed"]]

DeskIsolates(d) ==
  desk' = [desk EXCEPT ![d] = [Case(@.i, @.by, "none") EXCEPT !.at = "isolate"]]

Starts(d, i, by, risk) ==
  desk[d] = IdleDesk /\ desk' = [desk EXCEPT ![d] = Case(i, by, risk)]

\* The signed event carries the risk as it is now.
WebhookArrives(d, i) ==
  /\ webhook[i] = "due" /\ Starts(d, i, "webhook", invoice[i].risk)
  /\ AtDesk /\ UNCHANGED <<booksVars, webhook, receipt, intent>>

\* The buyer asks for the last intent; the cron for the open ones.
QueryStarts(d, i) ==
  /\ \/ intent[i] \in {"waiting", "risk_pending"}
     \/ intent[i] = "expired" /\ (overdue[i] # "late" \/ i = latest)
  /\ Starts(d, i, "query", "none")
  /\ AtDesk /\ UNCHANGED <<booksVars, webhook, receipt, intent>>

\* stricterXcashRiskSnapshot: a cached rating never softens the signed one.
stricter(current, queried) == IF riskRank(queried) > riskRank(current) THEN queried ELSE current

\* GetInvoice, and mergeCompletedInvoiceIntoEvent for a completed one.
GetInvoice(d) ==
  LET inv  == invoice[desk[d].i]
      risk == stricter(desk[d].risk, inv.risk)
  IN
  /\ desk[d].at = "query"
  /\ desk' = IF inv.state = "completed"
               THEN [desk EXCEPT ![d] = [@ EXCEPT !.at = "completed", !.risk = risk]]
               ELSE [desk EXCEPT ![d] = [@ EXCEPT !.at = "open", !.saw = inv.state]]
  /\ AtDesk /\ UNCHANGED <<booksVars, webhook, receipt, intent>>

\* A cached answer is older: before the payment, or before the rating.
GetCachedInvoice(d) ==
  LET inv  == invoice[desk[d].i]
      risk == IF inv.risk = "amount" THEN "amount" ELSE desk[d].risk
  IN
  /\ desk[d].at = "query" /\ inv.state = "completed"
  /\ \/ desk' = [desk EXCEPT ![d] = [@ EXCEPT !.at = "open", !.saw = "waiting"]]
     \/ desk' = [desk EXCEPT ![d] = [@ EXCEPT !.at = "completed", !.risk = risk]]
  /\ AtDesk /\ UNCHANGED <<booksVars, webhook, receipt, intent>>

Locked(i) == \E d \in Desks : desk[d].at = "commit" /\ desk[d].i = i

\* The conditional UPDATE of an invoice that is not completed yet; a webhook
\* is refused then.
ObserveOpen(d) ==
  LET i == desk[d].i
      open == desk[d].by = "query" /\ intent[i] \in {"waiting", "expired"} IN
  /\ desk[d].at = "open" /\ ~Locked(i)
  /\ DeskGivesUp(d)
  /\ intent' = [intent EXCEPT ![i] = IF open THEN desk[d].saw ELSE @]
  /\ AtDesk /\ UNCHANGED <<booksVars, webhook, receipt>>

\* The intent is locked, the order is not.  A notification that has been
\* processed is skipped; without its intent it is refused.
LockIntent(d) ==
  LET i == desk[d].i IN
  /\ desk[d].at = "completed" /\ ~Locked(i)
  /\ IF desk[d].by = "webhook" /\ receipt[i] THEN DeskDone(d)
     ELSE IF intent[i] = "none" THEN DeskGivesUp(d)
     ELSE desk' = [desk EXCEPT ![d] = [@ EXCEPT !.at = "commit",
                                                !.pays = (payRow = "WaitPay")]]
  /\ AtDesk /\ UNCHANGED <<booksVars, webhook, receipt, intent>>

reason(d) == CASE desk[d].risk = "amount" -> "amount"
               [] desk[d].risk = "high"   -> "high_risk"
               [] OTHER -> "none"

SetIntent(d, status) == intent' = [intent EXCEPT ![desk[d].i] = status]

Committed(d) ==
  /\ desk[d].at = "commit" /\ DeskDone(d)
  /\ receipt' = [receipt EXCEPT ![desk[d].i] = @ \/ desk[d].by = "webhook"]

RolledBack == UNCHANGED <<booksVars, receipt, intent>>

\* What an intent that has been settled or set aside allows.
CommitSettled(d) ==
  LET i == desk[d].i IN
  /\ Committed(d)
  /\ \/ intent[i] = "anomaly" /\ UNCHANGED <<booksVars, intent>>
     \/ /\ intent[i] = "completed" /\ reason(d) # "none"
        /\ RecordAnomaly(Xcash(i), reason(d)) /\ SetIntent(d, "anomaly")
     \/ /\ intent[i] = "completed" /\ reason(d) = "none"
        /\ RecordDuplicate(Xcash(i)) /\ UNCHANGED intent
  /\ AtDesk /\ UNCHANGED webhook

Unsettled(d) == intent[desk[d].i] \notin {"anomaly", "completed"}

CommitQuarantine(d) ==
  LET i == desk[d].i IN
  /\ Committed(d) /\ Unsettled(d)
  /\ reason(d) # "none"
  /\ RecordAnomaly(Xcash(i), reason(d)) /\ SetIntent(d, "anomaly")
  /\ AtDesk /\ UNCHANGED webhook

Sound(d) == Unsettled(d) /\ reason(d) = "none"
RiskOpen(d) == RequireAML /\ desk[d].risk # "low"

CommitRiskPending(d) ==
  /\ Committed(d) /\ Sound(d)
  /\ RiskOpen(d)
  /\ SetIntent(d, "risk_pending")
  /\ AtDesk /\ UNCHANGED <<booksVars, webhook>>

\* Mutant: an order that is not payable counts as paid by this invoice.
MutCommitPayment(d) ==
  LET i == desk[d].i IN
  /\ desk[d].at = "commit" /\ Sound(d) /\ ~RiskOpen(d)
  /\ \/ ~desk[d].pays /\ Committed(d) /\ RecordDuplicate(Xcash(i)) /\ SetIntent(d, "completed")
     \/ desk[d].pays /\ ClearAndConfirm(Xcash(i)) /\ SetIntent(d, "completed") /\ Committed(d)
     \/ desk[d].pays /\ isUnfulfillable /\ DeskIsolates(d) /\ RolledBack
  /\ AtDesk /\ UNCHANGED webhook

CommitPayment(d) ==
  LET i    == desk[d].i
      pays == desk[d].pays
  IN
  /\ desk[d].at = "commit" /\ Sound(d) /\ ~RiskOpen(d)
  /\ \/ /\ ~pays /\ Committed(d)
        /\ RecordDuplicate(Xcash(i))
        /\ SetIntent(d, IF cleared = Xcash(i) THEN "completed" ELSE "anomaly")
     \/ pays /\ ClearAndConfirm(Xcash(i)) /\ SetIntent(d, "completed") /\ Committed(d)
     \/ pays /\ isUnfulfillable /\ DeskIsolates(d) /\ RolledBack
     \/ pays /\ KeyTaken /\ DeskGivesUp(d) /\ RolledBack
  /\ AtDesk /\ UNCHANGED webhook

CommitFails(d) ==
  /\ "db_error" \in PayFaults /\ desk[d].at = "commit"
  /\ DeskGivesUp(d) /\ RolledBack
  /\ AtDesk /\ UNCHANGED webhook

\* A transaction of its own, under the same lock.
XcashUnfulfillable(d) ==
  LET i == desk[d].i IN
  /\ desk[d].at = "isolate" /\ ~Locked(i)
  /\ \/ /\ Unsettled(d) /\ DeskDone(d)
        /\ RecordAnomaly(Xcash(i), "fulfillment_failed") /\ SetIntent(d, "anomaly")
     \/ ~Unsettled(d) /\ DeskDone(d) /\ UNCHANGED <<booksVars, intent>>
     \/ "db_error" \in PayFaults /\ DeskGivesUp(d) /\ UNCHANGED <<booksVars, intent>>
  /\ AtDesk /\ UNCHANGED <<webhook, receipt>>

\* "ok", which Xcash may not get to see.
DeskAnswers(d) ==
  /\ desk[d].at = "processed" /\ DeskGivesUp(d)
  /\ \/ /\ webhook[desk[d].i] = "due"
        /\ webhook' = [webhook EXCEPT ![desk[d].i] = "answered"]
     \/ UNCHANGED webhook
  /\ AtDesk /\ UNCHANGED <<booksVars, receipt, intent>>

DeskDies(d) ==
  /\ "death" \in PayFaults /\ desk[d] # IdleDesk
  /\ desk' = [desk EXCEPT ![d] = IdleDesk]
  /\ AtDesk /\ UNCHANGED <<booksVars, webhook, receipt, intent>>

DeskWorks(d) ==
  \/ ObserveOpen(d) \/ LockIntent(d) \/ CommitSettled(d)
  \/ CommitQuarantine(d) \/ CommitRiskPending(d) \/ CommitPayment(d)
  \/ XcashUnfulfillable(d) \/ DeskAnswers(d)

XcashNext ==
  \/ \E i \in Attempts : \/ InvoiceCompleted(i) \/ RiskRated(i) \/ InvoiceExpires(i)
                         \/ WindowCloses(i)
  \/ Synced \/ CreateInvoice \/ InsertIntent
  \/ \E d \in Desks : XcashChecked(d)
  \/ \E d \in Desks, i \in Attempts : WebhookArrives(d, i) \/ QueryStarts(d, i)
  \/ \E d \in Desks : \/ GetInvoice(d) \/ GetCachedInvoice(d) \/ DeskWorks(d)
                      \/ CommitFails(d) \/ DeskDies(d)
=============================================================================

--------------------------- MODULE StripePayment ----------------------------
(***************************************************************************)
(* Stripe: CreateCheckout marks the order in Redis and opens a session,    *)
(* the buyer pays in it, and the webhook claims the event in Redis and     *)
(* settles.  Stripe delivers the event again until a delivery is answered  *)
(* with success; a delivery that takes too long is repeated while the      *)
(* first goes on.  The claim outlives these retries.  A delivery that      *)
(* fails and cannot take its claim back leaves the retries answered        *)
(* without effect: relied says so, whatever made it fail.                  *)
(***************************************************************************)
EXTENDS PaymentBooks

CONSTANT Hooks  \* deliveries that may be handled side by side

VARIABLES
  maker,   \* CreateCheckout
  window,  \* the order is young enough for a session
  mark,    \* StripeCheckoutKey
  session, \* at Stripe
  exact,   \* it was paid with the amount and in the currency of the order
  event,   \* checkout.session.completed: due until a delivery is answered
  claim,   \* stripe:event:<id>
  hook,    \* HandleWebhook
  relied   \* a delivery was answered because another had claimed the event,
           \* which was not in the books yet

stripeVars == <<maker, window, mark, session, exact, event, claim, hook, relied>>

IdleHook  == [at |-> "idle", seen |-> "none"]
HookStages == {"idle", "claim", "read", "write", "isolate", "release", "answer"}

StripeTypeOK ==
  /\ maker \in {"idle", "payable", "marked"}
  /\ window \in BOOLEAN /\ mark \in BOOLEAN /\ exact \in BOOLEAN /\ claim \in BOOLEAN
  /\ relied \in BOOLEAN
  /\ session \in {"none", "open", "paid", "ended"}
  /\ event \in {"none", "due", "answered"}
  /\ hook \in [Hooks -> [at : HookStages, seen : {"none", "WaitPay", "Paid", "Closed"}]]

StripeInit ==
  /\ maker = "idle" /\ window = TRUE /\ mark = FALSE
  /\ session = "none" /\ exact = FALSE
  /\ event = "none" /\ claim = FALSE /\ relied = FALSE
  /\ hook = [h \in Hooks |-> IdleHook]

-----------------------------------------------------------------------------
(* CreateCheckout *)

\* At least 31 minutes of the order's hour are left.
CheckoutChecked ==
  /\ "stripe" \in configured
  /\ maker = "idle" /\ payRow = "WaitPay" /\ window
  /\ maker' = "payable"
  /\ UNCHANGED <<booksVars, window, mark, session, exact, event, claim, hook, relied>>

CheckoutMarked ==
  /\ maker = "payable"
  /\ \/ maker' = "marked" /\ mark' = TRUE
     \/ "redis_error" \in PayFaults /\ maker' = "idle" /\ UNCHANGED mark
  /\ UNCHANGED <<booksVars, window, session, exact, event, claim, hook, relied>>

\* The idempotency key of the order: a second call finds the same session.
SessionOpened ==
  /\ maker = "marked" /\ maker' = "idle"
  /\ session' = IF session = "none" THEN "open" ELSE session
  /\ UNCHANGED <<booksVars, window, mark, exact, event, claim, hook, relied>>

SessionPaid ==
  /\ session = "open" /\ session' = "paid"
  /\ event' = "due" /\ exact' \in BOOLEAN
  /\ UNCHANGED <<booksVars, maker, window, mark, claim, hook, relied>>

\* The session and the mark end at the same time after the order.
WindowEnds ==
  /\ "stripe" \in configured /\ window /\ maker = "idle"
  /\ window' = FALSE /\ mark' = FALSE
  /\ session' = IF session = "open" THEN "ended" ELSE session
  /\ UNCHANGED <<booksVars, maker, exact, event, claim, hook, relied>>

-----------------------------------------------------------------------------
(* HandleWebhook *)

HookGoes(h, from, to) == hook[h].at = from /\ hook' = [hook EXCEPT ![h].at = to]

HookWaits == UNCHANGED <<maker, window, mark, session, exact>>
HookKeeps == HookWaits /\ UNCHANGED relied

HookArrives(h) ==
  /\ event = "due" /\ HookGoes(h, "idle", "claim")
  /\ HookKeeps /\ UNCHANGED <<booksVars, event, claim>>

\* SETNX; without Redis the conditions of the transaction have to do.
claimStripeEvent(h) ==
  /\ \/ ~claim /\ claim' = TRUE /\ HookGoes(h, "claim", "read") /\ UNCHANGED relied
     \/ /\ claim /\ HookGoes(h, "claim", "answer") /\ UNCHANGED claim
        /\ relied' = (relied \/ ~Accounted(Stripe))
     \/ /\ "redis_error" \in PayFaults
        /\ HookGoes(h, "claim", "read") /\ UNCHANGED <<claim, relied>>
  /\ HookWaits /\ UNCHANGED <<booksVars, event>>

StripeReadOrder(h) ==
  /\ hook[h].at = "read"
  /\ hook' = [hook EXCEPT ![h] = [at |-> "write", seen |-> payRow]]
  /\ HookKeeps /\ UNCHANGED <<booksVars, event, claim>>

settleStripeOrder(h) ==
  LET pays == hook[h].seen = "WaitPay" IN
  /\ \/ ~pays /\ HookGoes(h, "write", "answer") /\ RecordDuplicate(Stripe)
     \/ pays /\ ~exact /\ HookGoes(h, "write", "answer") /\ RecordAnomaly(Stripe, "amount")
     \/ pays /\ exact /\ HookGoes(h, "write", "answer") /\ ClearAndConfirm(Stripe)
     \/ /\ pays /\ exact /\ isUnfulfillable
        /\ HookGoes(h, "write", "isolate") /\ UNCHANGED booksVars
     \/ /\ pays /\ exact /\ KeyTaken
        /\ HookGoes(h, "write", "release") /\ UNCHANGED booksVars
     \/ /\ "db_error" \in PayFaults
        /\ HookGoes(h, "write", "release") /\ UNCHANGED booksVars
  /\ HookKeeps /\ UNCHANGED <<event, claim>>

\* recordUnfulfillable: a transaction of its own.
StripeUnfulfillable(h) ==
  /\ \/ HookGoes(h, "isolate", "answer") /\ RecordAnomaly(Stripe, "fulfillment_failed")
     \/ /\ "db_error" \in PayFaults
        /\ HookGoes(h, "isolate", "release") /\ UNCHANGED booksVars
  /\ HookKeeps /\ UNCHANGED <<event, claim>>

\* A failure that passes: the claim is given back and Stripe is told to try again.
releaseStripeEvent(h) ==
  /\ HookGoes(h, "release", "idle")
  /\ claim' = FALSE \/ ("redis_error" \in PayFaults /\ UNCHANGED claim)
  /\ HookKeeps /\ UNCHANGED <<booksVars, event>>

\* 200, which Stripe may not get to see.
HookAnswers(h) ==
  /\ hook[h].at = "answer" /\ hook' = [hook EXCEPT ![h] = IdleHook]
  /\ event' = "answered" \/ UNCHANGED event
  /\ HookKeeps /\ UNCHANGED <<booksVars, claim>>

HookDies(h) ==
  /\ "death" \in PayFaults /\ hook[h].at # "idle"
  /\ hook' = [hook EXCEPT ![h] = IdleHook]
  /\ HookKeeps /\ UNCHANGED <<booksVars, event, claim>>

HookWorks(h) ==
  \/ claimStripeEvent(h) \/ StripeReadOrder(h) \/ settleStripeOrder(h)
  \/ StripeUnfulfillable(h) \/ releaseStripeEvent(h) \/ HookAnswers(h)

StripeNext ==
  \/ CheckoutChecked \/ CheckoutMarked \/ SessionOpened \/ SessionPaid \/ WindowEnds
  \/ \E h \in Hooks : HookArrives(h) \/ HookWorks(h) \/ HookDies(h)
=============================================================================

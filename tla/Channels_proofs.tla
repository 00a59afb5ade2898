--------------------------- MODULE Channels_proofs ---------------------------
(***************************************************************************)
(* Proofs about ExternalPayments, EventDelivery and ChainListener, which a *)
(* payment from outside passes through.  Payments: types, the books        *)
(* against the intents of Xcash, and that no provider is told its          *)
(* notification is dealt with before the money is booked, for any number   *)
(* of invoices, deliveries, wallets and retries, any prices and every set  *)
(* of failures.  Delivery: no event is lost between the outbox and its     *)
(* consumer, and payments on the chain are announced when they are final,  *)
(* for any number of events, publishers, copies and blocks, any levels of  *)
(* retries and any depths.                                                 *)
(***************************************************************************)
EXTENDS ExternalPayments, EventDelivery, ChainListener,
        WellFoundedInduction, FiniteSetTheorems, TLAPS

-----------------------------------------------------------------------------
(* External payments                                                       *)

PaymentAssumptions ==
  /\ MaxAttempts \in Nat /\ MaxRivals \in Nat /\ Web3Tries \in Nat
  /\ RequireAML \in BOOLEAN

LEMMA Assumed == PaymentAssumptions
BY AttemptsAssumption, TriesAssumption, AMLAssumption DEF PaymentAssumptions

\* The last attempt that has an intent is defined: among the numbers above
\* which there is none, there is a least one.
LEMMA LatestDefined ==
  ASSUME intent \in [Attempts -> IntentStates]
  PROVE  /\ latest \in 0..MaxAttempts
         /\ latest = 0 \/ intent[latest] # "none"
<1> DEFINE None(n) == \A j \in Attempts : j > n => intent[j] = "none"
           T == {n \in Nat : None(n)}
<1> USE Assumed DEF PaymentAssumptions, Attempts
<1>1. MaxAttempts \in T
  OBVIOUS
<1>2. PICK m \in T : \A n \in T : ~ (<<n, m>> \in OpToRel(<, Nat))
  <2> HIDE DEF None
  <2> QED BY <1>1, WFMin, NatLessThanWellFounded
<1>3. \A n \in T : ~ (n < m)
  BY <1>2 DEF OpToRel
<1>4. m \in 0..MaxAttempts
  BY <1>1, <1>3
<1>5. m = 0 \/ intent[m] # "none"
  <2> SUFFICES ASSUME m # 0 PROVE intent[m] # "none"
    OBVIOUS
  <2>1. m - 1 \in Nat /\ m - 1 \notin T
    BY <1>3
  <2>2. PICK j \in Attempts : j > m - 1 /\ intent[j] # "none"
    BY <2>1
  <2> QED BY <2>2
<1> QED
  BY <1>4, <1>5 DEF latest

-----------------------------------------------------------------------------
LEMMA BooksTypeStep ==
  ASSUME BooksTypeOK, BooksNext
  PROVE  BooksTypeOK'
BY Assumed DEF PaymentAssumptions, BooksTypeOK, BooksNext, PayDown, StockMoves, Rival,
   KeyTaken, isUnfulfillable

\* What a transaction writes keeps the types of the books.
LEMMA WritesTyped ==
  ASSUME BooksTypeOK, NEW r \in Receipts
  PROVE  /\ ClearAndConfirm(r) => BooksTypeOK'
         /\ \A why \in Reasons : RecordAnomaly(r, why) => BooksTypeOK'
         /\ RecordDuplicate(r) => BooksTypeOK'
         /\ UNCHANGED booksVars => BooksTypeOK'
<1> USE DEF BooksTypeOK
<1>1. ClearAndConfirm(r) => BooksTypeOK'
  BY DEF ClearAndConfirm, KeyTaken, isUnfulfillable
<1>2. ASSUME NEW why \in Reasons, RecordAnomaly(r, why) PROVE BooksTypeOK'
  BY <1>2 DEF RecordAnomaly
<1>3. UNCHANGED booksVars => BooksTypeOK'
  BY DEF booksVars
<1>4. "duplicate" \in Reasons
  BY DEF Reasons
<1> QED
  BY <1>1, <1>2, <1>3, <1>4 DEF RecordDuplicate

LEMMA StripeIsReceipt == Stripe \in Receipts /\ Web3 \in Receipts
BY DEF Receipts

LEMMA StripeTypeStep ==
  ASSUME BooksTypeOK, StripeTypeOK, StripeNext
  PROVE  BooksTypeOK' /\ StripeTypeOK'
<1> USE StripeIsReceipt DEF StripeTypeOK, HookStages, IdleHook, HookGoes, HookWaits, HookKeeps
<1>1. CASE CheckoutChecked \/ CheckoutMarked \/ SessionOpened \/ SessionPaid \/ WindowEnds
  BY <1>1, WritesTyped, ZenonT(60) DEF CheckoutChecked, CheckoutMarked, SessionOpened, SessionPaid, WindowEnds
<1>2. ASSUME NEW h \in Hooks, HookArrives(h) \/ claimStripeEvent(h)
      PROVE  BooksTypeOK' /\ StripeTypeOK'
  <2>1. BooksTypeOK'
    BY <1>2, WritesTyped DEF HookArrives, claimStripeEvent
  <2>2. hook' \in [Hooks -> [at : HookStages, seen : {"none", "WaitPay", "Paid", "Closed"}]]
    BY <1>2 DEF HookArrives, claimStripeEvent
  <2>3. relied' \in BOOLEAN
    BY <1>2 DEF HookArrives, claimStripeEvent
  <2> QED BY <1>2, <2>1, <2>2, <2>3, ZenonT(60) DEF HookArrives, claimStripeEvent
<1>3. ASSUME NEW h \in Hooks, StripeReadOrder(h)
      PROVE  BooksTypeOK' /\ StripeTypeOK'
  <2>1. BooksTypeOK'
    BY <1>3, WritesTyped DEF StripeReadOrder
  <2>2. payRow \in {"WaitPay", "Paid", "Closed"}
    BY DEF BooksTypeOK
  <2> QED BY <1>3, <2>1, <2>2 DEF StripeReadOrder
<1>4. ASSUME NEW h \in Hooks, settleStripeOrder(h)
      PROVE  BooksTypeOK' /\ StripeTypeOK'
  <2>1. "amount" \in Reasons BY DEF Reasons
  <2>2. BooksTypeOK'
    BY <1>4, <2>1, WritesTyped DEF settleStripeOrder
  <2> QED BY <1>4, <2>2 DEF settleStripeOrder
<1>5. ASSUME NEW h \in Hooks, StripeUnfulfillable(h)
      PROVE  BooksTypeOK' /\ StripeTypeOK'
  <2>1. "fulfillment_failed" \in Reasons BY DEF Reasons
  <2>2. BooksTypeOK'
    BY <1>5, <2>1, WritesTyped DEF StripeUnfulfillable
  <2> QED BY <1>5, <2>2 DEF StripeUnfulfillable
<1>6. ASSUME NEW h \in Hooks, releaseStripeEvent(h) \/ HookAnswers(h) \/ HookDies(h)
      PROVE  BooksTypeOK' /\ StripeTypeOK'
  <2>1. BooksTypeOK'
    BY <1>6, WritesTyped DEF releaseStripeEvent, HookAnswers, HookDies
  <2>2. hook' \in [Hooks -> [at : HookStages, seen : {"none", "WaitPay", "Paid", "Closed"}]]
    <3>1. IdleHook \in [at : HookStages, seen : {"none", "WaitPay", "Paid", "Closed"}]
      OBVIOUS
    <3> QED BY <1>6, <3>1 DEF releaseStripeEvent, HookAnswers, HookDies
  <2>3. event' \in {"none", "due", "answered"} /\ claim' \in BOOLEAN
    BY <1>6 DEF releaseStripeEvent, HookAnswers, HookDies
  <2> QED BY <1>6, <2>1, <2>2, <2>3 DEF releaseStripeEvent, HookAnswers, HookDies
<1> QED
  BY <1>1, <1>2, <1>3, <1>4, <1>5, <1>6 DEF StripeNext, HookWorks

LEMMA Web3TypeStep ==
  ASSUME BooksTypeOK, Web3TypeOK, Web3Next
  PROVE  BooksTypeOK' /\ Web3TypeOK'
<1> USE StripeIsReceipt, Assumed
    DEF PaymentAssumptions, Web3TypeOK, TakerStages, IdleTaker, TakerGoes, TakerKeeps,
        ParkKeeps, ReadFails
<1>1. CASE IssueNonce \/ NonceExpires \/ ParkChecked \/ ConsumeNonce \/ SetWeb3Pending
           \/ PendingExpires \/ TransferConfirmed
  BY <1>1, WritesTyped DEF IssueNonce, NonceExpires, ParkChecked, ConsumeNonce,
     SetWeb3Pending, PendingExpires, TransferConfirmed
<1>2. ASSUME NEW k \in Takers,
             TakerStarts(k) \/ IsProviderCleared(k) \/ HasProviderAnomaly(k) \/ DelWeb3Pending(k)
      PROVE  BooksTypeOK' /\ Web3TypeOK'
  BY <1>2, WritesTyped, ZenonT(60) DEF TakerStarts, IsProviderCleared, HasProviderAnomaly, DelWeb3Pending
<1>3. ASSUME NEW k \in Takers, verifyBuyerBinding(k)
      PROVE  BooksTypeOK' /\ Web3TypeOK'
  <2>1. BooksTypeOK'
    BY <1>3, WritesTyped DEF verifyBuyerBinding
  <2>2. taker' \in [Takers -> [at : TakerStages, pays : BOOLEAN]]
    <3>1. \A s \in TakerStages, b \in BOOLEAN :
            [at |-> s, pays |-> b] \in [at : TakerStages, pays : BOOLEAN]
      OBVIOUS
    <3>2. CASE taker' = [taker EXCEPT ![k] = [at |-> "write", pays |-> payRow = "WaitPay"]]
      <4>1. [at |-> "write", pays |-> payRow = "WaitPay"] \in [at : TakerStages, pays : BOOLEAN]
        OBVIOUS
      <4> QED BY <3>2, <4>1
    <3>3. ASSUME NEW s \in TakerStages, TakerGoes(k, "bind", s)
          PROVE  taker' \in [Takers -> [at : TakerStages, pays : BOOLEAN]]
      BY <3>1, <3>3, ZenonT(60)
    <3> HIDE DEF TakerGoes
    <3> QED BY <1>3, <3>2, <3>3 DEF verifyBuyerBinding
  <2> QED BY <1>3, <2>1, <2>2 DEF verifyBuyerBinding
<1>4. ASSUME NEW k \in Takers, SettleConfirmedOrder(k)
      PROVE  BooksTypeOK' /\ Web3TypeOK'
  <2>1. BooksTypeOK'
    BY <1>4, WritesTyped DEF SettleConfirmedOrder
  <2> QED BY <1>4, <2>1, ZenonT(60) DEF SettleConfirmedOrder
<1>5. ASSUME NEW k \in Takers, Web3Unfulfillable(k)
      PROVE  BooksTypeOK' /\ Web3TypeOK'
  <2>1. "fulfillment_failed" \in Reasons BY DEF Reasons
  <2>2. BooksTypeOK'
    BY <1>5, <2>1, WritesTyped DEF Web3Unfulfillable
  <2> QED BY <1>5, <2>2, ZenonT(60) DEF Web3Unfulfillable
<1>6. ASSUME NEW k \in Takers, TakerEnds(k) \/ TakerDies(k)
      PROVE  BooksTypeOK' /\ Web3TypeOK'
  <2>1. BooksTypeOK'
    BY <1>6, WritesTyped DEF TakerEnds, TakerDies
  <2>2. taker' \in [Takers -> [at : TakerStages, pays : BOOLEAN]]
    <3>1. IdleTaker \in [at : TakerStages, pays : BOOLEAN]
      OBVIOUS
    <3> QED BY <1>6, <3>1 DEF TakerEnds, TakerDies
  <2>3. message' \in {"none", "queued", "acked", "dead"} /\ tries' \in 0..Web3Tries
    BY <1>6 DEF TakerEnds, TakerDies
  <2> QED BY <1>6, <2>1, <2>2, <2>3 DEF TakerEnds, TakerDies
<1> QED
  BY <1>1, <1>2, <1>3, <1>4, <1>5, <1>6 DEF Web3Next, TakerWorks

LEMMA XcashTypeStep ==
  ASSUME BooksTypeOK, XcashTypeOK, XcashNext
  PROVE  BooksTypeOK' /\ XcashTypeOK'
<1> USE Assumed DEF PaymentAssumptions, XcashTypeOK
<1> DEFINE
     Busy == [at : {"query", "open", "completed", "commit", "isolate", "processed"},
              i : Attempts, by : {"webhook", "query"},
              saw : {"none", "waiting", "expired"}, risk : Risks, pays : BOOLEAN]
     XcashBut == /\ invoice' \in [Attempts -> [state : InvoiceStates, risk : Risks]]
                 /\ webhook' \in [Attempts -> {"none", "due", "answered"}]
                 /\ receipt' \in [Attempts -> BOOLEAN]
                 /\ intent' \in [Attempts -> IntentStates]
                 /\ overdue' \in [Attempts -> {"no", "expired", "late"}]
                 /\ buyer' \in [at : {"idle", "syncing", "create", "insert"}, attempt : 0..MaxAttempts]
     DeskOK == desk' \in [Desks -> {IdleDesk} \cup Busy]
<1>1. ASSUME NEW i \in Attempts,
             InvoiceCompleted(i) \/ RiskRated(i) \/ InvoiceExpires(i) \/ WindowCloses(i)
      PROVE  BooksTypeOK' /\ XcashTypeOK'
  <2>1. BooksTypeOK' /\ DeskOK
    BY <1>1, WritesTyped, StripeIsReceipt
       DEF InvoiceCompleted, RiskRated, InvoiceExpires, WindowCloses, AtXcash
  <2>2. XcashBut
    <3>1. CASE InvoiceCompleted(i)
      <4>1. \A risk \in Risks : [state |-> "completed", risk |-> risk] \in [state : InvoiceStates, risk : Risks]
        BY DEF InvoiceStates
      <4> QED BY <1>1, <3>1, <4>1 DEF InvoiceCompleted, AtXcash
    <3>2. CASE RiskRated(i)
      BY <1>1, <3>2 DEF RiskRated, AtXcash, Risks
    <3>3. CASE InvoiceExpires(i)
      BY <1>1, <3>3 DEF InvoiceExpires, AtXcash, InvoiceStates
    <3>4. CASE WindowCloses(i)
      BY <1>1, <3>4 DEF WindowCloses, AtXcash
    <3> QED BY <1>1, <3>1, <3>2, <3>3, <3>4
  <2> QED BY <2>1, <2>2
<1>2. CASE Synced \/ CreateInvoice \/ InsertIntent
  <2>1. BooksTypeOK' /\ DeskOK
    BY <1>2, WritesTyped, StripeIsReceipt DEF Synced, CreateInvoice, InsertIntent, AtBuyer
  <2>2. XcashBut
    BY <1>2, SMTT(60) DEF Synced, CreateInvoice, InsertIntent, AtBuyer, InvoiceStates, IntentStates
  <2> QED BY <2>1, <2>2
<1>3. ASSUME NEW d \in Desks, XcashChecked(d)
      PROVE  BooksTypeOK' /\ XcashTypeOK'
  <2>1. BooksTypeOK'
    BY <1>3, WritesTyped, StripeIsReceipt DEF XcashChecked, AtBuyer
  <2>2. latest \in 0..MaxAttempts
    BY LatestDefined
  <2>3. XcashBut
    <3> HIDE DEF latest
    <3> QED BY <1>3, <2>2 DEF XcashChecked, AtBuyer
  <2>4. DeskOK
    <3>1. CASE UNCHANGED desk
      BY <3>1
    <3>2. CASE latest # 0 /\ desk' = [desk EXCEPT ![d] = Case(latest, "query", "none")]
      <4>1. latest \in Attempts
        BY <2>2, <3>2 DEF Attempts
      <4>2. Case(latest, "query", "none") \in Busy
        BY <4>1 DEF Case, Risks
      <4> QED BY <3>2, <4>2
    <3> QED BY <1>3, <3>1, <3>2 DEF XcashChecked
  <2> QED BY <2>1, <2>3, <2>4
<1>4. ASSUME NEW d \in Desks, NEW i \in Attempts, WebhookArrives(d, i) \/ QueryStarts(d, i)
      PROVE  BooksTypeOK' /\ XcashTypeOK'
  <2>1. BooksTypeOK' /\ XcashBut
    BY <1>4, WritesTyped, StripeIsReceipt DEF WebhookArrives, QueryStarts, AtDesk
  <2>2. invoice[i].risk \in Risks /\ "none" \in Risks
    BY DEF Risks
  <2>3. \A r \in Risks, by \in {"webhook", "query"} : Case(i, by, r) \in Busy
    BY DEF Case
  <2>4. DeskOK
    <3>1. desk \in [Desks -> {IdleDesk} \cup Busy]
      OBVIOUS
    <3> HIDE DEF Busy, XcashTypeOK
    <3> QED BY <3>1, <1>4, <2>2, <2>3 DEF WebhookArrives, QueryStarts, Starts
  <2> QED BY <2>1, <2>4
<1>5. ASSUME NEW d \in Desks, GetInvoice(d) \/ GetCachedInvoice(d)
      PROVE  BooksTypeOK' /\ XcashTypeOK'
  <2>1. BooksTypeOK' /\ XcashBut
    BY <1>5, WritesTyped, StripeIsReceipt DEF GetInvoice, GetCachedInvoice, AtDesk
  <2>2. desk[d] \in Busy /\ invoice[desk[d].i] \in [state : InvoiceStates, risk : Risks]
    BY <1>5 DEF GetInvoice, GetCachedInvoice, IdleDesk
  <2>3. DeskOK
    <3>1. \E c \in Busy : desk' = [desk EXCEPT ![d] = c]
      <4>1. \A r \in Risks : [desk[d] EXCEPT !.at = "completed", !.risk = r] \in Busy
        BY <2>2
      <4>2. \A s \in {"none", "waiting", "expired"} :
              [desk[d] EXCEPT !.at = "open", !.saw = s] \in Busy
        BY <2>2
      <4>3. desk[d].risk \in Risks /\ stricter(desk[d].risk, invoice[desk[d].i].risk) \in Risks
        BY <2>2 DEF stricter
      <4>4. "amount" \in Risks
        BY DEF Risks
      <4>0. desk[d].saw \in {"none", "waiting", "expired"} /\ invoice[desk[d].i].state \in InvoiceStates
        BY <2>2
      <4> HIDE DEF Busy, XcashTypeOK
      <4>5. CASE GetInvoice(d)
        <5> DEFINE r == stricter(desk[d].risk, invoice[desk[d].i].risk)
                   s == invoice[desk[d].i].state
        <5>1. [desk[d] EXCEPT !.at = "completed", !.risk = r] \in Busy
          BY <4>1, <4>3
        <5>2. s # "completed" => [desk[d] EXCEPT !.at = "open", !.saw = s] \in Busy
          BY <4>0, <4>2 DEF InvoiceStates
        <5>3. \/ desk' = [desk EXCEPT ![d] = [desk[d] EXCEPT !.at = "completed", !.risk = r]]
              \/ s # "completed" /\ desk' = [desk EXCEPT ![d] = [desk[d] EXCEPT !.at = "open", !.saw = s]]
          BY <4>5, Zenon DEF GetInvoice
        <5> QED BY <5>1, <5>2, <5>3, Zenon
      <4>6. CASE GetCachedInvoice(d)
        <5> DEFINE r == IF invoice[desk[d].i].risk = "amount" THEN "amount" ELSE desk[d].risk
        <5>1. [desk[d] EXCEPT !.at = "completed", !.risk = r] \in Busy
          BY <4>1, <4>3, <4>4
        <5>2. [desk[d] EXCEPT !.at = "open", !.saw = "waiting"] \in Busy
          BY <4>2
        <5>3. \/ desk' = [desk EXCEPT ![d] = [desk[d] EXCEPT !.at = "completed", !.risk = r]]
              \/ desk' = [desk EXCEPT ![d] = [desk[d] EXCEPT !.at = "open", !.saw = "waiting"]]
          BY <4>6, Zenon DEF GetCachedInvoice
        <5> QED BY <5>1, <5>2, <5>3, Zenon
      <4> QED BY <1>5, <4>5, <4>6
    <3> QED BY <3>1
  <2> QED BY <2>1, <2>3
<1>6. ASSUME NEW d \in Desks, desk[d] \in Busy
      PROVE  /\ DeskGivesUp(d) => DeskOK
             /\ DeskDone(d) => DeskOK
             /\ DeskIsolates(d) => DeskOK
             /\ desk[d].i \in Attempts
  <2>0. desk[d].i \in Attempts /\ desk[d].by \in {"webhook", "query"} /\ "none" \in Risks
    BY <1>6 DEF Risks
  <2>1. Case(desk[d].i, desk[d].by, "none") \in Busy
    BY <2>0 DEF Case
  <2>2. ASSUME NEW s \in {"isolate", "processed"}
        PROVE  [Case(desk[d].i, desk[d].by, "none") EXCEPT !.at = s] \in Busy
    BY <2>1
  <2>3. desk \in [Desks -> {IdleDesk} \cup Busy]
    OBVIOUS
  <2> HIDE DEF Busy, XcashTypeOK
  <2> QED BY <2>0, <2>2, <2>3 DEF DeskGivesUp, DeskDone, DeskIsolates
<1>7. ASSUME NEW d \in Desks, desk[d].at # "idle"
      PROVE  desk[d] \in Busy
  BY <1>7 DEF IdleDesk
<1>8. ASSUME NEW d \in Desks, ObserveOpen(d) \/ LockIntent(d) \/ DeskAnswers(d) \/ DeskDies(d)
             \/ CommitFails(d)
      PROVE  BooksTypeOK' /\ XcashTypeOK'
  <2>1. desk[d] \in Busy
    BY <1>7, <1>8 DEF ObserveOpen, LockIntent, DeskAnswers, DeskDies, CommitFails
  <2>2. BooksTypeOK'
    BY <1>8, WritesTyped, StripeIsReceipt
       DEF ObserveOpen, LockIntent, DeskAnswers, DeskDies, CommitFails, AtDesk, RolledBack
  <2>3. XcashBut
    <3>1. desk[d].saw \in IntentStates
      BY <2>1 DEF IntentStates
    <3>2. CASE ObserveOpen(d)
      BY <2>1, <3>1, <3>2 DEF ObserveOpen, AtDesk
    <3>3. CASE DeskAnswers(d)
      BY <2>1, <3>3 DEF DeskAnswers, AtDesk
    <3> QED BY <1>8, <3>2, <3>3 DEF LockIntent, DeskDies, CommitFails, AtDesk, RolledBack
  <2>4. DeskOK
    <3>1. [desk[d] EXCEPT !.at = "commit", !.pays = (payRow = "WaitPay")] \in Busy
      BY <2>1
    <3>2. LockIntent(d) => DeskOK
      <4>1. CASE desk' = [desk EXCEPT ![d] = [desk[d] EXCEPT !.at = "commit",
                                                 !.pays = (payRow = "WaitPay")]]
        BY <3>1, <4>1
      <4> QED BY <1>6, <2>1, <4>1, Zenon DEF LockIntent
    <3>3. DeskDies(d) => DeskOK
      BY DEF DeskDies
    <3> QED BY <1>6, <1>8, <2>1, <3>2, <3>3, Zenon DEF ObserveOpen, DeskAnswers, CommitFails
  <2> QED BY <2>2, <2>3, <2>4
<1>9. ASSUME NEW d \in Desks, \/ CommitSettled(d) \/ CommitQuarantine(d) \/ CommitRiskPending(d)
                              \/ CommitPayment(d) \/ XcashUnfulfillable(d)
      PROVE  BooksTypeOK' /\ XcashTypeOK'
  <2>1. desk[d] \in Busy
    BY <1>7, <1>9 DEF CommitSettled, CommitQuarantine, CommitRiskPending, CommitPayment,
       XcashUnfulfillable, Committed
  <2>2. desk[d].i \in Attempts /\ Xcash(desk[d].i) \in Receipts
    BY <1>6, <2>1 DEF Receipts
  <2>3. DeskOK
    BY <1>6, <1>9, <2>1, Zenon DEF CommitSettled, CommitQuarantine, CommitRiskPending,
       CommitPayment, XcashUnfulfillable, Committed
  <2>4. BooksTypeOK'
    <3>1. reason(d) \in {"amount", "high_risk", "none"} /\ "fulfillment_failed" \in Reasons
      BY DEF reason, Reasons
    <3>2. reason(d) # "none" => reason(d) \in Reasons
      BY <3>1 DEF Reasons
    <3> QED BY <1>9, <2>2, <3>1, <3>2, WritesTyped DEF CommitSettled, CommitQuarantine,
       CommitRiskPending, CommitPayment, XcashUnfulfillable, RolledBack
  <2>5. XcashBut
    <3>1. \A s \in {"completed", "anomaly", "risk_pending"} :
            SetIntent(d, s) => intent' \in [Attempts -> IntentStates]
      BY ZenonT(60) DEF SetIntent, IntentStates
    <3>2. intent' \in [Attempts -> IntentStates]
      BY <1>9, <3>1 DEF CommitSettled, CommitQuarantine, CommitRiskPending, CommitPayment,
         XcashUnfulfillable, RolledBack
    <3>3. receipt' \in [Attempts -> BOOLEAN]
      BY <1>9 DEF CommitSettled, CommitQuarantine, CommitRiskPending, CommitPayment,
         XcashUnfulfillable, Committed, RolledBack
    <3> QED BY <1>9, <3>2, <3>3 DEF CommitSettled, CommitQuarantine, CommitRiskPending,
       CommitPayment, XcashUnfulfillable, AtDesk
  <2> QED BY <2>3, <2>4, <2>5
<1> QED
  BY <1>1, <1>2, <1>3, <1>4, <1>5, <1>8, <1>9 DEF XcashNext, DeskWorks

LEMMA PaymentsTypeStep ==
  ASSUME PaymentsTypeOK, [PaymentsNext]_payVars
  PROVE  PaymentsTypeOK'
<1> USE DEF PaymentsTypeOK
<1>1. CASE UNCHANGED payVars
  BY <1>1 DEF payVars, booksVars, stripeVars, web3Vars, xcashVars,
     BooksTypeOK, StripeTypeOK, Web3TypeOK, XcashTypeOK
<1>2. CASE BooksNext /\ UNCHANGED <<stripeVars, web3Vars, xcashVars, closing>>
  BY <1>2, BooksTypeStep DEF stripeVars, web3Vars, xcashVars, StripeTypeOK, Web3TypeOK, XcashTypeOK
<1>3. CASE StripeNext /\ UNCHANGED <<web3Vars, xcashVars, closing>>
  BY <1>3, StripeTypeStep DEF web3Vars, xcashVars, Web3TypeOK, XcashTypeOK
<1>4. CASE Web3Next /\ UNCHANGED <<stripeVars, xcashVars, closing>>
  BY <1>4, Web3TypeStep DEF stripeVars, xcashVars, StripeTypeOK, XcashTypeOK
<1>5. CASE XcashNext /\ UNCHANGED <<stripeVars, web3Vars, closing>>
  BY <1>5, XcashTypeStep DEF stripeVars, web3Vars, StripeTypeOK, Web3TypeOK
<1>6. CASE CancelChecked \/ CancelCommits
  <2>1. BooksTypeOK' /\ closing' \in BOOLEAN
    <3>1. CASE CancelChecked
      BY <3>1, Assumed DEF PaymentAssumptions, CancelChecked, Rival, BooksTypeOK
    <3>2. CASE CancelCommits
      BY <3>2 DEF CancelCommits, BooksTypeOK
    <3> QED BY <1>6, <3>1, <3>2
  <2>2. UNCHANGED <<stripeVars, web3Vars, xcashVars>>
    BY <1>6 DEF CancelChecked, CancelCommits
  <2> QED
    BY <2>1, <2>2 DEF stripeVars, web3Vars, xcashVars, StripeTypeOK, Web3TypeOK, XcashTypeOK
<1> QED
  BY <1>1, <1>2, <1>3, <1>4, <1>5, <1>6 DEF PaymentsNext

\* Every column, key and position of a handler keeps the values the code gives it.
THEOREM PaymentsTypeCorrect == PaymentsSpec => []PaymentsTypeOK
<1>1. PaymentsInit => PaymentsTypeOK
  <2> SUFFICES ASSUME PaymentsInit PROVE PaymentsTypeOK
    OBVIOUS
  <2> USE Assumed DEF PaymentAssumptions, PaymentsInit, PaymentsTypeOK
  <2>1. BooksTypeOK
    BY DEF BooksInit, BooksTypeOK
  <2>2. StripeTypeOK
    BY DEF StripeInit, StripeTypeOK, IdleHook, HookStages
  <2>3. Web3TypeOK
    <3>1. IdleTaker \in [at : TakerStages, pays : BOOLEAN]
      BY DEF IdleTaker, TakerStages
    <3>2. taker \in [Takers -> [at : TakerStages, pays : BOOLEAN]]
      BY <3>1 DEF Web3Init
    <3>3. nonce \in BOOLEAN
      BY DEF Web3Init
    <3>5. amount \in Amounts \cup {0}
      BY DEF Web3Init
    <3>6. tries \in 0..Web3Tries
      BY DEF Web3Init
    <3>4. /\ parker \in {"idle", "payable", "consumed"}
          /\ parked \in Wallets \cup {NoWallet} /\ payer \in Wallets \cup {NoWallet}
          /\ message \in {"none", "queued", "acked", "dead"}
      BY DEF Web3Init
    <3> QED BY <3>2, <3>3, <3>4, <3>5, <3>6 DEF Web3TypeOK
  <2>4. XcashTypeOK
    BY DEF XcashInit, XcashTypeOK, InvoiceStates, Risks, IntentStates
  <2> QED BY <2>1, <2>2, <2>3, <2>4
<1> QED
  BY <1>1, PaymentsTypeStep, PTL DEF PaymentsSpec

-----------------------------------------------------------------------------
\* Neither property is inductive by itself: what a provider is told depends on
\* where its handlers stand, so each position from which an acknowledgement
\* follows must already say that the money is booked.  One part for a channel.
SettledIntent(i) == intent[i] \in {"completed", "anomaly", "risk_pending"}

Web3Told ==
  /\ \A k \in Takers : taker[k].at \in {"unpark", "ack"} => Accounted(Web3)
  /\ message = "acked" => Accounted(Web3)
StripeTold ==
  /\ \A h \in Hooks : hook[h].at = "answer" => Accounted(Stripe) \/ relied
  /\ event = "answered" => Accounted(Stripe) \/ relied
XcashTold ==
  /\ \A d \in Desks : desk[d].at = "processed" => SettledIntent(desk[d].i)
  /\ \A i \in Attempts : receipt[i] \/ webhook[i] = "answered" => SettledIntent(i)

\* What has been paid or set aside stays so: no step clears a clearing record
\* or drops an anomaly, and an intent that is settled stays settled.
LEMMA AccountedStays ==
  ASSUME BooksTypeOK, NEW r \in Receipts
  PROVE  /\ BooksNext => (Accounted(r) => Accounted(r)')
         /\ UNCHANGED booksVars => (Accounted(r) => Accounted(r)')
         /\ \A s \in Receipts : ClearAndConfirm(s) => (Accounted(r) => Accounted(r)')
         /\ \A s \in Receipts, why \in Reasons :
              RecordAnomaly(s, why) => (Accounted(r) => Accounted(r)')
         /\ \A s \in Receipts : RecordDuplicate(s) => (Accounted(r) => Accounted(r)')
<1> USE DEF BooksTypeOK, Accounted
<1>1. r # Nothing
  BY DEF Receipts, Stripe, Web3, Xcash, Nothing
<1>2. ASSUME NEW s \in Receipts, NEW why \in Reasons, RecordAnomaly(s, why), Accounted(r)
      PROVE  Accounted(r)'
  BY <1>2 DEF RecordAnomaly, Reasons
<1>3. ASSUME NEW s \in Receipts, ClearAndConfirm(s), Accounted(r)
      PROVE  Accounted(r)'
  BY <1>1, <1>3 DEF ClearAndConfirm, KeyTaken
<1>4. UNCHANGED booksVars => (Accounted(r) => Accounted(r)')
  BY DEF booksVars
<1>5. BooksNext => (Accounted(r) => Accounted(r)')
  BY <1>1 DEF BooksNext, PayDown, StockMoves, KeyTaken
<1>6. "duplicate" \in Reasons
  BY DEF Reasons
<1> QED
  BY <1>2, <1>3, <1>4, <1>5, <1>6 DEF RecordDuplicate

\* What a settlement that goes through leaves behind for its own receipt.
LEMMA WritesAccount ==
  ASSUME BooksTypeOK, NEW r \in Receipts
  PROVE  /\ ClearAndConfirm(r) => Accounted(r)'
         /\ \A why \in Reasons : RecordAnomaly(r, why) => Accounted(r)'
         /\ RecordDuplicate(r) => Accounted(r)'
<1> USE DEF BooksTypeOK, Accounted
<1>1. ClearAndConfirm(r) => Accounted(r)'
  BY DEF ClearAndConfirm
<1>2. ASSUME NEW why \in Reasons, RecordAnomaly(r, why)
      PROVE  Accounted(r)'
  BY <1>2 DEF RecordAnomaly, Reasons
<1>3. RecordDuplicate(r) => Accounted(r)'
  <2>1. "duplicate" \in Reasons
    BY DEF Reasons
  <2> QED BY <1>2, <2>1 DEF RecordDuplicate, booksVars
<1> QED
  BY <1>1, <1>2, <1>3

LEMMA Web3ToldStep ==
  ASSUME BooksTypeOK, Web3TypeOK, Web3Told, Web3Next
  PROVE  Web3Told'
<1> USE StripeIsReceipt DEF Web3Told, Web3TypeOK, TakerGoes, TakerKeeps, IdleTaker, ParkKeeps,
        ReadFails
<1>1. CASE IssueNonce \/ NonceExpires \/ ParkChecked \/ ConsumeNonce \/ SetWeb3Pending
           \/ PendingExpires \/ TransferConfirmed
  BY <1>1, AccountedStays DEF IssueNonce, NonceExpires, ParkChecked, ConsumeNonce,
     SetWeb3Pending, PendingExpires, TransferConfirmed
<1>2. ASSUME NEW k \in Takers, TakerStarts(k) \/ IsProviderCleared(k) \/ HasProviderAnomaly(k)
      PROVE  Web3Told'
  BY <1>2, AccountedStays DEF TakerStarts, IsProviderCleared, HasProviderAnomaly, Accounted
<1>3. ASSUME NEW k \in Takers, verifyBuyerBinding(k)
      PROVE  Web3Told'
  BY <1>3, AccountedStays DEF verifyBuyerBinding
<1>4. ASSUME NEW k \in Takers, SettleConfirmedOrder(k)
      PROVE  Web3Told'
  <2>1. Accounted(Web3) => Accounted(Web3)'
    BY <1>4, AccountedStays DEF SettleConfirmedOrder
  <2>2. taker'[k].at = "unpark" => Accounted(Web3)'
    BY <1>4, WritesAccount DEF SettleConfirmedOrder
  <2> QED BY <1>4, <2>1, <2>2 DEF SettleConfirmedOrder
<1>5. ASSUME NEW k \in Takers, Web3Unfulfillable(k)
      PROVE  Web3Told'
  <2>1. "fulfillment_failed" \in Reasons
    BY DEF Reasons
  <2>2. Accounted(Web3) => Accounted(Web3)'
    BY <1>5, <2>1, AccountedStays DEF Web3Unfulfillable
  <2>3. taker'[k].at = "ack" => Accounted(Web3)'
    BY <1>5, <2>1, WritesAccount DEF Web3Unfulfillable
  <2> QED BY <1>5, <2>2, <2>3 DEF Web3Unfulfillable
<1>6. ASSUME NEW k \in Takers, DelWeb3Pending(k) \/ TakerEnds(k) \/ TakerDies(k)
      PROVE  Web3Told'
  BY <1>6, AccountedStays DEF DelWeb3Pending, TakerEnds, TakerDies
<1> QED
  BY <1>1, <1>2, <1>3, <1>4, <1>5, <1>6 DEF Web3Next, TakerWorks

LEMMA StripeToldStep ==
  ASSUME BooksTypeOK, StripeTypeOK, StripeTold, StripeNext
  PROVE  StripeTold'
<1> USE StripeIsReceipt DEF StripeTold, StripeTypeOK, HookGoes, HookWaits, HookKeeps, IdleHook
<1>1. CASE CheckoutChecked \/ CheckoutMarked \/ SessionOpened \/ SessionPaid \/ WindowEnds
  BY <1>1, AccountedStays
     DEF CheckoutChecked, CheckoutMarked, SessionOpened, SessionPaid, WindowEnds
<1>2. ASSUME NEW h \in Hooks, HookArrives(h) \/ StripeReadOrder(h)
      PROVE  StripeTold'
  BY <1>2, AccountedStays DEF HookArrives, StripeReadOrder
<1>3. ASSUME NEW h \in Hooks, claimStripeEvent(h)
      PROVE  StripeTold'
  <2>1. Accounted(Stripe) => Accounted(Stripe)'
    BY <1>3, AccountedStays DEF claimStripeEvent
  <2>2. relied => relied'
    BY <1>3 DEF claimStripeEvent
  <2>3. hook'[h].at = "answer" => Accounted(Stripe)' \/ relied'
    BY <1>3, <2>1 DEF claimStripeEvent
  <2> QED BY <1>3, <2>1, <2>2, <2>3 DEF claimStripeEvent
<1>4. ASSUME NEW h \in Hooks, settleStripeOrder(h)
      PROVE  StripeTold'
  <2>1. "amount" \in Reasons
    BY DEF Reasons
  <2>2. Accounted(Stripe) => Accounted(Stripe)'
    BY <1>4, <2>1, AccountedStays DEF settleStripeOrder
  <2>3. hook'[h].at = "answer" => Accounted(Stripe)'
    BY <1>4, <2>1, WritesAccount DEF settleStripeOrder
  <2> QED BY <1>4, <2>2, <2>3 DEF settleStripeOrder
<1>5. ASSUME NEW h \in Hooks, StripeUnfulfillable(h)
      PROVE  StripeTold'
  <2>1. "fulfillment_failed" \in Reasons
    BY DEF Reasons
  <2>2. Accounted(Stripe) => Accounted(Stripe)'
    BY <1>5, <2>1, AccountedStays DEF StripeUnfulfillable
  <2>3. hook'[h].at = "answer" => Accounted(Stripe)'
    BY <1>5, <2>1, WritesAccount DEF StripeUnfulfillable
  <2> QED BY <1>5, <2>2, <2>3 DEF StripeUnfulfillable
<1>6. ASSUME NEW h \in Hooks, releaseStripeEvent(h) \/ HookAnswers(h) \/ HookDies(h)
      PROVE  StripeTold'
  BY <1>6, AccountedStays DEF releaseStripeEvent, HookAnswers, HookDies
<1> QED
  BY <1>1, <1>2, <1>3, <1>4, <1>5, <1>6 DEF StripeNext, HookWorks

-----------------------------------------------------------------------------
(* Xcash: the intents and the books move together. *)

\* References of different channels, and of different invoices, differ.
LEMMA ReferencesDiffer ==
  ASSUME NEW i \in Attempts
  PROVE  /\ Xcash(i) \in Receipts
         /\ Xcash(i) \notin {Stripe, Web3, Nothing, Wallet}
         /\ \A j \in Attempts : j # i => Xcash(i) # Xcash(j)
BY DEF Receipts, Xcash, Stripe, Web3, Nothing, Wallet

\* What the other channels write is about their own receipts.
LEMMA OthersKeepIntents ==
  ASSUME BooksTypeOK, XcashTypeOK, IntentMatchesBooks, UNCHANGED intent
  PROVE  /\ BooksNext => IntentMatchesBooks'
         /\ UNCHANGED booksVars => IntentMatchesBooks'
         /\ \A s \in {Stripe, Web3} : ClearAndConfirm(s) => IntentMatchesBooks'
         /\ \A s \in {Stripe, Web3}, why \in Reasons :
              RecordAnomaly(s, why) => IntentMatchesBooks'
         /\ \A s \in {Stripe, Web3} : RecordDuplicate(s) => IntentMatchesBooks'
<1> USE StripeIsReceipt, ReferencesDiffer DEF BooksTypeOK, IntentMatchesBooks
<1>1. ASSUME NEW s \in {Stripe, Web3}, ClearAndConfirm(s)
      PROVE  IntentMatchesBooks'
  BY <1>1 DEF ClearAndConfirm, KeyTaken
<1>2. ASSUME NEW s \in {Stripe, Web3}, NEW why \in Reasons, RecordAnomaly(s, why)
      PROVE  IntentMatchesBooks'
  BY <1>2 DEF RecordAnomaly
<1>3. UNCHANGED booksVars => IntentMatchesBooks'
  BY DEF booksVars
<1>4. BooksNext => IntentMatchesBooks'
  BY DEF BooksNext, PayDown, StockMoves, KeyTaken
<1>5. "duplicate" \in Reasons
  BY DEF Reasons
<1> QED
  BY <1>1, <1>2, <1>3, <1>4, <1>5 DEF RecordDuplicate

LEMMA StripeKeepsIntents ==
  ASSUME BooksTypeOK, XcashTypeOK, IntentMatchesBooks, StripeNext, UNCHANGED xcashVars
  PROVE  IntentMatchesBooks'
<1>1. UNCHANGED intent
  BY DEF xcashVars
<1>2. "amount" \in Reasons /\ "fulfillment_failed" \in Reasons
  BY DEF Reasons
<1> QED
  BY <1>1, <1>2, OthersKeepIntents DEF StripeNext, HookWorks, CheckoutChecked, CheckoutMarked,
     SessionOpened, SessionPaid, WindowEnds, HookArrives, HookDies, claimStripeEvent,
     StripeReadOrder, settleStripeOrder, StripeUnfulfillable, releaseStripeEvent, HookAnswers

LEMMA Web3KeepsIntents ==
  ASSUME BooksTypeOK, XcashTypeOK, IntentMatchesBooks, Web3Next, UNCHANGED xcashVars
  PROVE  IntentMatchesBooks'
<1>1. UNCHANGED intent
  BY DEF xcashVars
<1>2. "fulfillment_failed" \in Reasons
  BY DEF Reasons
<1> QED
  BY <1>1, <1>2, OthersKeepIntents DEF Web3Next, TakerWorks, IssueNonce, NonceExpires, ParkChecked,
     ConsumeNonce, SetWeb3Pending, PendingExpires, TransferConfirmed, ParkKeeps, TakerStarts,
     TakerDies, IsProviderCleared, HasProviderAnomaly, verifyBuyerBinding, SettleConfirmedOrder,
     Web3Unfulfillable, DelWeb3Pending, TakerEnds

\* A desk that leaves its stage goes to rest, to its answer or to isolation; at
\* its answer it has the invoice it had before.
LEMMA DeskMoves ==
  ASSUME XcashTypeOK, NEW d \in Desks, desk[d].at # "idle"
  PROVE  /\ desk[d].i \in Attempts
         /\ DeskGivesUp(d) \/ DeskDone(d) \/ DeskIsolates(d) =>
              \A e \in Desks : desk'[e].at = "processed" =>
                desk'[e].i = desk[e].i /\ (e = d \/ desk[e].at = "processed")
BY DEF XcashTypeOK, DeskGivesUp, DeskDone, DeskIsolates, IdleDesk, Case

LEMMA StripeAccounts ==
  ASSUME BooksTypeOK, StripeNext, NEW r \in Receipts, Accounted(r)
  PROVE  Accounted(r)'
<1>1. "amount" \in Reasons /\ "fulfillment_failed" \in Reasons
  BY DEF Reasons
<1> QED
  BY <1>1, StripeIsReceipt, AccountedStays DEF StripeNext, HookWorks, CheckoutChecked, CheckoutMarked,
     SessionOpened, SessionPaid, WindowEnds, HookArrives, HookDies, claimStripeEvent,
     StripeReadOrder, settleStripeOrder, StripeUnfulfillable, releaseStripeEvent, HookAnswers

LEMMA Web3Accounts ==
  ASSUME BooksTypeOK, Web3Next, NEW r \in Receipts, Accounted(r)
  PROVE  Accounted(r)'
<1>1. "fulfillment_failed" \in Reasons
  BY DEF Reasons
<1> QED
  BY <1>1, StripeIsReceipt, AccountedStays DEF Web3Next, TakerWorks, IssueNonce, NonceExpires, ParkChecked,
     ConsumeNonce, SetWeb3Pending, PendingExpires, TransferConfirmed, ParkKeeps, TakerStarts,
     TakerDies, IsProviderCleared, HasProviderAnomaly, verifyBuyerBinding, SettleConfirmedOrder,
     Web3Unfulfillable, DelWeb3Pending, TakerEnds

LEMMA XcashAccounts ==
  ASSUME BooksTypeOK, XcashTypeOK, XcashNext, NEW r \in Receipts, Accounted(r)
  PROVE  Accounted(r)'
<1>1. "fulfillment_failed" \in Reasons
  BY DEF Reasons
<1>2. ASSUME NEW d \in Desks, CommitSettled(d) \/ CommitQuarantine(d) \/ CommitRiskPending(d)
                              \/ CommitPayment(d) \/ XcashUnfulfillable(d)
      PROVE  Accounted(r)'
  <2>1. desk[d].i \in Attempts
    BY <1>2, DeskMoves DEF CommitSettled, CommitQuarantine, CommitRiskPending, CommitPayment,
       XcashUnfulfillable, Committed
  <2>2. Xcash(desk[d].i) \in Receipts
    BY <2>1 DEF Receipts
  <2>3. reason(d) # "none" => reason(d) \in Reasons
    BY DEF reason, Reasons
  <2> QED
    BY <1>1, <1>2, <2>2, <2>3, AccountedStays DEF CommitSettled, CommitQuarantine,
       CommitRiskPending, CommitPayment, XcashUnfulfillable, RolledBack
<1> QED
  BY <1>2, AccountedStays DEF XcashNext, DeskWorks, InvoiceCompleted, RiskRated, InvoiceExpires,
     WindowCloses, AtXcash, Synced, CreateInvoice, InsertIntent, XcashChecked, AtBuyer,
     WebhookArrives, QueryStarts, GetInvoice, GetCachedInvoice, CommitFails, RolledBack, DeskDies,
     ObserveOpen, LockIntent, DeskAnswers

LEMMA XcashStep ==
  ASSUME BooksTypeOK, XcashTypeOK, IntentMatchesBooks, XcashTold, XcashNext
  PROVE  IntentMatchesBooks' /\ XcashTold'
<1> USE ReferencesDiffer DEF XcashTypeOK
\* Where neither the books nor the intents move.
<1>1. ASSUME UNCHANGED <<booksVars, webhook, receipt, intent>>,
             \A e \in Desks : desk'[e].at = "processed" =>
               /\ desk'[e].i = desk[e].i
               /\ desk[e].at = "processed" \/ SettledIntent(desk[e].i)
      PROVE  IntentMatchesBooks' /\ XcashTold'
  BY <1>1 DEF booksVars, IntentMatchesBooks, XcashTold, SettledIntent
<1>2. ASSUME NEW i \in Attempts,
             InvoiceCompleted(i) \/ RiskRated(i) \/ InvoiceExpires(i) \/ WindowCloses(i)
      PROVE  IntentMatchesBooks' /\ XcashTold'
  <2>1. UNCHANGED <<booksVars, receipt, intent, desk>>
    BY <1>2 DEF InvoiceCompleted, RiskRated, InvoiceExpires, WindowCloses, AtXcash
  <2>2. \A j \in Attempts : webhook'[j] = "answered" => webhook[j] = "answered"
    BY <1>2 DEF InvoiceCompleted, RiskRated, InvoiceExpires, WindowCloses
  <2> QED
    BY <2>1, <2>2 DEF booksVars, IntentMatchesBooks, XcashTold, SettledIntent
<1>3. CASE Synced \/ CreateInvoice
  BY <1>1, <1>3 DEF Synced, CreateInvoice, AtBuyer
<1>4. CASE InsertIntent
  <2>1. UNCHANGED <<booksVars, webhook, receipt, desk>>
    BY <1>4 DEF InsertIntent, AtBuyer
  <2>2. \A j \in Attempts :
          \/ intent'[j] = intent[j]
          \/ intent[j] = "none" /\ intent'[j] \in {"expired", "waiting"}
    <3> DEFINE i == buyer.attempt
               put == IF intent[i] # "none" THEN intent[i]
                      ELSE IF invoice[i].state = "expired" THEN "expired" ELSE "waiting"
    <3>1. intent' = [intent EXCEPT ![i] = put] \/ UNCHANGED intent
      BY <1>4, Zenon DEF InsertIntent
    <3>2. intent[i] = "none" => put \in {"expired", "waiting"}
      OBVIOUS
    <3> QED BY <3>1, <3>2
  <2> QED
    BY <2>1, <2>2, SMTT(60) DEF booksVars, IntentMatchesBooks, XcashTold, SettledIntent, IdleDesk
<1>5. ASSUME NEW d \in Desks, XcashChecked(d)
      PROVE  IntentMatchesBooks' /\ XcashTold'
  <2>1. \A e \in Desks : desk'[e].at = "processed" => desk'[e] = desk[e]
    <3> HIDE DEF latest
    <3> QED BY <1>5 DEF XcashChecked, Case
  <2>2. UNCHANGED <<booksVars, webhook, receipt, intent>>
    BY <1>5 DEF XcashChecked, AtBuyer
  <2> QED BY <1>1, <2>1, <2>2
<1>6. ASSUME NEW d \in Desks, NEW i \in Attempts, WebhookArrives(d, i) \/ QueryStarts(d, i)
      PROVE  IntentMatchesBooks' /\ XcashTold'
  <2>1. \A e \in Desks : desk'[e].at = "processed" => desk'[e] = desk[e]
    BY <1>6 DEF WebhookArrives, QueryStarts, Starts, Case
  <2>2. UNCHANGED <<booksVars, webhook, receipt, intent>>
    BY <1>6 DEF WebhookArrives, QueryStarts
  <2> QED BY <1>1, <2>1, <2>2
<1>7. ASSUME NEW d \in Desks, GetInvoice(d) \/ GetCachedInvoice(d) \/ CommitFails(d) \/ DeskDies(d)
      PROVE  IntentMatchesBooks' /\ XcashTold'
  <2>1. \A e \in Desks : desk'[e].at = "processed" => desk'[e] = desk[e]
    <3>1. CASE GetInvoice(d)
      <4>1. \A e \in Desks : desk'[e] = desk[e] \/ desk'[e].at \in {"open", "completed"}
        <5>1. "at" \in DOMAIN desk[d]
          BY DEF IdleDesk
        <5> QED BY <3>1, <5>1 DEF GetInvoice
      <4> QED BY <4>1
    <3>2. CASE GetCachedInvoice(d)
      <4> DEFINE r == IF invoice[desk[d].i].risk = "amount" THEN "amount" ELSE desk[d].risk
      <4>1. \/ desk' = [desk EXCEPT ![d] = [desk[d] EXCEPT !.at = "open", !.saw = "waiting"]]
            \/ desk' = [desk EXCEPT ![d] = [desk[d] EXCEPT !.at = "completed", !.risk = r]]
        BY <3>2, Zenon DEF GetCachedInvoice
      <4>2. "at" \in DOMAIN desk[d]
        BY DEF IdleDesk
      <4> HIDE DEF r
      <4>3. ASSUME desk' = [desk EXCEPT ![d] = [desk[d] EXCEPT !.at = "open", !.saw = "waiting"]]
            PROVE  \A e \in Desks : desk'[e] = desk[e] \/ desk'[e].at = "open"
        BY <4>2, <4>3
      <4>4. ASSUME desk' = [desk EXCEPT ![d] = [desk[d] EXCEPT !.at = "completed", !.risk = r]]
            PROVE  \A e \in Desks : desk'[e] = desk[e] \/ desk'[e].at = "completed"
        BY <4>2, <4>4
      <4> QED BY <4>1, <4>3, <4>4
    <3> QED
      BY <1>7, <3>1, <3>2 DEF CommitFails, DeskDies, DeskGivesUp, IdleDesk
  <2>2. UNCHANGED <<booksVars, webhook, receipt, intent>>
    BY <1>7 DEF GetInvoice, GetCachedInvoice, CommitFails, DeskDies, RolledBack
  <2> QED BY <1>1, <2>1, <2>2
<1>8. ASSUME NEW d \in Desks, LockIntent(d)
      PROVE  IntentMatchesBooks' /\ XcashTold'
  <2>1. desk[d].at # "idle"
    BY <1>8 DEF LockIntent
  <2>2. \A e \in Desks : desk'[e].at = "processed" =>
          desk'[e].i = desk[e].i /\ (desk[e].at = "processed" \/ SettledIntent(desk[e].i))
    <3>1. CASE desk[d].by = "webhook" /\ receipt[desk[d].i] /\ DeskDone(d)
      BY <2>1, <3>1, DeskMoves DEF XcashTold
    <3>2. CASE DeskGivesUp(d)
      BY <3>2 DEF DeskGivesUp, IdleDesk
    <3>3. CASE desk' = [desk EXCEPT ![d] = [desk[d] EXCEPT !.at = "commit",
                                                !.pays = (payRow = "WaitPay")]]
      BY <3>3, <2>1 DEF IdleDesk
    <3> QED BY <1>8, <3>1, <3>2, <3>3, Zenon DEF LockIntent
  <2>3. UNCHANGED <<booksVars, webhook, receipt, intent>>
    BY <1>8 DEF LockIntent
  <2> QED BY <1>1, <2>2, <2>3
<1>9. ASSUME NEW d \in Desks, DeskAnswers(d)
      PROVE  IntentMatchesBooks' /\ XcashTold'
  <2>1. UNCHANGED <<booksVars, receipt, intent>> /\ desk[d].i \in Attempts
    BY <1>9, DeskMoves DEF DeskAnswers
  <2>2. \A e \in Desks : desk'[e].at = "processed" => desk'[e] = desk[e]
    BY <1>9 DEF DeskAnswers, DeskGivesUp, IdleDesk
  <2>3. \A j \in Attempts : webhook'[j] = "answered" => webhook[j] = "answered" \/ j = desk[d].i
    BY <1>9, <2>1 DEF DeskAnswers
  <2> QED
    BY <1>9, <2>1, <2>2, <2>3
    DEF booksVars, IntentMatchesBooks, XcashTold, SettledIntent, DeskAnswers
<1>10. ASSUME NEW d \in Desks, ObserveOpen(d)
      PROVE  IntentMatchesBooks' /\ XcashTold'
  <2>1. UNCHANGED <<booksVars, webhook, receipt>> /\ desk[d].i \in Attempts
    BY <1>10, DeskMoves DEF ObserveOpen
  <2>2. \A e \in Desks : desk'[e].at = "processed" => desk'[e] = desk[e]
    BY <1>10 DEF ObserveOpen, DeskGivesUp, IdleDesk
  <2>3. desk[d].saw \in {"none", "waiting", "expired"}
    BY <1>10 DEF ObserveOpen, IdleDesk
  <2>4. \A j \in Attempts :
          \/ intent'[j] = intent[j]
          \/ /\ intent[j] \in {"waiting", "expired"}
             /\ intent'[j] \in {"none", "waiting", "expired"}
    BY <1>10, <2>1, <2>3 DEF ObserveOpen
  <2>5. \A e \in Desks : desk[e].at = "processed" => desk[e].i \in Attempts
    BY DeskMoves
  <2>6. \A j \in Attempts : SettledIntent(j) => SettledIntent(j)'
    BY <2>4 DEF SettledIntent
  <2>7. XcashTold'
    BY <2>1, <2>2, <2>5, <2>6 DEF XcashTold
  <2> QED
    BY <2>1, <2>4, <2>7 DEF booksVars, IntentMatchesBooks
\* What remains settles one intent, and the books with it.
<1>11. ASSUME NEW d \in Desks, CommitSettled(d) \/ CommitQuarantine(d) \/ CommitRiskPending(d)
                               \/ CommitPayment(d) \/ XcashUnfulfillable(d)
       PROVE  IntentMatchesBooks' /\ XcashTold'
  <2> DEFINE i == desk[d].i
  <2>1. i \in Attempts /\ desk[d].at # "idle" /\ Xcash(i) \in Receipts
    BY <1>11, DeskMoves DEF CommitSettled, CommitQuarantine, CommitRiskPending, CommitPayment,
       XcashUnfulfillable, Committed
  <2>2. UNCHANGED webhook /\ \A j \in Attempts \ {i} : intent'[j] = intent[j]
    BY <1>11, <2>1 DEF CommitSettled, CommitQuarantine, CommitRiskPending, CommitPayment,
       XcashUnfulfillable, SetIntent, RolledBack
  <2>3. /\ intent[i] = "completed" => cleared = Xcash(i)
        /\ Unsettled(d) => cleared # Xcash(i) /\ anomaly[Xcash(i)] = "none"
    BY <2>1 DEF IntentMatchesBooks, Unsettled
  <2>4. \A s : SetIntent(d, s) => intent'[i] = s
    BY <2>1 DEF SetIntent
  <2>5. reason(d) # "none" => reason(d) \in {"amount", "high_risk"}
    BY DEF reason
  <2>6. ASSUME CommitSettled(d)
        PROVE  IntentMatchesBooks'
    <3>1. CASE intent[i] = "anomaly" /\ UNCHANGED <<booksVars, intent>>
      BY <3>1 DEF booksVars, IntentMatchesBooks
    <3>2. CASE /\ intent[i] = "completed" /\ reason(d) # "none"
               /\ RecordAnomaly(Xcash(i), reason(d)) /\ SetIntent(d, "anomaly")
      BY <2>1, <2>2, <2>3, <2>4, <2>5, <3>2 DEF IntentMatchesBooks, RecordAnomaly, BooksTypeOK
    <3>3. CASE /\ intent[i] = "completed" /\ reason(d) = "none"
               /\ RecordDuplicate(Xcash(i)) /\ UNCHANGED intent
      BY <2>1, <2>3, <3>3 DEF IntentMatchesBooks, RecordDuplicate, booksVars
    <3> QED BY <2>6, <3>1, <3>2, <3>3, Zenon DEF CommitSettled
  <2>7. ASSUME CommitQuarantine(d)
        PROVE  IntentMatchesBooks'
    BY <2>1, <2>2, <2>3, <2>4, <2>5, <2>7
    DEF CommitQuarantine, IntentMatchesBooks, RecordAnomaly, BooksTypeOK
  <2>8. ASSUME CommitRiskPending(d)
        PROVE  IntentMatchesBooks'
    BY <2>1, <2>2, <2>3, <2>4, <2>8
    DEF CommitRiskPending, Sound, IntentMatchesBooks, booksVars
  <2>9. ASSUME CommitPayment(d)
        PROVE  IntentMatchesBooks'
    <3>1. Unsettled(d)
      BY <2>9 DEF CommitPayment, Sound
    <3>2. CASE /\ RecordDuplicate(Xcash(i))
               /\ SetIntent(d, IF cleared = Xcash(i) THEN "completed" ELSE "anomaly")
      BY <2>1, <2>2, <2>3, <2>4, <3>1, <3>2
      DEF IntentMatchesBooks, RecordDuplicate, RecordAnomaly, BooksTypeOK
    <3>3. CASE ClearAndConfirm(Xcash(i)) /\ SetIntent(d, "completed")
      BY <2>1, <2>2, <2>3, <2>4, <3>1, <3>3
      DEF IntentMatchesBooks, ClearAndConfirm, KeyTaken, BooksTypeOK
    <3>4. CASE RolledBack
      BY <3>4 DEF RolledBack, IntentMatchesBooks, booksVars
    <3> QED BY <2>9, <3>2, <3>3, <3>4, Zenon DEF CommitPayment
  <2>10. ASSUME XcashUnfulfillable(d)
        PROVE  IntentMatchesBooks'
    <3>1. CASE /\ Unsettled(d)
               /\ RecordAnomaly(Xcash(i), "fulfillment_failed") /\ SetIntent(d, "anomaly")
      BY <2>1, <2>2, <2>3, <2>4, <3>1 DEF IntentMatchesBooks, RecordAnomaly, BooksTypeOK
    <3>2. CASE UNCHANGED <<booksVars, intent>>
      BY <3>2 DEF booksVars, IntentMatchesBooks
    <3> QED BY <2>10, <3>1, <3>2, Zenon DEF XcashUnfulfillable
  <2>11. IntentMatchesBooks'
    BY <1>11, <2>6, <2>7, <2>8, <2>9, <2>10
  <2> DEFINE Settled == {"completed", "anomaly", "risk_pending"}
  <2>12. intent[i] \in Settled => intent'[i] \in Settled
    BY <1>11, <2>4 DEF CommitSettled, CommitQuarantine, CommitRiskPending,
       CommitPayment, XcashUnfulfillable, RolledBack
  <2>13. desk'[d].at = "processed" \/ receipt' # receipt => intent'[i] \in Settled
    <3>1. \/ intent'[i] \in Settled
          \/ (DeskGivesUp(d) \/ DeskIsolates(d)) /\ UNCHANGED receipt
      BY <1>11, <2>1, <2>4 DEF CommitSettled, CommitQuarantine, CommitRiskPending, CommitPayment,
         XcashUnfulfillable, RolledBack, Unsettled
    <3>2. DeskGivesUp(d) \/ DeskIsolates(d) => desk'[d].at \in {"idle", "isolate"}
      BY <2>1 DEF DeskGivesUp, DeskIsolates, IdleDesk, Case
    <3> QED BY <3>1, <3>2
  <2>14. \A e \in Desks : desk'[e].at = "processed" =>
            /\ desk'[e].i = desk[e].i /\ desk[e].i \in Attempts
            /\ e = d \/ desk[e].at = "processed"
    <3>1. DeskGivesUp(d) \/ DeskDone(d) \/ DeskIsolates(d)
      BY <1>11 DEF CommitSettled, CommitQuarantine, CommitRiskPending, CommitPayment,
         XcashUnfulfillable, Committed
    <3>2. \A e \in Desks : desk[e].at = "processed" => desk[e].i \in Attempts
      BY DeskMoves
    <3> QED BY <2>1, <3>1, <3>2, DeskMoves
  <2>15. \A j \in Attempts : receipt'[j] => receipt[j] \/ (j = i /\ receipt' # receipt)
    <3>1. UNCHANGED receipt \/ receipt' = [receipt EXCEPT ![i] = receipt[i] \/ desk[d].by = "webhook"]
      BY <1>11, Zenon DEF CommitSettled, CommitQuarantine, CommitRiskPending, CommitPayment,
         XcashUnfulfillable, Committed, RolledBack
    <3> QED BY <2>1, <3>1
  <2>16. \A j \in Attempts : intent[j] \in Settled => intent'[j] \in Settled
    BY <2>2, <2>12
  <2>17. XcashTold'
    <3>1. \A e \in Desks : desk'[e].at = "processed" => intent'[desk'[e].i] \in Settled
      BY <2>13, <2>14, <2>16 DEF XcashTold, SettledIntent
    <3>2. \A j \in Attempts : receipt'[j] \/ webhook'[j] = "answered" => intent'[j] \in Settled
      BY <2>2, <2>13, <2>15, <2>16 DEF XcashTold, SettledIntent
    <3> QED BY <3>1, <3>2 DEF XcashTold, SettledIntent
  <2> QED BY <2>11, <2>17
<1> QED
  BY <1>2, <1>3, <1>4, <1>5, <1>6, <1>7, <1>8, <1>9, <1>10, <1>11 DEF XcashNext, DeskWorks

-----------------------------------------------------------------------------
PaymentsInvariant == IntentMatchesBooks /\ Web3Told /\ StripeTold /\ XcashTold

LEMMA PaymentsInvStep ==
  ASSUME PaymentsTypeOK, PaymentsInvariant, [PaymentsNext]_payVars
  PROVE  PaymentsInvariant'
<1> USE DEF PaymentsTypeOK, PaymentsInvariant
<1>1. BooksTypeOK /\ StripeTypeOK /\ Web3TypeOK /\ XcashTypeOK
  OBVIOUS
\* A channel's part stands while the others work: receipts stay accounted for.
<1>2. ASSUME \A r \in Receipts : Accounted(r) => Accounted(r)'
      PROVE  /\ UNCHANGED web3Vars => Web3Told'
             /\ UNCHANGED stripeVars => StripeTold'
             /\ UNCHANGED xcashVars => XcashTold'
  <2>1. UNCHANGED web3Vars => Web3Told'
    BY <1>2, StripeIsReceipt DEF web3Vars, Web3Told
  <2>2. UNCHANGED stripeVars => StripeTold'
    BY <1>2, StripeIsReceipt DEF stripeVars, StripeTold
  <2>3. UNCHANGED xcashVars => XcashTold'
    BY DEF xcashVars, XcashTold, SettledIntent
  <2> QED BY <2>1, <2>2, <2>3
<1>3. CASE UNCHANGED payVars
  <2>1. UNCHANGED <<booksVars, stripeVars, web3Vars, xcashVars>>
    BY <1>3 DEF payVars
  <2>2. UNCHANGED intent
    BY <2>1 DEF xcashVars
  <2> QED BY <1>2, <2>1, <2>2, AccountedStays, OthersKeepIntents
<1>4. CASE BooksNext /\ UNCHANGED <<stripeVars, web3Vars, xcashVars, closing>>
  <2>1. UNCHANGED intent
    BY <1>4 DEF xcashVars
  <2> QED BY <1>2, <1>4, <2>1, AccountedStays, OthersKeepIntents
<1>5. CASE StripeNext /\ UNCHANGED <<web3Vars, xcashVars, closing>>
  <2>1. \A r \in Receipts : Accounted(r) => Accounted(r)'
    BY <1>5, StripeAccounts
  <2> QED BY <1>1, <1>2, <1>5, <2>1, StripeToldStep, StripeKeepsIntents
<1>6. CASE Web3Next /\ UNCHANGED <<stripeVars, xcashVars, closing>>
  <2>1. \A r \in Receipts : Accounted(r) => Accounted(r)'
    BY <1>6, Web3Accounts
  <2> QED BY <1>1, <1>2, <1>6, <2>1, Web3ToldStep, Web3KeepsIntents
<1>7. CASE XcashNext /\ UNCHANGED <<stripeVars, web3Vars, closing>>
  <2>1. \A r \in Receipts : Accounted(r) => Accounted(r)'
    BY <1>7, XcashAccounts
  <2> QED BY <1>1, <1>2, <1>7, <2>1, XcashStep
<1>8. CASE CancelChecked \/ CancelCommits
  <2>1. UNCHANGED <<stripeVars, web3Vars, xcashVars, cleared, anomaly>>
    BY <1>8 DEF CancelChecked, CancelCommits
  <2>2. \A r \in Receipts : Accounted(r) => Accounted(r)'
    BY <2>1 DEF Accounted
  <2>3. IntentMatchesBooks'
    BY <2>1 DEF IntentMatchesBooks, xcashVars
  <2> QED BY <1>2, <2>1, <2>2, <2>3
<1> QED
  BY <1>3, <1>4, <1>5, <1>6, <1>7, <1>8 DEF PaymentsNext

LEMMA PaymentsInvInit == PaymentsInit => PaymentsInvariant
<1> SUFFICES ASSUME PaymentsInit PROVE PaymentsInvariant
  OBVIOUS
<1>1. IntentMatchesBooks
  BY ReferencesDiffer DEF PaymentsInit, BooksInit, XcashInit, IntentMatchesBooks
<1>2. Web3Told
  BY DEF PaymentsInit, Web3Init, Web3Told, IdleTaker
<1>3. StripeTold
  BY DEF PaymentsInit, StripeInit, StripeTold, IdleHook
<1>4. XcashTold
  BY DEF PaymentsInit, XcashInit, XcashTold, IdleDesk
<1> QED
  BY <1>1, <1>2, <1>3, <1>4 DEF PaymentsInvariant

\* What an Xcash intent says of its invoice is what the books say, whatever the
\* interleaving of webhooks, queries, other channels and cancellations.
THEOREM IntentsFollowBooks == PaymentsSpec => []IntentMatchesBooks
<1>1. PaymentsInvariant => IntentMatchesBooks
  BY DEF PaymentsInvariant
<1> QED
  BY <1>1, PaymentsInvInit, PaymentsInvStep, PaymentsTypeCorrect, PTL DEF PaymentsSpec

\* No provider is told that its notification has been dealt with before the
\* money is in the books, for any number of deliveries and any failures.
THEOREM AcknowledgementsTrue == PaymentsSpec => []AcknowledgedIsBooked
<1>1. PaymentsInvariant => AcknowledgedIsBooked
  BY ReferencesDiffer
  DEF PaymentsInvariant, AcknowledgedIsBooked, Web3Told, StripeTold, XcashTold, SettledIntent,
      IntentMatchesBooks, Accounted
<1> QED
  BY <1>1, PaymentsInvInit, PaymentsInvStep, PaymentsTypeCorrect, PTL DEF PaymentsSpec

-----------------------------------------------------------------------------
(* Outbox, consumer and listener                                           *)

OutboxConstants ==
  /\ Levels \in Nat \ {0} /\ MaxDeliveryAttempts \in Nat \ {0}
  /\ OutboxMaxAttempts \in Nat \ {0} /\ BatchSize \in Nat \ {0} /\ MaxCopies \in Nat \ {0}

LEMMA OutboxConstantsOK == OutboxConstants
BY LevelsAssumption, OutboxAssumption DEF OutboxConstants

Batches     == Seq(Events \X (0..OutboxMaxAttempts))
PublisherAt == {"idle", "publish", "sent", "failed"}
RowType     == [status : {"none", "pending", "publishing", "sent", "dead"},
                attempts : 0..OutboxMaxAttempts, due : BOOLEAN, old : BOOLEAN]
CopyType    == [at : {"none", "ready", "delayed", "taken", "dead", "poison"},
                retries : Retries, redelivered : BOOLEAN]

\* A publisher that is not idle has an event in its hands.
PublisherOK(v) ==
  /\ v \in [at : PublisherAt, batch : Batches]
  /\ Len(v.batch) <= BatchSize
  /\ v.at # "idle" => v.batch # <<>>

DeliveryTyped ==
  /\ row \in [Events -> RowType]
  /\ DOMAIN publisher = Publishers
  /\ publisher = [p \in Publishers |-> publisher[p]]
  /\ \A p \in Publishers : PublisherOK(publisher[p])
  /\ bound \in BOOLEAN
  /\ queue \in [Events \X (1..MaxCopies) -> CopyType]
  /\ landed \in [Events -> BOOLEAN] /\ handled \in [Events -> BOOLEAN]
  /\ unheard \subseteq Events

LEMMA TypedIsTypeOK == DeliveryTyped => DeliveryTypeOK
BY DEF DeliveryTyped, DeliveryTypeOK, RowType, CopyType, PublisherOK, PublisherAt, Batches

LEMMA CurrentIsEvent ==
  ASSUME NEW p \in Publishers, PublisherOK(publisher[p]), publisher[p].at # "idle"
  PROVE  Current(p) \in Events /\ Head(publisher[p].batch) \in Events \X (0..OutboxMaxAttempts)
BY DEF PublisherOK, Batches, Current

LEMMA NextOfOK ==
  ASSUME DeliveryTyped, NEW p \in Publishers, publisher[p].at # "idle", NextOf(p)
  PROVE  /\ DOMAIN publisher' = Publishers
         /\ publisher' = [q \in Publishers |-> publisher'[q]]
         /\ \A q \in Publishers : PublisherOK(publisher'[q])
         /\ \A q \in Publishers : publisher'[q].at = "sent" => publisher'[q] = publisher[q]
<1> DEFINE rest == Tail(publisher[p].batch)
           v == IF rest = <<>> THEN IdlePublisher ELSE [at |-> "publish", batch |-> rest]
<1>1. publisher' = [publisher EXCEPT ![p] = v]
  BY DEF NextOf
<1>2. PublisherOK(publisher[p]) /\ BatchSize \in Nat
  BY OutboxConstantsOK DEF DeliveryTyped, OutboxConstants
<1>3. rest \in Batches /\ Len(rest) <= BatchSize
  BY <1>2 DEF PublisherOK, Batches
<1>4. PublisherOK(v) /\ v.at # "sent"
  <2>1. CASE rest = <<>>
    BY <2>1, <1>2 DEF PublisherOK, IdlePublisher, Batches, PublisherAt
  <2>2. CASE rest # <<>>
    BY <2>2, <1>3 DEF PublisherOK, PublisherAt
  <2> QED BY <2>1, <2>2
<1> HIDE DEF v
<1> QED
  BY <1>1, <1>4 DEF DeliveryTyped

-----------------------------------------------------------------------------
\* What every step of the outbox keeps of the queue, and of the queue of the outbox.
LEMMA OutboxTyped ==
  ASSUME DeliveryTyped, NEW p \in Publishers,
         MarkSent(p) \/ MarkFailed(p) \/ MarkLost(p)
  PROVE  DeliveryTyped'
<1>1. publisher[p].at # "idle" /\ NextOf(p) /\ UNCHANGED <<bound, queue, landed, handled, unheard>>
  BY DEF MarkSent, MarkFailed, MarkLost, InOutbox
<1>2. PublisherOK(publisher[p])
  BY DEF DeliveryTyped
<1>3. Current(p) \in Events /\ Head(publisher[p].batch) \in Events \X (0..OutboxMaxAttempts)
  BY <1>1, <1>2, CurrentIsEvent
<1>4. row' \in [Events -> RowType]
  <2>1. CASE MarkSent(p)
    BY <1>3, <2>1 DEF MarkSent, DeliveryTyped, RowType
  <2>2. CASE MarkFailed(p)
    <3> DEFINE e == Current(p)
               dead == e \notin Funds /\ Head(publisher[p].batch)[2] + 1 >= OutboxMaxAttempts
               n == IF row[e].attempts < OutboxMaxAttempts THEN row[e].attempts + 1
                    ELSE row[e].attempts
               st == IF dead THEN "dead" ELSE "pending"
    <3>1. n \in 0..OutboxMaxAttempts /\ st \in {"dead", "pending"} /\ dead \in BOOLEAN
      BY <1>3, OutboxConstantsOK DEF OutboxConstants, DeliveryTyped, RowType
    <3>2. row' = [row EXCEPT ![e].attempts = n, ![e].status = st,
                             ![e].due = dead]
      BY <2>2 DEF MarkFailed
    <3>3. \A r \in RowType, s \in {"dead", "pending"}, d \in BOOLEAN, k \in 0..OutboxMaxAttempts :
            [r EXCEPT !.attempts = k, !.status = s, !.due = d] \in RowType
      BY DEF RowType
    <3> HIDE DEF n, dead, st
    <3>4. row' = [row EXCEPT ![e] = [row[e] EXCEPT !.attempts = n, !.status = st, !.due = dead]]
      BY <1>3, <3>2 DEF DeliveryTyped, RowType
    <3>5. [row[e] EXCEPT !.attempts = n, !.status = st, !.due = dead] \in RowType
      BY <1>3, <3>1, <3>3 DEF DeliveryTyped
    <3> QED BY <1>3, <3>4, <3>5 DEF DeliveryTyped
  <2>3. CASE MarkLost(p)
    BY <2>3 DEF MarkLost, DeliveryTyped
  <2> QED BY <2>1, <2>2, <2>3
<1> QED
  BY <1>1, <1>4, NextOfOK DEF DeliveryTyped

LEMMA BatchTyped ==
  ASSUME DeliveryTyped, NEW p \in Publishers, FetchBatch(p)
  PROVE  DeliveryTyped'
<1> USE OutboxConstantsOK DEF OutboxConstants
<1>0. PICK n \in 1..BatchSize : \E batch \in [1..n -> {e \in Events : Claimable(e)}] :
        /\ publisher' = [publisher EXCEPT ![p] =
             [at |-> "publish", batch |-> [i \in 1..n |-> <<batch[i], row[batch[i]].attempts>>]]]
        /\ row' = [e \in Events |-> IF \E i \in 1..n : batch[i] = e
                     THEN [row[e] EXCEPT !.status = "publishing", !.old = FALSE] ELSE row[e]]
  BY DEF FetchBatch
<1>1. PICK batch \in [1..n -> {e \in Events : Claimable(e)}] :
        /\ publisher' = [publisher EXCEPT ![p] =
             [at |-> "publish", batch |-> [i \in 1..n |-> <<batch[i], row[batch[i]].attempts>>]]]
        /\ row' = [e \in Events |-> IF \E i \in 1..n : batch[i] = e
                     THEN [row[e] EXCEPT !.status = "publishing", !.old = FALSE] ELSE row[e]]
  BY <1>0
<1> DEFINE b == [i \in 1..n |-> <<batch[i], row[batch[i]].attempts>>]
<1>2. b \in [1..n -> Events \X (0..OutboxMaxAttempts)]
  BY <1>1 DEF DeliveryTyped, RowType
<1>3. b \in Batches /\ Len(b) = n /\ b # <<>>
  <2> HIDE DEF b
  <2>1. b \in Seq(Events \X (0..OutboxMaxAttempts)) /\ Len(b) = n
    BY <1>2
  <2> QED BY <2>1 DEF Batches
<1>4. PublisherOK([at |-> "publish", batch |-> b])
  <2> HIDE DEF b
  <2>1. n <= BatchSize
    OBVIOUS
  <2> QED BY <1>3, <2>1 DEF PublisherOK, PublisherAt
<1>5. /\ DOMAIN publisher' = Publishers /\ publisher' = [q \in Publishers |-> publisher'[q]]
      /\ \A q \in Publishers : PublisherOK(publisher'[q])
  <2> HIDE DEF b
  <2>1. publisher' = [publisher EXCEPT ![p] = [at |-> "publish", batch |-> b]]
    BY <1>1 DEF b
  <2> QED BY <1>4, <2>1 DEF DeliveryTyped
<1>6. row' \in [Events -> RowType]
  <2>1. \A r \in RowType : [r EXCEPT !.status = "publishing", !.old = FALSE] \in RowType
    BY DEF RowType
  <2>2. \A e \in Events : row[e] \in RowType
    BY DEF DeliveryTyped
  <2> QED BY <1>1, <2>1, <2>2
<1> QED
  BY <1>5, <1>6 DEF FetchBatch, InOutbox, DeliveryTyped

LEMMA PublishTyped ==
  ASSUME DeliveryTyped, NEW p \in Publishers, PublishDomainEvent(p)
  PROVE  /\ DeliveryTyped'
         /\ Current(p) \in Events
         /\ \A q \in Publishers \ {p} : publisher'[q] = publisher[q]
         /\ publisher'[p].batch = publisher[p].batch
<1>1. PublisherOK(publisher[p]) /\ publisher[p].at = "publish"
  BY DEF PublishDomainEvent, DeliveryTyped
<1>2. Current(p) \in Events
  BY <1>1, CurrentIsEvent
<1>3. PICK x \in {"sent", "failed"} : publisher' = [publisher EXCEPT ![p].at = x]
  BY DEF PublishDomainEvent
<1>8. unheard' \subseteq Events
  BY <1>2 DEF PublishDomainEvent, LostUnheard, DeliveryTyped
<1>4. /\ DOMAIN publisher' = Publishers /\ publisher' = [q \in Publishers |-> publisher'[q]]
      /\ \A q \in Publishers : PublisherOK(publisher'[q])
  <2>1. PublisherOK([publisher[p] EXCEPT !.at = x])
    BY <1>1 DEF PublisherOK, PublisherAt
  <2>2. publisher' = [publisher EXCEPT ![p] = [publisher[p] EXCEPT !.at = x]]
    BY <1>3
  <2> QED BY <2>1, <2>2 DEF DeliveryTyped
<1>5. queue' \in [Events \X (1..MaxCopies) -> CopyType] /\ landed' \in [Events -> BOOLEAN]
  <2>1. CASE UNCHANGED <<queue, landed>>
    BY <2>1 DEF DeliveryTyped
  <2>2. CASE Arrives(Current(p))
    BY <1>2, <2>2, SMTT(60) DEF Arrives, Free, DeliveryTyped, CopyType
  <2> QED BY <2>1, <2>2 DEF PublishDomainEvent, LostUnheard
<1>6. \A q \in Publishers \ {p} : publisher'[q] = publisher[q]
  BY <1>3 DEF DeliveryTyped
<1>7. publisher'[p].batch = publisher[p].batch
  BY <1>1, <1>3 DEF DeliveryTyped, PublisherOK
<1> QED
  BY <1>2, <1>4, <1>5, <1>6, <1>7, <1>8 DEF PublishDomainEvent, DeliveryTyped

LEMMA LimitOK == DeliveryLimit \in Nat /\ DeliveryLimit > Levels /\ Levels \in Nat
BY OutboxConstantsOK DEF OutboxConstants, DeliveryLimit, TheLarger

LEMMA CopyConstants ==
  ASSUME NEW n \in Retries
  PROVE  /\ n \in Nat
         /\ n + 1 < DeliveryLimit => n + 1 \in Retries
         /\ 1 \in Retries
BY OutboxConstantsOK DEF OutboxConstants, Retries, DeliveryLimit, TheLarger

QueueStep(c) == Take(c) \/ ChannelCloses(c) \/ ConsumerWorks(c) \/ DelayEnds(c)

LEMMA QueueTyped ==
  ASSUME DeliveryTyped, NEW c \in Events \X (1..MaxCopies), QueueStep(c)
  PROVE  DeliveryTyped'
<1>1. queue[c] \in CopyType /\ NoCopy \in CopyType /\ Requeued(c) \in CopyType
  <2>1. queue[c] \in CopyType /\ NoCopy \in CopyType
    BY OutboxConstantsOK DEF OutboxConstants, DeliveryTyped, CopyType, NoCopy, Retries
  <2> QED BY <2>1 DEF CopyType, Requeued
<1>2. UNCHANGED <<row, publisher, bound, landed, unheard>>
  BY DEF QueueStep, Take, ChannelCloses, ConsumerWorks, HandlerSucceeds, RetryToQueueOrDLQ, PoisonToDLQ, DelayEnds, InBroker
<1>3. handled' \in [Events -> BOOLEAN]
  BY DEF QueueStep, Take, ChannelCloses, ConsumerWorks, HandlerSucceeds, RetryToQueueOrDLQ, PoisonToDLQ, DelayEnds, DeliveryTyped
<1>4. queue' \in [Events \X (1..MaxCopies) -> CopyType]
  <2>0. \A copy \in CopyType : GoesOn(c, copy) => queue' \in [Events \X (1..MaxCopies) -> CopyType]
    BY <1>1 DEF GoesOn, Free, DeliveryTyped
  <2>1. CASE RetryToQueueOrDLQ(c)
    <3>1. queue[c].retries \in Retries
      BY <1>1 DEF CopyType
    <3>2. [queue[c] EXCEPT !.at = "dead", !.redelivered = FALSE] \in CopyType
      BY <1>1 DEF CopyType
    <3>3. deliveryCount(c) < DeliveryLimit =>
            [at |-> "delayed", retries |-> queue[c].retries + 1, redelivered |-> FALSE] \in CopyType
      <4>1. deliveryCount(c) < DeliveryLimit => queue[c].retries + 1 \in Retries
        BY <3>1, CopyConstants DEF deliveryCount
      <4> QED BY <4>1 DEF CopyType
    <3>4. deliveryCount(c) \in Nat
      BY <3>1, CopyConstants DEF deliveryCount
    <3>5. deliveryCount(c) < DeliveryLimit \/ deliveryCount(c) >= DeliveryLimit
      BY <3>4, LimitOK
    <3> QED BY <2>0, <2>1, <3>2, <3>3, <3>5 DEF RetryToQueueOrDLQ
  <2>2. CASE Take(c) \/ DelayEnds(c)
    <3>1. \A x \in {"taken", "ready"} : [queue[c] EXCEPT !.at = x] \in CopyType
      BY <1>1 DEF CopyType
    <3> QED BY <2>2, <3>1 DEF Take, DelayEnds, Moves, DeliveryTyped
  <2>3. CASE ChannelCloses(c) \/ HandlerSucceeds(c)
    BY <1>1, <2>3 DEF ChannelCloses, HandlerSucceeds, Acked, Moves, DeliveryTyped
  <2>4. CASE PoisonToDLQ(c)
    <3>1. [NoCopy EXCEPT !.at = "poison"] \in CopyType
      BY <1>1 DEF CopyType, NoCopy
    <3> QED BY <2>0, <2>4, <3>1 DEF PoisonToDLQ
  <2> QED BY <2>1, <2>2, <2>3, <2>4 DEF QueueStep, ConsumerWorks
<1> QED
  BY <1>2, <1>3, <1>4 DEF DeliveryTyped

LEMMA DeliveryTypedStep ==
  ASSUME DeliveryTyped, [DeliveryNext]_deliveryVars
  PROVE  DeliveryTyped'
<1>1. CASE UNCHANGED deliveryVars
  BY <1>1 DEF deliveryVars, DeliveryTyped
<1>2. ASSUME NEW e \in Events, Insert(e) \/ RetryDue(e) \/ ClaimGrowsOld(e)
      PROVE  DeliveryTyped'
  <2>1. row' \in [Events -> RowType]
    <3>1. CASE Insert(e)
      BY <3>1 DEF Insert, DeliveryTyped, RowType
    <3>2. CASE RetryDue(e)
      BY <3>2, ZenonT(60) DEF RetryDue, DeliveryTyped, RowType
    <3>3. CASE ClaimGrowsOld(e)
      BY <3>3, ZenonT(60) DEF ClaimGrowsOld, DeliveryTyped, RowType
    <3> QED BY <1>2, <3>1, <3>2, <3>3
  <2> QED BY <1>2, <2>1 DEF Insert, RetryDue, ClaimGrowsOld, InOutbox, DeliveryTyped
<1>3. ASSUME NEW p \in Publishers, PublisherDies(p)
      PROVE  DeliveryTyped'
  <2>1. PublisherOK(IdlePublisher)
    BY OutboxConstantsOK DEF OutboxConstants, PublisherOK, IdlePublisher, PublisherAt, Batches
  <2> QED BY <1>3, <2>1 DEF PublisherDies, InOutbox, DeliveryTyped
<1>4. CASE BindDomainQueue
  BY <1>4 DEF BindDomainQueue, InBroker, DeliveryTyped
<1> QED
  BY <1>1, <1>2, <1>3, <1>4, BatchTyped, PublishTyped, OutboxTyped, QueueTyped
     DEF DeliveryNext, QueueStep

LEMMA DeliveryTypedInit == DeliveryInit => DeliveryTyped
<1> SUFFICES ASSUME DeliveryInit PROVE DeliveryTyped
  OBVIOUS
<1>1. PublisherOK(IdlePublisher)
  BY OutboxConstantsOK DEF OutboxConstants, PublisherOK, IdlePublisher, PublisherAt, Batches
<1>2. NoRow \in RowType /\ NoCopy \in CopyType
  BY OutboxConstantsOK DEF OutboxConstants, NoRow, NoCopy, RowType, CopyType, Retries
<1> QED
  BY <1>1, <1>2 DEF DeliveryInit, DeliveryTyped

\* The rows, the batches in the publishers' hands and the copies in the broker
\* keep their types; retries stay within the limit that RetryToQueueOrDLQ sets.
THEOREM DeliveryTypeCorrect == DeliverySpec => []DeliveryTypeOK
BY DeliveryTypedInit, DeliveryTypedStep, TypedIsTypeOK, PTL DEF DeliverySpec

-----------------------------------------------------------------------------
\* EventsKept is not inductive: a row is marked with what a publisher found out
\* earlier, so a publisher on its way to the mark must hold an event that landed
\* or was published unheard.
ConfirmedLanded ==
  \A p \in Publishers :
    publisher[p].at = "sent" /\ Current(p) \in Funds => landed[Current(p)] \/ Current(p) \in unheard

OutboxInv == ConfirmedLanded /\ SentHasLanded
BrokerInv == LandedIsKept /\ EachLevelOnce

\* A step of the broker and its consumer: rows and publishers stay, what has
\* landed has landed.
LEMMA OutboxInvStep ==
  ASSUME DeliveryTyped, OutboxInv, [DeliveryNext]_deliveryVars
  PROVE  OutboxInv'
<1> USE FundsAssumption DEF OutboxInv
<1>1. ASSUME UNCHANGED <<row, publisher, landed, unheard>>
      PROVE  OutboxInv'
  BY <1>1 DEF ConfirmedLanded, SentHasLanded, Current
<1>2. CASE UNCHANGED deliveryVars \/ BindDomainQueue
  BY <1>1, <1>2 DEF deliveryVars, BindDomainQueue, InBroker
<1>3. ASSUME NEW c \in Events \X (1..MaxCopies), QueueStep(c)
      PROVE  OutboxInv'
  BY <1>1, <1>3 DEF QueueStep, Take, ChannelCloses, ConsumerWorks, HandlerSucceeds, RetryToQueueOrDLQ, PoisonToDLQ, DelayEnds, InBroker
<1>4. ASSUME NEW e \in Events, Insert(e) \/ RetryDue(e) \/ ClaimGrowsOld(e)
      PROVE  OutboxInv'
  <2>1. \A f \in Events : row'[f].status = "sent" => row[f].status = "sent"
    <3>1. row \in [Events -> RowType]
      BY DEF DeliveryTyped
    <3>2. CASE Insert(e)
      BY <3>1, <3>2 DEF Insert
    <3>3. CASE RetryDue(e)
      BY <3>1, <3>3 DEF RetryDue, RowType
    <3>4. CASE ClaimGrowsOld(e)
      BY <3>1, <3>4 DEF ClaimGrowsOld, RowType
    <3> QED
      BY <1>4, <3>2, <3>3, <3>4
  <2> QED
    BY <1>4, <2>1
    DEF Insert, RetryDue, ClaimGrowsOld, InOutbox, ConfirmedLanded, SentHasLanded, Current
<1>5. ASSUME NEW p \in Publishers, FetchBatch(p)
      PROVE  OutboxInv'
  <2>1. PICK v : publisher' = [publisher EXCEPT ![p] = [at |-> "publish", batch |-> v]]
    BY <1>5 DEF FetchBatch
  <2>2. UNCHANGED <<landed, unheard>>
    BY <1>5 DEF FetchBatch, InOutbox
  <2>3. ConfirmedLanded'
    BY <2>1, <2>2 DEF ConfirmedLanded, Current, DeliveryTyped
  <2>4. \A f \in Events : row'[f].status = "sent" => row[f].status = "sent"
    <3>1. PICK mine : row' = [e \in Events |-> IF e \in mine
                        THEN [row[e] EXCEPT !.status = "publishing", !.old = FALSE] ELSE row[e]]
      <4>1. PICK n \in 1..BatchSize : \E batch \in [1..n -> {e \in Events : Claimable(e)}] :
              row' = [e \in Events |-> IF \E i \in 1..n : batch[i] = e
                       THEN [row[e] EXCEPT !.status = "publishing", !.old = FALSE] ELSE row[e]]
        BY <1>5 DEF FetchBatch
      <4>2. PICK batch \in [1..n -> {e \in Events : Claimable(e)}] :
              row' = [e \in Events |-> IF \E i \in 1..n : batch[i] = e
                       THEN [row[e] EXCEPT !.status = "publishing", !.old = FALSE] ELSE row[e]]
        BY <4>1
      <4> WITNESS {e \in Events : \E i \in 1..n : batch[i] = e}
      <4> QED BY <4>2
    <3>2. \A r \in RowType : [r EXCEPT !.status = "publishing", !.old = FALSE].status = "publishing"
      BY DEF RowType
    <3>3. \A f \in Events : row[f] \in RowType
      BY DEF DeliveryTyped
    <3> QED BY <3>1, <3>2, <3>3
  <2> QED BY <2>2, <2>3, <2>4 DEF SentHasLanded
<1>6. ASSUME NEW p \in Publishers, PublishDomainEvent(p)
      PROVE  OutboxInv'
  <2>1. unheard \subseteq unheard' /\ \A f \in Events : landed[f] => landed'[f]
    BY <1>6, PublishTyped DEF PublishDomainEvent, LostUnheard, Arrives, DeliveryTyped
  <2>2. publisher'[p].at = "sent" /\ Current(p) \in Funds
          => landed'[Current(p)] \/ Current(p) \in unheard'
    <3>1. CASE Arrives(Current(p))
      BY <1>6, <3>1, PublishTyped DEF Arrives, DeliveryTyped
    <3>2. CASE publisher' = [publisher EXCEPT ![p].at = "failed"]
      BY <3>2 DEF DeliveryTyped, PublisherOK
    <3>3. CASE LostUnheard(Current(p))
      BY <3>3 DEF LostUnheard
    <3> QED BY <1>6, <3>1, <3>2, <3>3 DEF PublishDomainEvent
  <2>3. \A q \in Publishers : Current(q)' = Current(q)
    <3>1. \A q \in Publishers : publisher'[q].batch = publisher[q].batch
      BY <1>6, PublishTyped
    <3> QED BY <3>1 DEF Current
  <2>4. ConfirmedLanded'
    <3> SUFFICES ASSUME NEW q \in Publishers, publisher'[q].at = "sent", Current(q) \in Funds
                 PROVE  landed'[Current(q)] \/ Current(q) \in unheard'
      BY <2>3 DEF ConfirmedLanded
    <3>1. CASE q = p
      BY <2>2, <3>1
    <3>2. CASE q # p
      BY <1>6, <2>1, <3>2, PublishTyped DEF ConfirmedLanded
    <3> QED BY <3>1, <3>2
  <2> QED
    BY <1>6, <2>1, <2>4 DEF SentHasLanded, PublishDomainEvent
<1>7. ASSUME NEW p \in Publishers, MarkSent(p) \/ MarkFailed(p) \/ MarkLost(p)
      PROVE  OutboxInv'
  <2>1. publisher[p].at # "idle" /\ NextOf(p) /\ UNCHANGED <<landed, unheard>>
    BY <1>7 DEF MarkSent, MarkFailed, MarkLost, InOutbox
  <2>2. Current(p) \in Events
    BY <2>1, CurrentIsEvent DEF DeliveryTyped
  <2>3. ConfirmedLanded'
    BY <2>1, NextOfOK DEF ConfirmedLanded, Current
  <2>4. ASSUME NEW f \in Funds, row'[f].status = "sent"
        PROVE  row[f].status = "sent" \/ (MarkSent(p) /\ f = Current(p))
    <3>1. CASE MarkFailed(p)
      <4>1. row'[Current(p)].status # "sent"
        BY <2>2, <3>1 DEF MarkFailed, DeliveryTyped, RowType
      <4> QED BY <2>2, <2>4, <3>1, <4>1 DEF MarkFailed, DeliveryTyped, RowType
    <3>2. CASE MarkSent(p)
      BY <2>4, <3>2 DEF MarkSent, DeliveryTyped, RowType
    <3>3. CASE MarkLost(p)
      BY <2>4, <3>3 DEF MarkLost
    <3> QED BY <1>7, <3>1, <3>2, <3>3
  <2> QED
    BY <2>1, <2>3, <2>4 DEF SentHasLanded, ConfirmedLanded, MarkSent
<1>8. ASSUME NEW p \in Publishers, PublisherDies(p)
      PROVE  OutboxInv'
  BY <1>8 DEF PublisherDies, InOutbox, ConfirmedLanded, SentHasLanded, Current, IdlePublisher, DeliveryTyped
<1> QED
  BY <1>2, <1>3, <1>4, <1>5, <1>6, <1>7, <1>8 DEF DeliveryNext, QueueStep

\* Copies are only replaced by copies that go on, except one that was handled.
LEMMA BrokerInvStep ==
  ASSUME DeliveryTyped, BrokerInv, Levels > 1 \/ MaxDeliveryAttempts > 2,
         [DeliveryNext]_deliveryVars
  PROVE  BrokerInv'
<1> USE DEF BrokerInv
<1> DEFINE Cells == Events \X (1..MaxCopies)
<1>1. ASSUME UNCHANGED <<queue, landed, handled>>
      PROVE  BrokerInv'
  BY <1>1 DEF LandedIsKept, EachLevelOnce, Copies
<1>2. CASE UNCHANGED deliveryVars \/ BindDomainQueue
  BY <1>1, <1>2 DEF deliveryVars, BindDomainQueue
<1>3. ASSUME NEW e \in Events, Insert(e) \/ RetryDue(e) \/ ClaimGrowsOld(e)
      PROVE  BrokerInv'
  BY <1>1, <1>3 DEF Insert, RetryDue, ClaimGrowsOld, InOutbox
<1>4. ASSUME NEW p \in Publishers,
             FetchBatch(p) \/ MarkSent(p) \/ MarkFailed(p) \/ MarkLost(p) \/ PublisherDies(p)
      PROVE  BrokerInv'
  BY <1>1, <1>4 DEF FetchBatch, MarkSent, MarkFailed, MarkLost, PublisherDies, InOutbox
\* Any other step: what landed is handled or still there, and only copies that
\* have gone through the levels are dead.
<1>5. ASSUME \A c \in Cells : queue'[c].at = "none" => queue[c].at = "none" \/ handled'[c[1]],
             \A e \in Events : handled[e] => handled'[e],
             \A e \in Events : landed'[e] => landed[e] \/ \E c \in Copies(e) : queue'[c].at # "none",
             \A c \in Cells : queue'[c].at = "dead" =>
               queue'[c].retries >= Levels \/ queue'[c] = queue[c]
      PROVE  BrokerInv'
  <2>1. \A e \in Events : \A c \in Copies(e) : c \in Cells /\ c[1] = e
    BY DEF Copies
  <2>2. LandedIsKept'
    <3> SUFFICES ASSUME NEW e \in Events, landed'[e], ~handled'[e]
                 PROVE  \E c \in Copies(e) : queue'[c].at # "none"
      BY DEF LandedIsKept, Copies
    <3>1. CASE landed[e]
      <4>1. PICK c \in Copies(e) : queue[c].at # "none"
        BY <1>5, <3>1 DEF LandedIsKept
      <4> QED BY <1>5, <2>1, <4>1
    <3> QED BY <1>5, <3>1
  <2>3. EachLevelOnce'
    BY <1>5, <2>1 DEF EachLevelOnce, Copies
  <2> QED BY <2>2, <2>3
<1>6. ASSUME NEW p \in Publishers, PublishDomainEvent(p)
      PROVE  BrokerInv'
  <2>1. CASE UNCHANGED <<queue, landed>>
    BY <1>1, <1>6, <2>1 DEF PublishDomainEvent
  <2>2. CASE Arrives(Current(p))
    <3>1. Current(p) \in Events
      BY <1>6, PublishTyped
    <3>2. PICK i \in Free(Current(p)) :
            /\ queue' = [queue EXCEPT ![<<Current(p), i>>].at = "ready"]
            /\ landed' = [landed EXCEPT ![Current(p)] = TRUE]
      BY <2>2 DEF Arrives
    <3>3. <<Current(p), i>> \in Cells /\ <<Current(p), i>> \in Copies(Current(p))
      BY <3>1 DEF Free, Copies
    <3>4. UNCHANGED handled /\ queue'[<<Current(p), i>>].at = "ready"
      BY <1>6, <3>2, <3>3 DEF PublishDomainEvent, DeliveryTyped, CopyType
    <3>5. \A c \in Cells : c # <<Current(p), i>> => queue'[c] = queue[c]
      BY <3>2, <3>3 DEF DeliveryTyped
    <3>6. \A e \in Events : e # Current(p) => landed'[e] = landed[e]
      BY <3>1, <3>2 DEF DeliveryTyped
    <3> QED BY <1>5, <3>3, <3>4, <3>5, <3>6
  <2> QED BY <1>6, <2>1, <2>2 DEF PublishDomainEvent, LostUnheard
<1>7. ASSUME NEW c \in Cells, QueueStep(c)
      PROVE  BrokerInv'
  <2>0. queue[c] \in CopyType /\ Requeued(c).at = "ready" /\ c[1] \in Events
    BY DEF DeliveryTyped, CopyType, Requeued
\* A copy that goes on is never dead before its levels.
  <2>4. ASSUME NEW copy, GoesOn(c, copy), copy.at # "none", copy.at = "dead" => copy.retries >= Levels,
               UNCHANGED <<landed, handled>>
        PROVE  BrokerInv'
    <3>1. \A d \in Cells : queue'[d] = queue[d] \/ queue'[d] = copy \/ queue'[d] = Requeued(c)
      BY <2>4 DEF GoesOn, Free, DeliveryTyped
    <3> QED BY <1>5, <2>0, <2>4, <3>1
  <2>1. CASE RetryToQueueOrDLQ(c)
    <3> DEFINE done == [queue[c] EXCEPT !.at = "dead", !.redelivered = FALSE]
               on == [at |-> "delayed", retries |-> queue[c].retries + 1, redelivered |-> FALSE]
    <3>1. deliveryCount(c) >= DeliveryLimit => queue[c].retries >= Levels
      BY <2>0, OutboxConstantsOK
      DEF OutboxConstants, deliveryCount, DeliveryLimit, TheLarger, CopyType, Retries
    <3>2. done.at = "dead" /\ done.retries = queue[c].retries /\ on.at = "delayed"
      BY <2>0 DEF CopyType
    <3>3. /\ (GoesOn(c, done) /\ deliveryCount(c) >= DeliveryLimit) \/ GoesOn(c, on)
          /\ UNCHANGED <<landed, handled>>
      BY <2>1 DEF RetryToQueueOrDLQ
    <3> HIDE DEF done, on
    <3> QED BY <2>4, <3>1, <3>2, <3>3
  <2>2. CASE Take(c) \/ DelayEnds(c) \/ ChannelCloses(c)
    <3>1. UNCHANGED <<landed, handled>> /\ \A d \in Cells \ {c} : queue'[d] = queue[d]
      BY <2>2 DEF Take, DelayEnds, ChannelCloses, Moves, DeliveryTyped
    <3>2. queue'[c].at \in {"taken", "ready"}
      BY <2>0, <2>2 DEF Take, DelayEnds, ChannelCloses, Moves, DeliveryTyped, CopyType
    <3> QED BY <1>5, <3>1, <3>2
  <2>3. CASE HandlerSucceeds(c)
    <3>1. UNCHANGED landed /\ \A d \in Cells \ {c} : queue'[d] = queue[d]
      BY <2>3 DEF HandlerSucceeds, Acked, Moves, DeliveryTyped
    <3>2. queue'[c].at \in {"none", "ready"}
      BY <2>0, <2>3 DEF HandlerSucceeds, Acked, Moves, DeliveryTyped, NoCopy
    <3>3. handled'[c[1]] /\ \A e \in Events : handled[e] => handled'[e]
      BY <2>0, <2>3 DEF HandlerSucceeds, DeliveryTyped
    <3> QED BY <1>5, <3>1, <3>2, <3>3
  <2>5. CASE PoisonToDLQ(c)
    BY <2>4, <2>5 DEF PoisonToDLQ, NoCopy
  <2> QED BY <1>7, <2>1, <2>2, <2>3, <2>5 DEF QueueStep, ConsumerWorks
<1> QED
  BY <1>2, <1>3, <1>4, <1>6, <1>7 DEF DeliveryNext, QueueStep

LEMMA DeliveryInvInit == DeliveryInit => OutboxInv /\ BrokerInv
BY FundsAssumption DEF DeliveryInit, OutboxInv, BrokerInv, ConfirmedLanded, SentHasLanded, LandedIsKept,
   EachLevelOnce, Copies, NoRow, NoCopy, IdlePublisher

\* No event is lost between the transaction that wrote it and its consumer,
\* however publishers die, claims and marks cross and acknowledgements get
\* lost, but for those that a channel without confirms lost; and what lies in
\* the dead-letter queue went through the delay queues or is poison.  With one delay queue and no more than two deliveries a message that
\* comes back once passes it by: the limit of deliveries must be three then.
THEOREM NoEventLost ==
  ASSUME Levels > 1 \/ MaxDeliveryAttempts > 2
  PROVE  DeliverySpec => []EventsKept
<1>1. DeliveryTyped /\ OutboxInv /\ BrokerInv /\ [DeliveryNext]_deliveryVars
        => (DeliveryTyped /\ OutboxInv /\ BrokerInv)'
  BY DeliveryTypedStep, OutboxInvStep, BrokerInvStep
<1>2. OutboxInv /\ BrokerInv => EventsKept
  BY DEF OutboxInv, BrokerInv, EventsKept
<1> QED
  BY <1>1, <1>2, DeliveryTypedInit, DeliveryInvInit, PTL DEF DeliverySpec

-----------------------------------------------------------------------------
(* The listener of the chain. *)

ListenerConstants ==
  ConfirmDepth \in Nat \ {0} /\ MaxBlockRange \in Nat \ {0} /\ MaxHead \in Nat /\ MaxSetbacks \in Nat

LEMMA ListenerConstantsOK == ListenerConstants
BY DepthAssumption, ContentsAssumption, SetbacksAssumption DEF ListenerConstants

\* A scan stays within its range and the range within the buried blocks; a log
\* it is about to write is a payment of a buried block.
ScanType ==
  [at : {"filter", "log", "insert", "release", "save"}, from : 1..(MaxHead + 1), to : 0..MaxHead,
   safe : 0..MaxHead, block : 0..MaxHead, index : Nat, failed : 0..MaxHead, own : BOOLEAN]

Writing == scan.at \in {"insert", "release"}
PayAt(b, i) == b \in 1..head /\ i \in 1..Len(chain[b]) /\ chain[b][i] = "pay"

ScanOK ==
  scan # NoScan =>
    /\ scan \in ScanType /\ scan.index >= 1
    /\ scan.from <= scan.to /\ scan.to <= scan.safe /\ scan.safe <= head - ConfirmDepth
    /\ scan.from <= scan.block /\ scan.block <= scan.to + 1
    /\ scan.at = "filter" => scan.block = scan.from /\ scan.index = 1 /\ scan.failed = 0
    /\ scan.failed # 0 => scan.failed = scan.block /\ scan.at = "log" /\ scan.block <= scan.to
    /\ Writing => scan.block <= scan.to /\ PayAt(scan.block, scan.index)

ListenerShape ==
  /\ chain \in Seq(Contents) /\ head <= MaxHead
  /\ cursor \in 0..MaxHead /\ origin \in 0..MaxHead
  /\ cursor > 0 => cursor <= head - ConfirmDepth
  /\ claimed \subseteq Logs
  /\ emitted \in [Logs -> 0..2]
  /\ setbacks \in Nat
  /\ ScanOK

LEMMA ShapeIsTypeOK == ListenerShape => ListenerTypeOK
<1>1. ScanOK => scan \in {NoScan} \cup ScanType
  BY DEF ScanOK
<1> QED
  BY <1>1, Zenon DEF ListenerShape, ListenerTypeOK, ScanType

\* The payments of a block, read position by position.
LEMMA PaymentsOfBlock ==
  ASSUME chain \in Seq(Contents), NEW b \in 1..head
  PROVE  /\ chain[b] \in Seq({"pay", "malformed"})
         /\ DOMAIN chain[b] = 1..Len(chain[b]) /\ Len(chain[b]) \in Nat
         /\ \A l : l \in Payments(b) <=> \E i : l = <<b, i>> /\ PayAt(b, i)
<1>0. chain[b] \in Contents
  BY DEF head
<1>1. chain[b] \in Seq({"pay", "malformed"})
  BY <1>0, ContentsAssumption
<1>2. DOMAIN chain[b] = 1..Len(chain[b]) /\ Len(chain[b]) \in Nat
  BY <1>1
<1>3. ASSUME NEW l
      PROVE  l \in Payments(b) <=> \E i : l = <<b, i>> /\ PayAt(b, i)
  BY <1>2 DEF Payments, PayAt
<1> QED
  BY <1>1, <1>2, <1>3

LEMMA PayIsLog ==
  ASSUME chain \in Seq(Contents), head <= MaxHead, NEW b, NEW i, PayAt(b, i)
  PROVE  <<b, i>> \in Logs /\ <<b, i>> \in Payments(b)
<1>1. b \in Blocks /\ b \in 1..head
  BY ListenerConstantsOK DEF ListenerConstants, PayAt, Blocks, head
<1>2. i \in DOMAIN chain[b] /\ chain[b] \in Contents
  BY <1>1, PaymentsOfBlock DEF PayAt, head
<1> QED
  BY <1>1, <1>2, PaymentsOfBlock DEF Logs, LogIndex

\* Blocks that are buried are never replaced.
LEMMA BuriedStays ==
  ASSUME ListenerShape, [ListenerNext]_listenerVars
  PROVE  /\ chain' \in Seq(Contents) /\ head' <= MaxHead /\ head' >= head
         /\ \A b \in 1..(head - ConfirmDepth) : chain'[b] = chain[b]
<1> USE ListenerConstantsOK DEF ListenerConstants, head
<1>1. chain \in Seq(Contents) /\ Len(chain) <= MaxHead
  BY DEF ListenerShape
<1>2. CASE UNCHANGED chain
  BY <1>1, <1>2
<1>3. CASE Mined
  <2>1. PICK s \in Contents : chain' = Append(chain, s)
    BY <1>3 DEF Mined
  <2> QED BY <1>1, <1>3, <2>1 DEF Mined
<1>4. CASE Reorganised
  <2>1. PICK b \in Blocks, s \in Contents :
          b > head - ConfirmDepth /\ b <= head /\ chain' = [chain EXCEPT ![b] = s]
    BY <1>4 DEF Reorganised
  <2> QED BY <1>1, <2>1 DEF Blocks
<1> QED
  BY <1>2, <1>3, <1>4 DEF ListenerNext, listenerVars, ScanBegins, FilterLogsFails, OutboxFails,
     ScanWorks, ListenerDies, FilterLogs, NextBlock, SkipMalformed, tryClaim, OutboxInsert,
     releaseClaim, saveLastBlock, Scanning

LEMMA PaysStay ==
  ASSUME ListenerShape, [ListenerNext]_listenerVars
  PROVE  \A b \in 1..(head - ConfirmDepth) : \A i :
           PayAt(b, i)' <=> PayAt(b, i)
<1> USE ListenerConstantsOK DEF ListenerConstants, head
<1>1. head \in Nat /\ head' \in Nat /\ head' >= head
  BY BuriedStays DEF ListenerShape, head
<1>2. ASSUME NEW b \in 1..(head - ConfirmDepth), NEW i
      PROVE  PayAt(b, i)' <=> PayAt(b, i)
  BY <1>1, BuriedStays DEF PayAt
<1> QED
  BY <1>2

\* What is known of a scan that is at work, and of the log it is at.
LEMMA ScanFacts ==
  ASSUME ListenerShape, scan # NoScan
  PROVE  /\ scan \in ScanType /\ scan.index \in Nat \ {0}
         /\ scan.from \in 1..MaxHead /\ scan.block \in 1..MaxHead /\ scan.to \in 0..MaxHead
         /\ scan.from <= scan.to /\ scan.from <= scan.block /\ scan.block <= scan.to + 1
         /\ scan.to <= scan.safe /\ scan.safe \in 0..MaxHead /\ scan.safe <= head - ConfirmDepth
         /\ scan.to <= head - ConfirmDepth /\ scan.block - 1 <= head - ConfirmDepth
         /\ head \in Nat /\ head <= MaxHead
         /\ scan.failed \in Nat
         /\ scan.failed # 0 => scan.failed = scan.block /\ scan.at = "log" /\ scan.block <= scan.to
         /\ scan.at = "filter" => scan.block = scan.from /\ scan.index = 1 /\ scan.failed = 0
         /\ Writing => scan.block <= scan.to /\ PayAt(scan.block, scan.index)
<1>1. head \in Nat /\ head <= MaxHead
  BY DEF ListenerShape, head
<1>2. /\ scan \in ScanType /\ scan.index >= 1
      /\ scan.from <= scan.to /\ scan.to <= scan.safe /\ scan.safe <= head - ConfirmDepth
      /\ scan.from <= scan.block /\ scan.block <= scan.to + 1
      /\ scan.at = "filter" => scan.block = scan.from /\ scan.index = 1 /\ scan.failed = 0
      /\ scan.failed # 0 => scan.failed = scan.block /\ scan.at = "log" /\ scan.block <= scan.to
      /\ Writing => scan.block <= scan.to /\ PayAt(scan.block, scan.index)
  BY Zenon DEF ListenerShape, ScanOK
<1>3. /\ scan.from \in 1..(MaxHead + 1) /\ scan.to \in 0..MaxHead /\ scan.safe \in 0..MaxHead
      /\ scan.block \in 0..MaxHead /\ scan.index \in Nat /\ scan.failed \in 0..MaxHead
  BY <1>2 DEF ScanType
<1> QED
  BY <1>1, <1>2, <1>3, ListenerConstantsOK DEF ListenerConstants

LEMMA BusyScan ==
  ASSUME scan.at \in {"filter", "log", "insert", "release"} PROVE scan # NoScan
BY DEF NoScan

\* The steps of a scan, and what each of them leaves of it.
LEMMA ScanStep ==
  ASSUME ListenerShape, [ListenerNext]_listenerVars
  PROVE  ScanOK'
<1> USE ListenerConstantsOK DEF ListenerConstants, head
<1>1. /\ head \in Nat /\ head <= MaxHead /\ cursor \in 0..MaxHead
      /\ cursor > 0 => cursor <= head - ConfirmDepth
  BY DEF ListenerShape, head
<1>2. head' \in Nat /\ head' >= head
  BY <1>1, BuriedStays DEF head, ListenerShape
<1>3. CASE UNCHANGED scan
  <2>1. CASE scan # NoScan
    <3>1. Writing => scan.block \in 1..(head - ConfirmDepth)
      BY <2>1, ScanFacts
    <3>2. Writing => PayAt(scan.block, scan.index)'
      BY <1>3, <2>1, <3>1, ScanFacts, PaysStay
    <3> QED BY <1>1, <1>2, <1>3, <2>1, <3>2, ScanFacts DEF ScanOK, Writing
  <2> QED BY <1>3, <2>1 DEF ScanOK
<1>4. CASE scan' = NoScan
  BY <1>4 DEF ScanOK
<1>5. CASE ScanBegins
  <2>1. PICK seen \in 0..head :
          LET safe == seen - ConfirmDepth
              from == IF cursor = 0 THEN safe ELSE cursor + 1
          IN  /\ safe >= 1 /\ from <= safe
              /\ scan' = [at |-> "filter", from |-> from, to |-> TheSmaller(from + MaxBlockRange - 1, safe),
                          safe |-> safe, block |-> from, index |-> 1, failed |-> 0, own |-> FALSE]
    BY <1>5, Zenon DEF ScanBegins
  <2> DEFINE safe == seen - ConfirmDepth
             from == IF cursor = 0 THEN safe ELSE cursor + 1
             to   == TheSmaller(from + MaxBlockRange - 1, safe)
  <2>2. safe \in 1..MaxHead /\ from \in 1..MaxHead /\ to \in 1..MaxHead /\ from <= to /\ to <= safe
        /\ safe <= head - ConfirmDepth
    BY <1>1, <2>1 DEF TheSmaller
  <2>3. scan' = [at |-> "filter", from |-> from, to |-> to, safe |-> safe, block |-> from,
                 index |-> 1, failed |-> 0, own |-> FALSE]
    BY <2>1
  <2> HIDE DEF safe, from, to
  <2>4. scan' \in ScanType
    BY <2>2, <2>3 DEF ScanType
  <2>5. scan'.at = "filter" /\ scan'.from = from /\ scan'.to = to /\ scan'.safe = safe /\ scan'.block = from
        /\ scan'.index = 1 /\ scan'.failed = 0
    BY <2>3
  <2> QED BY <1>1, <1>2, <2>2, <2>4, <2>5 DEF ScanOK, Writing
<1>6. ASSUME scan # NoScan, UNCHANGED chain
      PROVE  head' = head /\ \A b, i : PayAt(b, i)' <=> PayAt(b, i)
  BY <1>6 DEF PayAt, head
<1>8. CASE FilterLogs
  <2>1. scan # NoScan /\ UNCHANGED chain /\ scan' = [scan EXCEPT !.at = "log"] /\ scan.at = "filter"
    BY <1>8, BusyScan DEF FilterLogs, Scanning
  <2>2. scan' \in ScanType /\ scan'.at = "log" /\ scan'.from = scan.from /\ scan'.to = scan.to
        /\ scan'.safe = scan.safe /\ scan'.block = scan.block /\ scan'.index = scan.index /\ scan'.failed = 0
    BY <2>1, ScanFacts DEF ScanType
  <2> QED BY <1>6, <2>1, <2>2, ScanFacts DEF ScanOK, Writing
<1>9. CASE NextBlock
  <2>1. scan # NoScan /\ UNCHANGED chain /\ AtLog
        /\ scan' = [scan EXCEPT !.block = @ + 1, !.index = 1]
    BY <1>9, BusyScan DEF NextBlock, Scanning, AtLog
  <2>a. scan.failed = 0 /\ scan.block <= scan.to
    BY <2>1, ScanFacts DEF AtLog
  <2>2. scan.failed = 0 /\ scan.block <= scan.to /\ scan.block + 1 \in 0..MaxHead
    BY <2>1, <2>a, ScanFacts, SMTT(60)
  <2>3. scan'.at = "log" /\ scan'.from = scan.from /\ scan'.to = scan.to
        /\ scan'.safe = scan.safe /\ scan'.block = scan.block + 1 /\ scan'.index = 1 /\ scan'.failed = 0
    BY <2>1, <2>2, ScanFacts DEF ScanType, AtLog
  <2>4. scan' \in ScanType
    BY <2>1, <2>2, ScanFacts DEF ScanType
  <2>5. scan'.from <= scan'.to /\ scan'.to <= scan'.safe /\ scan'.safe <= head' - ConfirmDepth
        /\ scan'.from <= scan'.block /\ scan'.block <= scan'.to + 1
    BY <1>6, <2>1, <2>2, <2>3, ScanFacts, SMTT(60)
  <2> QED BY <2>3, <2>4, <2>5 DEF ScanOK, Writing
<1>10. CASE scan' = NextLog /\ UNCHANGED chain /\ (AtLog \/ scan.at = "insert")
  <2>1. scan # NoScan /\ scan.block <= scan.to /\ scan.failed = 0
    BY <1>10, BusyScan, ScanFacts DEF AtLog, Writing
  <2>2. scan' \in ScanType /\ scan'.at = "log" /\ scan'.from = scan.from /\ scan'.to = scan.to
        /\ scan'.safe = scan.safe /\ scan'.block = scan.block /\ scan'.index = scan.index + 1 /\ scan'.failed = 0
    <3>1. scan.index + 1 \in Nat
      BY <2>1, ScanFacts
    <3> QED BY <1>10, <2>1, <3>1, ScanFacts DEF ScanType, NextLog
  <2> QED BY <1>6, <1>10, <2>1, <2>2, ScanFacts DEF ScanOK, Writing
<1>11. ASSUME NEW o \in BOOLEAN, HereIs("pay"), UNCHANGED chain,
              scan' = [scan EXCEPT !.at = "insert", !.own = o]
       PROVE  ScanOK'
  <2>1. scan # NoScan /\ scan.block <= scan.to /\ scan.failed = 0
    BY <1>11, BusyScan, ScanFacts DEF HereIs, AtLog
  <2>2. scan' \in ScanType /\ scan'.at = "insert" /\ scan'.from = scan.from /\ scan'.to = scan.to
        /\ scan'.safe = scan.safe /\ scan'.block = scan.block /\ scan'.index = scan.index /\ scan'.failed = 0
    BY <1>11, <2>1, ScanFacts DEF ScanType
  <2>3. PayAt(scan.block, scan.index)
    <3>1. scan.block \in 1..head
      BY <2>1, ScanFacts, ListenerConstantsOK DEF ListenerConstants
    <3>2. Len(chain[scan.block]) \in Nat
      BY <3>1, PaymentsOfBlock DEF ListenerShape
    <3> QED BY <1>11, <2>1, <3>1, <3>2, ScanFacts DEF PayAt, HereIs
  <2>4. PayAt(scan.block, scan.index)'
    BY <1>6, <1>11, <2>1, <2>2, <2>3
  <2> QED BY <1>6, <1>11, <2>1, <2>2, <2>4, ScanFacts DEF ScanOK, Writing
<1>12. CASE OutboxFails
  <2>1. scan # NoScan /\ UNCHANGED chain /\ scan' = [scan EXCEPT !.at = "release"] /\ Writing
    BY <1>12, BusyScan DEF OutboxFails, Scanning, Writing
  <2>2. scan' \in ScanType /\ scan'.at = "release" /\ scan'.from = scan.from /\ scan'.to = scan.to
        /\ scan'.safe = scan.safe /\ scan'.block = scan.block /\ scan'.index = scan.index
        /\ scan'.failed = scan.failed /\ scan.failed = 0
    BY <1>12, <2>1, ScanFacts DEF ScanType, OutboxFails
  <2>3. PayAt(scan.block, scan.index)'
    BY <1>6, <2>1, <2>2, ScanFacts
  <2> QED BY <1>6, <2>1, <2>2, <2>3, ScanFacts DEF ScanOK, Writing
<1>13. CASE releaseClaim
  <2>1. scan # NoScan /\ UNCHANGED chain /\ Writing
        /\ scan' = [scan EXCEPT !.at = "log", !.failed = scan.block, !.own = FALSE]
    BY <1>13, BusyScan DEF releaseClaim, Writing
  <2>2. scan' \in ScanType /\ scan'.at = "log" /\ scan'.from = scan.from /\ scan'.to = scan.to
        /\ scan'.safe = scan.safe /\ scan'.block = scan.block /\ scan'.index = scan.index
        /\ scan'.failed = scan.block
    BY <2>1, ScanFacts DEF ScanType
  <2> QED BY <1>6, <2>1, <2>2, ScanFacts DEF ScanOK, Writing
<1>14. CASE saveLastBlock /\ scan' # NoScan
  <2> DEFINE next == scan.to + 1
             to   == TheSmaller(next + MaxBlockRange - 1, scan.safe)
  <2>d. scan # NoScan /\ UNCHANGED chain
    BY <1>14, BusyScan DEF saveLastBlock
  <2>e. scan.failed = 0 /\ ~(next > scan.safe)
    BY <1>14 DEF saveLastBlock
  <2>0. scan # NoScan /\ UNCHANGED chain /\ scan.failed = 0 /\ next <= scan.safe
    BY <2>d, <2>e, ScanFacts
  <2>1. scan' = [scan EXCEPT !.at = "filter", !.from = next, !.block = next, !.index = 1, !.to = to]
    BY <1>14 DEF saveLastBlock
  <2>a. scan.to \in 0..MaxHead /\ scan.safe \in 0..MaxHead
    BY <2>0, ScanFacts
  <2>b. next \in 1..MaxHead /\ next \in 1..(MaxHead + 1)
    BY <2>0, <2>a
  <2>c. to \in next..scan.safe
    BY <2>0, <2>a, <2>b DEF TheSmaller
  <2>2. next <= to /\ to <= scan.safe /\ to \in 0..MaxHead
    BY <2>a, <2>b, <2>c
  <2> HIDE DEF next, to
  <2>3. scan'.at = "filter" /\ scan'.from = next /\ scan'.to = to
        /\ scan'.safe = scan.safe /\ scan'.block = next /\ scan'.index = 1 /\ scan'.failed = 0
    BY <2>0, <2>1, ScanFacts DEF ScanType
  <2>4. scan' \in ScanType
    <3>1. next \in 0..MaxHead /\ scan \in ScanType
      BY <2>0, <2>b, ScanFacts
    <3>2. \A r \in ScanType, n \in 0..MaxHead, t \in 0..MaxHead : n \in 1..(MaxHead + 1) =>
            [r EXCEPT !.at = "filter", !.from = n, !.block = n, !.index = 1, !.to = t] \in ScanType
      BY DEF ScanType
    <3> QED BY <2>1, <2>2, <2>b, <3>1, <3>2
  <2>5. scan.safe <= head' - ConfirmDepth
    BY <1>6, <2>0, ScanFacts
  <2> QED BY <2>2, <2>3, <2>4, <2>5, <2>a, <2>b DEF ScanOK, Writing
<1>15. CASE tryClaim
  <2>1. scan.own \in BOOLEAN /\ [scan EXCEPT !.at = "insert"] = [scan EXCEPT !.at = "insert", !.own = scan.own]
    BY <1>15, BusyScan, ScanFacts DEF tryClaim, HereIs, AtLog, ScanType
  <2> QED BY <1>10, <1>11, <1>15, <2>1 DEF tryClaim, HereIs
<1> QED
  BY <1>3, <1>4, <1>5, <1>8, <1>9, <1>10, <1>12, <1>13, <1>14, <1>15
  DEF ListenerNext, ScanWorks, listenerVars, Mined, Reorganised, OnChain, FilterLogsFails,
      SkipMalformed, OutboxInsert, ListenerDies, Scanning, HereIs

LEMMA PositionIsLog ==
  ASSUME ListenerShape, Writing
  PROVE  Position \in Logs /\ scan.block \in Blocks /\ scan.index \in LogIndex
BY BusyScan, ScanFacts, PayIsLog DEF Writing, Position, ListenerShape, Logs

LEMMA HereIsPay ==
  ASSUME ListenerShape, HereIs("pay")
  PROVE  PayAt(scan.block, scan.index) /\ Position \in Logs
<1> USE ListenerConstantsOK DEF ListenerConstants, head
<1>1. scan # NoScan /\ scan.block \in 1..head /\ scan.index \in Nat \ {0}
  BY BusyScan, ScanFacts DEF HereIs, AtLog, ListenerShape, head
<1>2. Len(chain[scan.block]) \in Nat
  BY <1>1, PaymentsOfBlock DEF ListenerShape
<1>3. PayAt(scan.block, scan.index)
  BY <1>1, <1>2 DEF HereIs, PayAt
<1> QED
  BY <1>3, PayIsLog DEF Position, ListenerShape

\* An event is written, by an INSERT that reports it or by one that does not.
Emits == emitted' = [emitted EXCEPT ![Position] = TheSmaller(@ + 1, 2)]

LEMMA OnlyInsertsEmit ==
  ASSUME [ListenerNext]_listenerVars
  PROVE  UNCHANGED emitted \/ ((OutboxInsert \/ OutboxFails) /\ Emits)
BY DEF ListenerNext, ScanWorks, listenerVars, Mined, Reorganised, OnChain, FilterLogsFails,
   SkipMalformed, ListenerDies, ScanBegins, saveLastBlock, NextBlock, tryClaim, OutboxFails,
   releaseClaim, FilterLogs, OutboxInsert, Emits

LEMMA ListenerShapeStep ==
  ASSUME ListenerShape, [ListenerNext]_listenerVars
  PROVE  ListenerShape'
<1> USE ListenerConstantsOK DEF ListenerConstants, head
<1>1. /\ head \in Nat /\ head <= MaxHead /\ cursor \in 0..MaxHead
      /\ cursor > 0 => cursor <= head - ConfirmDepth
      /\ origin \in 0..MaxHead /\ claimed \subseteq Logs /\ emitted \in [Logs -> 0..2] /\ setbacks \in Nat
  BY DEF ListenerShape, head
<1>2. head' \in Nat /\ head' >= head
  BY <1>1, BuriedStays DEF head, ListenerShape
<1>5. (cursor \in 0..MaxHead)' /\ (cursor > 0 => cursor <= head - ConfirmDepth)'
  <2>1. CASE UNCHANGED cursor
    <3>1. cursor' = cursor
      BY <2>1
    <3> QED BY <1>1, <1>2, <3>1
  <2>2. CASE saveLastBlock /\ ~UNCHANGED cursor
    <3>1. scan # NoScan /\ cursor' = IF scan.failed = 0 THEN scan.to ELSE scan.failed - 1
      BY <2>2, BusyScan DEF saveLastBlock
    <3>2. cursor' \in 0..MaxHead /\ cursor' <= head - ConfirmDepth
      BY <3>1, ScanFacts
    <3> QED BY <1>1, <1>2, <3>2
  <2> QED
    BY <2>1, <2>2 DEF ListenerNext, ScanWorks, listenerVars, Mined, Reorganised, OnChain, FilterLogsFails,
       SkipMalformed, OutboxInsert, ListenerDies, ScanBegins, FilterLogs, NextBlock, tryClaim, OutboxFails,
       releaseClaim
<1>6. (origin \in 0..MaxHead)'
  <2>1. CASE UNCHANGED origin
    BY <1>1, <2>1
  <2>2. CASE FilterLogs
    BY <1>1, <2>2, BusyScan, ScanFacts DEF FilterLogs
  <2> QED
    BY <2>1, <2>2 DEF ListenerNext, ScanWorks, listenerVars, Mined, Reorganised, OnChain, FilterLogsFails,
       SkipMalformed, OutboxInsert, ListenerDies, ScanBegins, saveLastBlock, NextBlock, tryClaim, OutboxFails,
       releaseClaim
<1>7. (claimed \subseteq Logs)'
  <2>1. CASE claimed' \subseteq claimed
    BY <1>1, <2>1
  <2>2. CASE tryClaim /\ claimed' = claimed \cup {Position}
    <3>3. PayAt(scan.block, scan.index)
      BY <2>2, HereIsPay DEF tryClaim
    <3>4. Position \in Logs
      BY <3>3, PayIsLog DEF Position, ListenerShape
    <3> QED BY <1>1, <2>2, <3>4
  <2> QED
    BY <2>1, <2>2 DEF ListenerNext, ScanWorks, listenerVars, Mined, Reorganised, OnChain, FilterLogsFails,
       SkipMalformed, OutboxInsert, ListenerDies, ScanBegins, saveLastBlock, NextBlock, tryClaim, OutboxFails,
       releaseClaim, FilterLogs
<1>8. (emitted \in [Logs -> 0..2])'
  <2>1. CASE UNCHANGED emitted
    BY <1>1, <2>1
  <2>2. CASE (OutboxInsert \/ OutboxFails) /\ Emits
    <3>1. PayAt(scan.block, scan.index)
      BY <2>2, BusyScan, ScanFacts DEF OutboxInsert, OutboxFails, Writing
    <3>2. Position \in Logs
      BY <3>1, PayIsLog DEF Position, ListenerShape
    <3>3. TheSmaller(emitted[Position] + 1, 2) \in 0..2
      BY <1>1, <3>2 DEF TheSmaller
    <3> QED BY <1>1, <2>2, <3>3 DEF Emits
  <2> QED
    BY <2>1, <2>2, OnlyInsertsEmit
<1>9. (setbacks \in Nat)'
  BY <1>1 DEF ListenerNext, ScanWorks, listenerVars, Mined, Reorganised, OnChain, FilterLogsFails,
     SkipMalformed, ListenerDies, ScanBegins, saveLastBlock, NextBlock, tryClaim, OutboxFails,
     releaseClaim, FilterLogs, OutboxInsert, Scanning, Smooth, Setback
<1> QED
  BY <1>5, <1>6, <1>7, <1>8, <1>9, BuriedStays, ScanStep DEF ListenerShape

\* What a log, a block and a scan may hold.
THEOREM ListenerTypeCorrect == ListenerSpec => []ListenerTypeOK
<1>1. SetbacksInit /\ ListenerInit => ListenerShape
  BY ListenerConstantsOK DEF ListenerConstants, SetbacksInit, ListenerInit, ListenerShape, ScanOK, head
<1> QED
  BY <1>1, ListenerShapeStep, ShapeIsTypeOK, PTL DEF ListenerSpec

\* While the process lives, Redis answers and no reply of the outbox is lost: a log is claimed exactly from
\* the moment its event is on its way, and the scan has announced every
\* payment from its first block to its position.
Announced(b, i) == PayAt(b, i) => emitted[<<b, i>>] = 1

ClaimsMatchEvents ==
  /\ \A l \in Logs : emitted[l] <= 1
  /\ \A l \in Logs : emitted[l] = 1 <=> l \in claimed /\ ~(Writing /\ l = Position)
  /\ Writing => scan.own /\ Position \in claimed

ScanFollowsCursor ==
  scan # NoScan =>
    /\ cursor # 0 => scan.from = cursor + 1
    /\ cursor = 0 => scan.at = "filter" \/ origin = scan.from

ScannedAnnounced ==
  scan # NoScan =>
    /\ \A b \in scan.from..(scan.block - 1) : \A i : Announced(b, i)
    /\ scan.failed = 0 => \A i \in 1..(scan.index - 1) : scan.block <= scan.to => Announced(scan.block, i)

PassedAnnounced == \A b \in origin..cursor : b > 0 => \A i : Announced(b, i)

ScanInv ==
  setbacks = 0 => ClaimsMatchEvents /\ ScanFollowsCursor /\ ScannedAnnounced /\ PassedAnnounced

EmittedPays ==
  \A b \in Blocks, i \in LogIndex : emitted[<<b, i>>] > 0 => b <= head - ConfirmDepth /\ PayAt(b, i)

ListenerInv == ListenerShape /\ EmittedPays /\ ScanInv

LEMMA EmittedStep ==
  ASSUME ListenerShape, EmittedPays, [ListenerNext]_listenerVars
  PROVE  /\ EmittedPays'
         /\ \A l \in Logs : emitted'[l] >= emitted[l]
<1> USE ListenerConstantsOK DEF ListenerConstants, head
<1>1. head \in Nat /\ head' \in Nat /\ head' >= head /\ emitted \in [Logs -> 0..2]
  BY BuriedStays DEF ListenerShape, head
<1>3. CASE UNCHANGED emitted
  <2>1. ASSUME NEW b \in Blocks, NEW i \in LogIndex, emitted[<<b, i>>] > 0
        PROVE  b <= head' - ConfirmDepth /\ PayAt(b, i)'
    BY <1>1, <2>1, PaysStay DEF EmittedPays, Blocks
  <2> QED BY <1>1, <1>3, <2>1 DEF EmittedPays
<1>4. CASE (OutboxInsert \/ OutboxFails) /\ Emits
  <2>1. Writing /\ Position \in Logs /\ PayAt(scan.block, scan.index) /\ scan.block <= head - ConfirmDepth
    BY <1>4, BusyScan, ScanFacts, PositionIsLog DEF OutboxInsert, OutboxFails, Writing, ScanType
  <2>2. emitted' = [emitted EXCEPT ![Position] = TheSmaller(emitted[Position] + 1, 2)]
        /\ TheSmaller(emitted[Position] + 1, 2) >= emitted[Position]
    BY <1>1, <1>4, <2>1 DEF Emits, TheSmaller
  <2>3. ASSUME NEW b \in Blocks, NEW i \in LogIndex, emitted'[<<b, i>>] > 0
        PROVE  b <= head' - ConfirmDepth /\ PayAt(b, i)'
    <3>1. <<b, i>> \in Logs
      BY DEF Logs
    <3>2. b <= head - ConfirmDepth /\ PayAt(b, i)
      BY <1>1, <2>1, <2>2, <2>3, <3>1 DEF EmittedPays, Position
    <3> QED BY <1>1, <3>2, PaysStay DEF Blocks
  <2> QED BY <1>1, <1>4, <2>1, <2>2, <2>3 DEF EmittedPays
<1> QED
  BY <1>3, <1>4, OnlyInsertsEmit

LEMMA ClaimsStep ==
  ASSUME ListenerShape, ClaimsMatchEvents, [ListenerNext]_listenerVars, ~Setback
  PROVE  ClaimsMatchEvents'
<1>1. emitted \in [Logs -> 0..2] /\ claimed \subseteq Logs
  BY DEF ListenerShape
<1>2. CASE UNCHANGED <<claimed, emitted, scan>>
  BY <1>2 DEF ClaimsMatchEvents, Writing, Position
<1>3. CASE UNCHANGED <<claimed, emitted>> /\ ~Writing /\ ~Writing'
  BY <1>3 DEF ClaimsMatchEvents
<1>4. CASE tryClaim /\ UNCHANGED claimed
  <2>1. ~Writing /\ scan' = NextLog /\ scan # NoScan
    BY <1>4, BusyScan DEF tryClaim, HereIs, AtLog, Writing
  <2>2. ~Writing'
    BY <2>1, ScanFacts DEF NextLog, Writing, ScanType
  <2> QED BY <1>3, <1>4, <2>1, <2>2 DEF tryClaim
<1>5. CASE tryClaim /\ claimed' = claimed \cup {Position} /\ Position \notin claimed
  <2>1. ~Writing /\ scan # NoScan /\ scan' = [scan EXCEPT !.at = "insert", !.own = TRUE] /\ UNCHANGED emitted
        /\ Position \in Logs
    BY <1>5, BusyScan, HereIsPay DEF tryClaim, HereIs, AtLog, Writing
  <2>2. Writing' /\ scan'.own /\ Position' = Position
    BY <2>1, ScanFacts DEF Writing, ScanType, Position
  <2> QED BY <1>1, <1>5, <2>1, <2>2 DEF ClaimsMatchEvents
<1>6. CASE OutboxInsert
  <2>1. Writing /\ Position \in Logs /\ scan # NoScan
    BY <1>6, BusyScan, PositionIsLog DEF OutboxInsert, Writing
  <2>2. ~Writing'
    BY <1>6, <2>1, ScanFacts DEF OutboxInsert, NextLog, Writing, ScanType
  <2>3. emitted[Position] = 0
    BY <1>1, <2>1 DEF ClaimsMatchEvents
  <2>4. emitted' = [emitted EXCEPT ![Position] = 1]
    BY <1>6, <2>3 DEF OutboxInsert, TheSmaller
  <2> QED BY <1>1, <1>6, <2>1, <2>2, <2>4 DEF OutboxInsert, ClaimsMatchEvents
<1>7. CASE OutboxFails
  <2>1. Writing /\ scan # NoScan /\ scan' = [scan EXCEPT !.at = "release"]
    BY <1>7, BusyScan DEF OutboxFails, Writing
  <2>2. Writing' /\ scan'.own = scan.own /\ Position' = Position
    BY <2>1, ScanFacts DEF Writing, ScanType, Position
  <2> QED BY <1>7, <2>1, <2>2 DEF OutboxFails, ClaimsMatchEvents
<1>8. CASE releaseClaim
  <2>1. Writing /\ Position \in Logs /\ scan # NoScan /\ UNCHANGED emitted
    BY <1>8, BusyScan, PositionIsLog DEF releaseClaim, Writing
  <2>2. ~Writing'
    BY <1>8, <2>1, ScanFacts DEF releaseClaim, Writing, ScanType
  <2>3. claimed' = claimed \ {Position}
    BY <1>8, <2>1 DEF releaseClaim, ClaimsMatchEvents
  <2> QED BY <1>1, <2>1, <2>2, <2>3 DEF ClaimsMatchEvents
<1>9. CASE ScanBegins
  BY <1>3, <1>9 DEF ScanBegins, NoScan, Writing
<1>10. CASE FilterLogs \/ NextBlock \/ SkipMalformed \/ (saveLastBlock /\ scan' # NoScan)
  <2>1. ~Writing /\ scan # NoScan /\ UNCHANGED <<claimed, emitted>>
    BY <1>10, BusyScan DEF FilterLogs, NextBlock, SkipMalformed, saveLastBlock, HereIs, AtLog, Writing
  <2>2. ~Writing'
    BY <1>10, <2>1, ScanFacts, ZenonT(60)
    DEF FilterLogs, NextBlock, SkipMalformed, saveLastBlock, HereIs, AtLog, NextLog, Writing, ScanType
  <2> QED BY <1>3, <2>1, <2>2
<1>11. CASE FilterLogsFails \/ (saveLastBlock /\ scan' = NoScan)
  BY <1>3, <1>11 DEF FilterLogsFails, saveLastBlock, NoScan, Writing
<1> QED
  BY <1>2, <1>4, <1>5, <1>6, <1>7, <1>8, <1>9, <1>10, <1>11
  DEF ListenerNext, ScanWorks, listenerVars, Mined, Reorganised, OnChain, tryClaim, ListenerDies

\* What was announced stays announced: its block is buried.
LEMMA AnnouncedStays ==
  ASSUME ListenerShape, EmittedPays, [ListenerNext]_listenerVars, ClaimsMatchEvents'
  PROVE  \A b \in 1..(head - ConfirmDepth) : \A i : Announced(b, i) => Announced(b, i)'
<1> USE ListenerConstantsOK DEF ListenerConstants, head
<1> SUFFICES ASSUME NEW b \in 1..(head - ConfirmDepth), NEW i, Announced(b, i), PayAt(b, i)'
             PROVE  emitted'[<<b, i>>] = 1
  BY DEF Announced
<1>1. PayAt(b, i) /\ emitted[<<b, i>>] = 1
  BY PaysStay DEF Announced
<1>2. <<b, i>> \in Logs
  BY <1>1, PayIsLog DEF ListenerShape
<1>3. emitted' \in [Logs -> 0..2]
  BY ListenerShapeStep DEF ListenerShape
<1> QED
  BY <1>1, <1>2, <1>3, EmittedStep DEF ClaimsMatchEvents

LEMMA CursorStep ==
  ASSUME ListenerShape, ScanFollowsCursor, [ListenerNext]_listenerVars, ~Setback
  PROVE  ScanFollowsCursor'
<1> USE ListenerConstantsOK DEF ListenerConstants, head
<1>1. cursor \in 0..MaxHead
  BY DEF ListenerShape
<1>2. CASE scan' = NoScan
  BY <1>2 DEF ScanFollowsCursor
<1>3. CASE UNCHANGED <<scan, cursor, origin>>
  BY <1>3 DEF ScanFollowsCursor
<1>4. CASE ScanBegins
  <2>1. scan'.at = "filter" /\ (cursor # 0 => scan'.from = cursor + 1) /\ UNCHANGED cursor
    BY <1>4 DEF ScanBegins
  <2> QED BY <2>1 DEF ScanFollowsCursor
<1>5. CASE FilterLogs
  <2>1. scan # NoScan /\ scan' = [scan EXCEPT !.at = "log"] /\ UNCHANGED cursor
    BY <1>5, BusyScan DEF FilterLogs
  <2>2. scan'.from = scan.from /\ (cursor = 0 => origin' = scan.from)
    BY <1>5, <2>1, ScanFacts DEF FilterLogs, ScanType
  <2> QED BY <2>1, <2>2 DEF ScanFollowsCursor
<1>6. CASE /\ UNCHANGED <<cursor, origin>> /\ scan # NoScan /\ scan.at # "filter"
           /\ scan'.from = scan.from
  BY <1>6 DEF ScanFollowsCursor
<1>7. CASE NextBlock \/ SkipMalformed \/ tryClaim \/ OutboxInsert \/ OutboxFails \/ releaseClaim
  <2>1. scan # NoScan /\ scan.at # "filter" /\ UNCHANGED <<cursor, origin>>
    BY <1>7, BusyScan
    DEF NextBlock, SkipMalformed, tryClaim, OutboxInsert, OutboxFails, releaseClaim, HereIs, AtLog
  <2>2. scan'.from = scan.from
    BY <1>7, <2>1, ScanFacts
    DEF NextBlock, SkipMalformed, tryClaim, OutboxInsert, OutboxFails, releaseClaim, HereIs, NextLog, ScanType
  <2> QED BY <1>6, <2>1, <2>2
<1>8. CASE saveLastBlock /\ scan' # NoScan
  <2>0. scan # NoScan /\ scan.failed = 0
    BY <1>8, BusyScan DEF saveLastBlock
  <2>a. cursor' = scan.to
    BY <1>8, <2>0, ScanFacts DEF saveLastBlock
  <2>b. scan'.from = scan.to + 1
    BY <1>8, <2>0, ScanFacts DEF saveLastBlock, ScanType
  <2>1. scan # NoScan /\ scan.failed = 0 /\ cursor' = scan.to /\ scan'.from = scan.to + 1
    BY <2>0, <2>a, <2>b
  <2>2. scan.to # 0
    BY <2>1, ScanFacts
  <2> QED BY <2>1, <2>2 DEF ScanFollowsCursor
<1> QED
  BY <1>2, <1>3, <1>4, <1>5, <1>7, <1>8
  DEF ListenerNext, ScanWorks, listenerVars, Mined, Reorganised, OnChain, ListenerDies, FilterLogsFails

\* A position is left behind only when its payment is announced.
LEMMA ScannedStep ==
  ASSUME ListenerShape, EmittedPays, ClaimsMatchEvents, ClaimsMatchEvents', ScannedAnnounced,
         [ListenerNext]_listenerVars, ~Setback
  PROVE  ScannedAnnounced'
<1> USE ListenerConstantsOK DEF ListenerConstants, head
<1>1. CASE scan' = NoScan
  BY <1>1 DEF ScannedAnnounced
<1>2. CASE /\ scan # NoScan
           /\ scan'.from = scan.from /\ scan'.block = scan.block /\ scan'.index = scan.index
           /\ scan'.to = scan.to /\ (scan'.failed = 0 => scan.failed = 0)
  <2>1. /\ scan.from \in 1..MaxHead /\ scan.block - 1 <= head - ConfirmDepth /\ scan.block \in 1..MaxHead
        /\ scan.to <= head - ConfirmDepth /\ scan.to \in 0..MaxHead /\ scan.index \in Nat
    BY <1>2, ScanFacts
  <2>2. ASSUME NEW b \in scan.from..(scan.block - 1), NEW i PROVE Announced(b, i)'
    <3>1. b \in 1..(head - ConfirmDepth) /\ Announced(b, i)
      BY <1>2, <2>1 DEF ScannedAnnounced
    <3> QED BY <3>1, AnnouncedStays
  <2>3. ASSUME scan'.failed = 0, NEW i \in 1..(scan.index - 1), scan.block <= scan.to,
               NEW b, b = scan.block
        PROVE  Announced(b, i)'
    <3>1. b \in 1..(head - ConfirmDepth) /\ Announced(b, i)
      BY <1>2, <2>1, <2>3 DEF ScannedAnnounced
    <3> QED BY <3>1, AnnouncedStays
  <2> QED BY <1>2, <2>2, <2>3 DEF ScannedAnnounced
<1>3. CASE scan'.block = scan'.from /\ scan'.index = 1 /\ scan'.from \in Nat
  BY <1>3 DEF ScannedAnnounced
<1>4. ASSUME scan # NoScan, UNCHANGED chain, scan' = NextLog, scan.failed = 0, scan.block <= scan.to,
             NEW p, p = scan.block, NEW q, q = scan.index, Announced(p, q)'
      PROVE  ScannedAnnounced'
  <2>1. scan'.from = scan.from /\ scan'.block = p /\ scan'.index = q + 1 /\ scan'.to = scan.to
    BY <1>4, ScanFacts DEF NextLog, ScanType
  <2>2. p \in 1..(head - ConfirmDepth) /\ q \in Nat \ {0} /\ scan.from \in 1..MaxHead
    BY <1>4, ScanFacts
  <2>3. ASSUME NEW b \in scan.from..(p - 1), NEW i PROVE Announced(b, i)'
    <3>1. b \in 1..(head - ConfirmDepth) /\ Announced(b, i)
      BY <1>4, <2>2 DEF ScannedAnnounced, ListenerShape
    <3> QED BY <3>1, AnnouncedStays
  <2>4. ASSUME NEW i \in 1..q PROVE Announced(p, i)'
    <3>1. CASE i = q
      BY <1>4, <3>1
    <3>2. CASE i # q
      <4>1. i \in 1..(scan.index - 1)
        BY <1>4, <2>2, <3>2
      <4>2. Announced(p, i)
        BY <1>4, <4>1 DEF ScannedAnnounced
      <4> QED BY <2>2, <4>2, AnnouncedStays
    <3> QED BY <3>1, <3>2
  <2>5. scan'.index - 1 = q
    BY <2>1, <2>2
  <2> QED BY <2>1, <2>3, <2>4, <2>5 DEF ScannedAnnounced
<1>5. CASE ScanBegins
  <2>1. scan'.block = scan'.from /\ scan'.index = 1
    BY <1>5 DEF ScanBegins
  <2>2. scan' # NoScan /\ ListenerShape'
    BY <1>5, ListenerShapeStep DEF ScanBegins, NoScan
  <2>3. scan'.from \in Nat
    BY <2>2, SMTT(60) DEF ListenerShape, ScanOK, ScanType
  <2> QED BY <1>3, <2>1, <2>3
<1>6. CASE FilterLogs \/ OutboxFails \/ releaseClaim
  <2>1. scan # NoScan
    BY <1>6, BusyScan DEF FilterLogs, OutboxFails, releaseClaim
  <2>2. /\ scan'.from = scan.from /\ scan'.block = scan.block /\ scan'.index = scan.index
        /\ scan'.to = scan.to /\ (scan'.failed = 0 => scan.failed = 0)
    BY <1>6, <2>1, ScanFacts DEF FilterLogs, OutboxFails, releaseClaim, ScanType, Writing
  <2> QED BY <1>2, <2>1, <2>2
<1>7. CASE tryClaim /\ scan' # NextLog
  <2>1. scan # NoScan /\ scan'.from = scan.from /\ scan'.block = scan.block /\ scan'.index = scan.index
        /\ scan'.to = scan.to /\ scan'.failed = scan.failed
    BY <1>7, BusyScan, ScanFacts DEF tryClaim, HereIs, AtLog, ScanType
  <2> QED BY <1>2, <2>1
<1>8. CASE tryClaim /\ scan' = NextLog
  <2>1. scan # NoScan /\ UNCHANGED chain /\ scan.failed = 0 /\ scan.block <= scan.to
    BY <1>8, BusyScan, ScanFacts DEF tryClaim, HereIs, AtLog
  <2>2. Position \in claimed /\ ~Writing /\ UNCHANGED emitted
    BY <1>8, <2>1, ScanFacts DEF tryClaim, NextLog, HereIs, AtLog, ScanType, Writing
  <2>3. emitted[Position] = 1
    BY <1>8, <2>2, HereIsPay DEF ClaimsMatchEvents, tryClaim
  <2>4. ASSUME NEW p, p = scan.block, NEW q, q = scan.index PROVE Announced(p, q)'
    BY <2>2, <2>3, <2>4 DEF Announced, Position
  <2> QED BY <1>4, <1>8, <2>1, <2>4
<1>9. CASE SkipMalformed
  <2>1. scan # NoScan /\ UNCHANGED chain /\ scan.failed = 0 /\ scan.block <= scan.to /\ scan' = NextLog
    BY <1>9, BusyScan, ScanFacts DEF SkipMalformed, HereIs, AtLog, Scanning
  <2>2. ASSUME NEW p, p = scan.block, NEW q, q = scan.index PROVE ~PayAt(p, q)'
    BY <1>9, <2>1, <2>2 DEF SkipMalformed, HereIs, PayAt
  <2> QED BY <1>4, <2>1, <2>2 DEF Announced
<1>10. CASE OutboxInsert
  <2>1. scan # NoScan /\ Writing /\ UNCHANGED chain /\ scan' = NextLog
    BY <1>10, BusyScan DEF OutboxInsert, Writing, Scanning
  <2>2. scan.failed = 0 /\ scan.block <= scan.to /\ Position \in Logs
    BY <1>10, <2>1, ScanFacts, PositionIsLog DEF OutboxInsert
  <2>3. emitted[Position] = 0 /\ emitted \in [Logs -> 0..2]
    BY <2>1, <2>2 DEF ClaimsMatchEvents, ListenerShape
  <2>4. ASSUME NEW p, p = scan.block, NEW q, q = scan.index PROVE emitted'[<<p, q>>] = 1
    BY <1>10, <2>2, <2>3, <2>4 DEF OutboxInsert, TheSmaller, Position
  <2> QED BY <1>4, <2>1, <2>2, <2>4 DEF Announced
<1>11. CASE NextBlock
  <2>1. scan # NoScan /\ UNCHANGED chain /\ scan.failed = 0 /\ scan.block <= scan.to
        /\ scan' = [scan EXCEPT !.block = @ + 1, !.index = 1] /\ scan.index > Len(chain[scan.block])
    BY <1>11, BusyScan, ScanFacts DEF NextBlock, AtLog, Scanning
  <2>2. scan'.from = scan.from /\ scan'.block = scan.block + 1 /\ scan'.index = 1
    BY <2>1, ScanFacts DEF ScanType
  <2>a. /\ scan.from \in 1..MaxHead /\ scan.block \in 1..(head - ConfirmDepth) /\ scan.block \in 1..head
        /\ scan.index \in Nat
    BY <2>1, ScanFacts, SMTT(60)
  <2>b. Len(chain[scan.block]) \in Nat
    BY <2>a, PaymentsOfBlock DEF ListenerShape
  <2>3. ASSUME NEW b \in scan.from..scan.block, NEW i PROVE Announced(b, i)'
    <3>0. b \in 1..(head - ConfirmDepth)
      BY <2>a
    <3>1. CASE b # scan.block
      <4>1. b \in scan.from..(scan.block - 1)
        BY <2>a, <3>1
      <4> QED BY <2>1, <3>0, <4>1, AnnouncedStays DEF ScannedAnnounced
    <3>2. CASE b = scan.block
      <4>1. PayAt(b, i) => i \in 1..(scan.index - 1)
        BY <2>1, <2>a, <2>b, <3>2 DEF PayAt
      <4>2. Announced(b, i)
        BY <2>1, <3>2, <4>1 DEF ScannedAnnounced, Announced
      <4> QED BY <3>0, <4>2, AnnouncedStays
    <3> QED BY <3>1, <3>2
  <2>4. scan'.block - 1 = scan.block
    BY <2>1, <2>2, ScanFacts
  <2> QED BY <2>1, <2>2, <2>3, <2>4 DEF ScannedAnnounced
<1>12. CASE saveLastBlock /\ scan' # NoScan
  <2>1. scan # NoScan /\ scan'.from = scan.to + 1 /\ scan'.block = scan.to + 1 /\ scan'.index = 1
    BY <1>12, BusyScan, ScanFacts DEF saveLastBlock, ScanType
  <2> QED BY <1>3, <2>1, ScanFacts
<1>13. CASE UNCHANGED scan
  BY <1>1, <1>2, <1>13
<1> QED
  BY <1>1, <1>5, <1>6, <1>7, <1>8, <1>9, <1>10, <1>11, <1>12, <1>13
  DEF ListenerNext, ScanWorks, listenerVars, Mined, Reorganised, OnChain, ListenerDies, FilterLogsFails

LEMMA PassedStep ==
  ASSUME ListenerShape, EmittedPays, ClaimsMatchEvents', ScanFollowsCursor, ScannedAnnounced,
         PassedAnnounced, [ListenerNext]_listenerVars, ~Setback
  PROVE  PassedAnnounced'
<1> USE ListenerConstantsOK DEF ListenerConstants, head
<1>1. cursor \in 0..MaxHead /\ origin \in 0..MaxHead /\ (cursor > 0 => cursor <= head - ConfirmDepth)
  BY DEF ListenerShape
<1>2. CASE UNCHANGED <<cursor, origin>>
  BY <1>1, <1>2, AnnouncedStays DEF PassedAnnounced, ListenerShape, head
<1>3. CASE FilterLogs
  <2>1. CASE cursor = 0
    <3>1. cursor' = 0 /\ origin' \in Nat
      BY <1>1, <1>3, <2>1, ListenerShapeStep DEF FilterLogs, ListenerShape
    <3> QED BY <3>1 DEF PassedAnnounced
  <2>2. CASE cursor # 0
    BY <1>2, <1>3, <2>2 DEF FilterLogs
  <2> QED BY <2>1, <2>2
<1>4. CASE saveLastBlock /\ cursor' # cursor
  <2>1. scan # NoScan /\ scan.at = "log" /\ ~AtLog /\ UNCHANGED origin
        /\ cursor' = IF scan.failed = 0 THEN scan.to ELSE scan.failed - 1
    BY <1>4, BusyScan DEF saveLastBlock
  <2>2. cursor' \in Nat /\ cursor' <= scan.block - 1
    BY <2>1, ScanFacts, SMTT(60) DEF AtLog
  <2>3. ASSUME NEW b \in origin..cursor', b > 0, NEW i PROVE Announced(b, i)'
    <3>1. CASE b <= cursor
      <4>1. b \in 1..(head - ConfirmDepth) /\ Announced(b, i)
        BY <1>1, <2>3, <3>1 DEF PassedAnnounced, ListenerShape, head
      <4> QED BY <4>1, AnnouncedStays
    <3>2. CASE b > cursor
      <4>1. b >= scan.from
        BY <1>1, <2>1, <2>3, <3>2, ScanFacts DEF ScanFollowsCursor
      <4>2. b \in scan.from..(scan.block - 1) /\ b \in 1..(head - ConfirmDepth)
        BY <1>1, <2>1, <2>2, <2>3, <4>1, ScanFacts, SMTT(60) DEF ListenerShape, head
      <4>3. Announced(b, i)
        BY <2>1, <4>2 DEF ScannedAnnounced
      <4> QED BY <4>2, <4>3, AnnouncedStays
    <3> QED BY <1>1, <3>1, <3>2
  <2> QED BY <2>1, <2>3 DEF PassedAnnounced
<1> QED
  BY <1>2, <1>3, <1>4
  DEF ListenerNext, ScanWorks, listenerVars, Mined, Reorganised, OnChain, ListenerDies, FilterLogsFails,
      ScanBegins, NextBlock, SkipMalformed, tryClaim, OutboxInsert, OutboxFails, releaseClaim, saveLastBlock

LEMMA ListenerInvStep ==
  ASSUME ListenerInv, [ListenerNext]_listenerVars
  PROVE  ListenerInv'
<1>1. ListenerShape /\ EmittedPays /\ ScanInv
  BY DEF ListenerInv
<1>2. ASSUME setbacks' = 0 PROVE setbacks = 0 /\ ~Setback
  BY <1>1, <1>2 DEF ListenerShape, ListenerNext, ScanWorks, listenerVars, Mined, Reorganised, OnChain,
     FilterLogsFails, SkipMalformed, ListenerDies, ScanBegins, saveLastBlock, NextBlock, tryClaim, OutboxFails,
     releaseClaim, FilterLogs, OutboxInsert, Scanning, Smooth, Setback
<1>3. ListenerShape' /\ EmittedPays'
  BY <1>1, ListenerShapeStep, EmittedStep
<1>4. ASSUME setbacks' = 0
      PROVE  (ClaimsMatchEvents /\ ScanFollowsCursor /\ ScannedAnnounced /\ PassedAnnounced)'
  <2>1. ClaimsMatchEvents /\ ScanFollowsCursor /\ ScannedAnnounced /\ PassedAnnounced
    BY <1>1, <1>2, <1>4 DEF ScanInv
  <2>2. ClaimsMatchEvents'
    BY <1>1, <1>2, <1>4, <2>1, ClaimsStep
  <2> QED
    BY <1>1, <1>2, <1>4, <2>1, <2>2, CursorStep, ScannedStep, PassedStep
<1> QED
  BY <1>3, <1>4 DEF ListenerInv, ScanInv

LEMMA ListenerInvImplies == ListenerInv => AnnouncedOnce
<1> SUFFICES ASSUME ListenerInv PROVE AnnouncedOnce
  OBVIOUS
<1> USE ListenerConstantsOK DEF ListenerConstants, head
<1>1. ListenerShape /\ EmittedPays /\ ScanInv /\ chain \in Seq(Contents) /\ head \in Nat
  BY DEF ListenerInv, ListenerShape, head
<1>2. EmittedIsBuried
  <2>1. ASSUME NEW b \in Blocks, NEW i \in LogIndex, emitted[<<b, i>>] > 0
        PROVE  b <= head - ConfirmDepth /\ <<b, i>> \in Payments(b)
    BY <1>1, <2>1, PayIsLog DEF EmittedPays, ListenerShape
  <2> QED BY <2>1 DEF EmittedIsBuried, Logs
<1>3. ASSUME setbacks = 0, NEW b \in origin..cursor, b > 0, NEW l \in Payments(b)
      PROVE  emitted[l] = 1
  <2>1. b \in 1..head
    BY <1>1, <1>3 DEF ListenerShape
  <2>2. PICK i : l = <<b, i>> /\ PayAt(b, i)
    BY <1>1, <1>3, <2>1, PaymentsOfBlock
  <2> QED BY <1>1, <1>3, <2>2 DEF ScanInv, PassedAnnounced, Announced
<1>4. CursorPassesEmitted
  BY <1>1, <1>3 DEF CursorPassesEmitted, ScanInv, ClaimsMatchEvents
<1> QED
  BY <1>2, <1>4 DEF AnnouncedOnce

\* Only buried payments are announced; and while the process lives, Redis
\* answers and no INSERT writes its event and still reports an error, each one
\* behind the cursor is announced exactly once, whatever else fails.
THEOREM PaymentsAnnouncedOnce == ListenerSpec => []AnnouncedOnce
<1>1. SetbacksInit /\ ListenerInit => ListenerInv
  BY ListenerConstantsOK DEF ListenerConstants, SetbacksInit, ListenerInit, ListenerInv, ListenerShape, ScanOK,
     head, EmittedPays, ScanInv, ClaimsMatchEvents, ScanFollowsCursor, ScannedAnnounced, PassedAnnounced,
     Logs, Writing, NoScan
<1> QED
  BY <1>1, ListenerInvStep, ListenerInvImplies, PTL DEF ListenerSpec
=============================================================================

----------------------------- MODULE MCProgress -----------------------------
(***************************************************************************)
(* What must come to an end, for TLC: external payments, events on their   *)
(* way to a consumer, the listener, the breaker and the campaigns that     *)
(* hold money.  They share no state: each behaviour runs one of them.      *)
(***************************************************************************)
EXTENDS ExternalPayments, EventDelivery, ChainListener, CircuitBreaker,
        RedPacket, GroupBuy, Preorder, Coupons

VARIABLE running

payments  == payVars
packets   == <<packet, packetAge, shares, taken, booked, refunded, sender, guest, sweep>>
groups    == <<group, membership, groupOrder, place, bucket, shelf, unsettled, clerk, strayed>>
preorders == <<season, presale, net, purse, withdrawn, rack, unmoved, errand, misplaced>>
coupons   == <<batch, couponStock, counted, rolledBack, coupon, couponClaim, basket, raiser>>
listening == <<chain, cursor, claimed, emitted, scan, origin>>
services  == <<payments, deliveryVars, listening, breakerVars>>
campaigns == <<packets, groups, preorders, coupons>>
progress  == <<services, campaigns, setbacks, running>>

\* Blocks without a log, with a payment, and with one behind a malformed log.
MCContents == {<<>>, <<"pay">>, <<"malformed", "pay">>}

ProgressInit ==
  /\ PaymentsInit /\ DeliveryInit /\ ListenerInit /\ BreakerInit
  /\ SetbacksInit /\ PacketInit /\ GroupInit /\ PreorderInit /\ CouponInit
  /\ running \in {"payments", "delivery", "listener", "breaker",
                  "packet", "group", "preorder", "coupons"}
  /\ Cardinality(configured) = 1 /\ num = 1
  /\ configured = {"web3"} \/ (running = "payments" /\ configured = {"xcash"})
  /\ running # "delivery" => bound
  /\ running # "coupons" => couponStock.there

Only(name) == running = name /\ UNCHANGED running

InPayments == Only("payments") /\ UNCHANGED <<deliveryVars, listening, breakerVars, campaigns, setbacks>>
InDelivery == Only("delivery") /\ UNCHANGED <<payments, listening, breakerVars, campaigns, setbacks>>
InListener == Only("listener") /\ UNCHANGED <<payments, deliveryVars, breakerVars, campaigns>>
InBreaker  == Only("breaker")  /\ UNCHANGED <<payments, deliveryVars, listening, campaigns, setbacks>>
InPacket   == Only("packet")   /\ UNCHANGED <<services, groups, preorders, coupons>>
InGroup    == Only("group")    /\ UNCHANGED <<services, packets, preorders, coupons>>
InPreorder == Only("preorder") /\ UNCHANGED <<services, packets, groups, coupons>>
InCoupons  == Only("coupons")  /\ UNCHANGED <<services, packets, groups, preorders>>

ProgressNext ==
  \/ InPayments /\ PaymentsNext
  \/ InDelivery /\ DeliveryNext
  \/ InListener /\ ListenerNext
  \/ InBreaker  /\ BreakerNext
  \/ InPacket   /\ PacketNext
  \/ InGroup    /\ GroupNext
  \/ InPreorder /\ PreorderNext
  \/ InCoupons  /\ CouponNext

-----------------------------------------------------------------------------
(* Fairness: what is running goes on (Proceeds), what is scheduled runs again *)
(* and what is tried again and again succeeds at last (Succeeds).  One      *)
(* component runs in a behaviour: the k-th condition of all of them is the  *)
(* k-th of that one.                                                        *)

PaymentsGo(k) == InPayments /\
  \/ k = 1 /\ (\E t \in Takers : TakerStarts(t) \/ TakerWorks(t)) /\ UNCHANGED <<stripeVars, xcashVars, closing>>
  \/ k = 2 /\ (\E d \in Desks : GetInvoice(d) \/ DeskWorks(d)) /\ UNCHANGED <<stripeVars, web3Vars, closing>>

\* ReconcilePending asks for every intent, and its query gets an answer.
PaymentsSucceed(k) == InPayments /\ UNCHANGED <<stripeVars, web3Vars, closing>> /\
  \E d \in Desks, i \in Attempts :
    \/ k = 1 /\ QueryStarts(d, i)
    \/ k = 2 /\ GetInvoice(d) /\ desk[d].by = "query" /\ desk[d].i = i

DeliveryGoes(k) == InDelivery /\
  \/ k = 1 /\ \E e \in Funds : RetryDue(e) \/ ClaimGrowsOld(e)
  \/ k = 2 /\ \E p \in Publishers : \/ FetchBatch(p) \/ PublishDomainEvent(p) \/ MarkSent(p)
                                    \/ MarkFailed(p) \/ MarkLost(p) \/ PublisherDies(p)
  \/ k = 3 /\ \/ BindDomainQueue
               \/ \E e \in Funds, i \in 1..MaxCopies : Take(<<e, i>>) \/ DelayEnds(<<e, i>>)

\* The broker takes the message, the handler is done or the next queue takes it.
DeliverySucceeds(k) == InDelivery /\
  \/ k = 1 /\ \E p \in Publishers : PublishDomainEvent(p) /\ Current(p) \in Funds /\ queue' # queue
  \/ k = 2 /\ \E e \in Funds, i \in 1..MaxCopies :
       HandlerSucceeds(<<e, i>>) \/ (RetryToQueueOrDLQ(<<e, i>>) /\ queue'[<<e, i>>].at # "ready")

ListenerGoes(k) == InListener /\
  \/ k = 1 /\ ScanBegins /\ scan'.safe = head - ConfirmDepth
  \/ k = 2 /\ ScanWorks

ListenerSucceeds(k) == InListener /\ ((k = 1 /\ OutboxInsert) \/ (k = 2 /\ FilterLogs))

BreakerGoes(k) == InBreaker /\
  \/ k \in Calls /\ (Allow(k) \/ CallWorks(k))
  \/ k = 3 /\ OpenTimeoutPasses

PacketGoes(k) == InPacket /\
  \/ k = 1 /\ \/ PrepareRedPacket \/ RefundUnprepared \/ PacketAges
               \/ \E u \in Guests : MarkAges(u)
  \/ k = 2 /\ \E u \in Guests : GuestWorks(u)
  \/ k = 3 /\ \E s \in PacketSweeps : SweepWorks(s)

\* The expire cron.
PacketSucceeds(k) == InPacket /\ k = 1 /\ \E s \in PacketSweeps : SweepStarts(s, TRUE)

GroupGoes(k) == InGroup /\
  \/ k = 1 /\ ExpirePasses
  \/ k = 2 /\ \E c \in Clerks : ClerkWorks(c)

\* The settle cron and the expire cron.
GroupSucceeds(k) == InGroup /\ \E c \in Clerks :
  (k = 1 /\ ListFullOpenGroups(c)) \/ (k = 2 /\ ExpireOpenGroupsBefore(c))

PreorderGoes(k) == InPreorder /\
  \/ k = 1 /\ SeasonPasses
  \/ k = 2 /\ \E e \in Errands : ErrandWorks(e)

\* The forfeit cron.
PreorderSucceeds(k) == InPreorder /\ k = 1 /\
  \E e \in Errands, o \in Presales : ListUnpaidFinalBefore(e, o)

CouponsGo(k) == InCoupons /\ ((k = 1 /\ ReconcileReads) \/ (k = 2 /\ ReconcileRaises))

Proceeds(k) ==
  \/ PaymentsGo(k) \/ DeliveryGoes(k) \/ ListenerGoes(k) \/ BreakerGoes(k)
  \/ PacketGoes(k) \/ GroupGoes(k) \/ PreorderGoes(k) \/ CouponsGo(k)

Succeeds(k) ==
  \/ PaymentsSucceed(k) \/ DeliverySucceeds(k) \/ ListenerSucceeds(k)
  \/ PacketSucceeds(k) \/ GroupSucceeds(k) \/ PreorderSucceeds(k)

ProgressSpec ==
  /\ ProgressInit /\ [][ProgressNext]_progress
  /\ \A k \in 1..3 : WF_progress(Proceeds(k))
  /\ \A k \in 1..2 : SF_progress(Succeeds(k))

-----------------------------------------------------------------------------
(* The components' leads-to properties (PaymentsBooked, FundsDelivered,     *)
(* PaymentsEmitted, BreakerRecovers; PacketEnds, GroupEnds, PresaleEnds, StockComesBack) in  *)
(* one formula each: what is unfinished belongs to the one that runs.       *)

\* A confirmed payment is announced, delivered and booked, with late marks,
\* dying publishers, a failing outbox and lost webhooks on its way; and the
\* breaker lets payments through again, once the backend is well.
MoneyArrives ==
  LET underway == PaymentUnbooked \/ FundsUndelivered \/ PaymentUnannounced \/ BreakerShut
  IN (PayFaults = {} /\ underway) ~> ~underway

\* A campaign gives back what it holds: packets, groups and pre-orders come to
\* their end after every failure, and coupons that are left can be claimed.
CampaignsEnd ==
  LET open == PacketOpen \/ GroupOpen \/ PresaleOpen \/ SoldOutEarly IN open ~> ~open
=============================================================================

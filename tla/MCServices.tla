----------------------------- MODULE MCServices -----------------------------
(***************************************************************************)
(* The services around the orders and the campaigns for TLC: they share no *)
(* state, so that each behaviour runs one of them, with the failures it    *)
(* may meet.  What there are two of are the same two model values          *)
(* everywhere, so that one permutation acts on all of them.                *)
(***************************************************************************)
EXTENDS ExternalPayments, EventDelivery, ChainListener, CircuitBreaker, IdempotencyToken,
        Throttle, Accounts, ProductCache, SearchIndex,
        RedPacket, GroupBuy, Preorder, PromoBudget, Coupons, TLC

CONSTANTS x1, x2
Symmetry == Permutations({x1, x2})

VARIABLE running

packets   == <<packet, packetAge, shares, taken, booked, refunded, sender, guest, sweep>>
groups    == <<group, membership, groupOrder, place, bucket, shelf, unsettled, clerk, strayed>>
preorders == <<season, presale, net, purse, withdrawn, rack, unmoved, errand, misplaced>>
promos    == <<calendar, rule, cart, released, overtaken>>
accounts  == <<account, mailed, linkUsed, use, sessions, versionCache, lookup>>
catalogue == <<item, detail, flight, edit, entry, document, changes, indexer>>
coupons   == <<batch, couponStock, counted, rolledBack, coupon, couponClaim, basket, raiser>>
services  == <<payVars, deliveryVars, breakerVars, tokenVars, throttleVars>>
listening == <<chain, cursor, claimed, emitted, scan, origin>>
keepers   == <<listening, accounts, catalogue>>
campaigns == <<packets, groups, preorders, promos, coupons, setbacks>>

\* Blocks without a log, with a payment, and with one behind a malformed log.
MCContents == {<<>>, <<"pay">>, <<"malformed", "pay">>}

ServicesInit ==
  /\ PaymentsInit /\ DeliveryInit /\ ListenerInit /\ BreakerInit /\ TokenInit /\ ThrottleInit
  /\ SetbacksInit /\ AccountInit /\ CacheInit /\ IndexInit
  /\ PacketInit /\ GroupInit /\ PreorderInit /\ PromoInit /\ CouponInit
  /\ running \in {"payments", "delivery", "listener", "breaker", "token", "throttle",
                  "account", "cache", "index", "packet", "group", "preorder", "promo", "coupons"}
  /\ Cardinality(configured) = 1 /\ num = 1
  /\ running # "payments" => configured = {"web3"}
  /\ running # "delivery" => bound
  /\ running # "coupons" => couponStock.there

Only(name) == running = name /\ UNCHANGED running

Service(name)  == Only(name) /\ UNCHANGED <<keepers, campaigns>>
Keeper(name)   == Only(name) /\ UNCHANGED <<services, packets, groups, preorders, promos, coupons>>
Campaign(name) == Only(name) /\ UNCHANGED <<services, keepers>>

ServicesNext ==
  \/ /\ Service("payments") /\ PaymentsNext
     /\ UNCHANGED <<deliveryVars, breakerVars, tokenVars, throttleVars>>
  \/ /\ Service("delivery") /\ DeliveryNext
     /\ UNCHANGED <<payVars, breakerVars, tokenVars, throttleVars>>
  \/ /\ Service("breaker") /\ BreakerNext
     /\ UNCHANGED <<payVars, deliveryVars, tokenVars, throttleVars>>
  \/ /\ Service("token") /\ TokenNext
     /\ UNCHANGED <<payVars, deliveryVars, breakerVars, throttleVars>>
  \/ /\ Service("throttle") /\ ThrottleNext
     /\ UNCHANGED <<payVars, deliveryVars, breakerVars, tokenVars>>
  \/ Keeper("listener") /\ ListenerNext /\ UNCHANGED <<accounts, catalogue>>
  \/ Keeper("account") /\ AccountNext /\ UNCHANGED <<listening, catalogue>>
  \/ Keeper("cache") /\ CacheNext /\ UNCHANGED <<listening, accounts, entry, document, changes, indexer>>
  \/ Keeper("index") /\ IndexNext /\ UNCHANGED <<listening, accounts, item, detail, flight, edit>>
  \/ Campaign("packet") /\ PacketNext /\ UNCHANGED <<groups, preorders, promos, coupons>>
  \/ Campaign("group") /\ GroupNext /\ UNCHANGED <<packets, preorders, promos, coupons>>
  \/ Campaign("preorder") /\ PreorderNext /\ UNCHANGED <<packets, groups, promos, coupons>>
  \/ Campaign("promo") /\ PromoNext /\ UNCHANGED <<packets, groups, preorders, coupons>>
  \/ Campaign("coupons") /\ CouponNext /\ UNCHANGED <<packets, groups, preorders, promos>>

ServicesSpec == ServicesInit /\ [][ServicesNext]_<<services, keepers, campaigns, running>>

-----------------------------------------------------------------------------
\* Every service and every campaign keeps the types of its state.
ServicesTypeOK ==
  /\ running = "payments" => PaymentsTypeOK
  /\ running = "delivery" => DeliveryTypeOK
  /\ running = "listener" => ListenerTypeOK
  /\ running = "breaker"  => BreakerTypeOK
  /\ running = "token"    => TokenTypeOK
  /\ running = "throttle" => ThrottleTypeOK
  /\ running = "account"  => AccountTypeOK
  /\ running = "cache"    => CacheTypeOK
  /\ running = "index"    => IndexTypeOK
  /\ running = "packet"   => PacketTypeOK
  /\ running = "group"    => GroupTypeOK
  /\ running = "preorder" => PreorderTypeOK
  /\ running = "promo"    => PromoTypeOK
  /\ running = "coupons"  => CouponTypeOK
  /\ SetbacksTypeOK

\* What stands between a client and a handler lets through what it should: the
\* breaker no more probes than it may, the idempotency token one effect, the
\* limits no more requests than they say (the shared one while Redis answers), the
\* middleware no session from before the password was changed.
GatesHold ==
  /\ running = "breaker"  => ProbesLimited
  /\ running = "token"    => OncePerToken
  /\ running = "throttle" => LimitsHold
  /\ running = "account"  => SessionsEnd

\* The copies of a product, in the cache and in the index, follow its row, as far
\* as DetailFollows and IndexFollows say.
CatalogueFollows ==
  /\ running = "cache" => DetailFollows
  /\ running = "index" => IndexFollows
=============================================================================

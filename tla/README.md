# TLA+ specifications of gomall

gomall is a shop backend in Go: MySQL holds the truth, Redis the counters that
must be fast, RabbitMQ carries events out of a transactional outbox, cron jobs
repair what fell between. This directory specifies the parts of it that are
concurrent and fail in the middle, checks them with TLC on small instances and
proves with TLAPS, for all instances, almost every invariant that TLC checks on
the small ones (section 4).

## 1. Inventory

| Component | State | Operations | Interacts with |
|---|---|---|---|
| order lifecycle (`internal/order/repo.go`, `state.go`, `internal/refund`) | order row: type, refund_from_type, refund_count, shipped_at | create, pay, close, ship, receive, request / approve / reject refund | everything below moves with these transactions |
| stock reservation (`repository/cache/inventory.go`, `order/service.go`, `cancel.go`, `task.go`) | product.num; Redis available and reserved; stock_commit_pending, restocked_at | reserve, commit, release, restock, seed | order creation, payment, cancelling, refunds |
| stock reconciliation (`order/task.go`, `service/inventory/syncer.go`) | none of its own between runs | retryPendingCommits, leak sampling, ReconcileAvailable, SeedFromDB | reads DB and Redis at different moments |
| clearing and settlement (`internal/clearing`, `internal/refund`, `internal/money`) | payment_clearing, account_transaction, users.money, payment_anomaly | clear, settle, refund, shortfall, operator decisions, compensation | order.completed, order.refunded, order.refund_rejected |
| external payments (`internal/payment`, `order/cancel.go`) | Redis claims, nonces, parked wallets; intents; anomalies | checkout, Stripe webhook, Web3 confirmation, Xcash invoices, webhook, query and ReconcilePending | order row, clearing record, the piece; RabbitMQ; the listener |
| Web3 listener (`service/web3/listener.go`) | cursor and claims in Redis | scan confirmed ranges, claim, write to the outbox, unclaim | the chain, the outbox |
| outbox, consumers (`internal/shared/outbox`, `repository/rabbitmq`) | outbox rows, queues, retry headers | insert, claim, publish, mark, reclaim; retry, dead-letter | every event |
| asynchronous orders (`order/async.go`, `consumer.go`) | tickets, in-flight marks, the queue | enqueue, consume, abort | stock reservation, seckill |
| seckill (`internal/skill`) | Redis stock, users, in-flight, returned; sold, bought | grab, release, settle, return, preheat, reconcile | asynchronous orders |
| red packets (`internal/redpacket`) | packet and claim rows; pool and marks in Redis; escrow legs of the ledger | send, prepare, claim, roll back, refund, reconcile | wallets, ledger |
| group buying (`internal/groupbuy`) | group, members, orders in WaitGroup; outbox | create, join, settle, expire, close | wallets, escrow, stock reservation |
| pre-orders (`internal/preorder`) | preorder row next to the order | deposit, final payment, cancel, forfeit | wallets, stock reservation |
| coupons (`internal/coupon`, `repository/cache/coupon.go`) | batch, coupons; counters and marks in Redis | claim, roll back, use, release, expire, reconcile | orders |
| promotion budgets (`internal/promo`) | rule row with the day's counter; releases | choose and consume, release, stop | orders |
| middleware (`middleware/idempotency.go`, `circuitbreaker.go`, `ratelimit.go`, `jwt.go`) | Redis records, atomics, caches | per request | handlers |
| accounts (`internal/user`) | password, token version and its caches, mailed links | login, change of password, lookup | jwt middleware |
| catalogue (`internal/product`, `repository/es`) | product row, copy in Redis, document in Elasticsearch | load, edit, delete twice, index, backfill | product.changed |
| cart, favourites, addresses, categories, carousels, web | rows | CRUD | |

What is hard here: no transaction spans MySQL and Redis, so that each handler
is a DB commit followed (or preceded) by a Redis script, and a crash, an error
or a lost reply falls between; events are delivered at least once, late, or
never; reconcilers compare two stores that go on moving; a handler decides from
a row it read before its transaction; marks and claims have a time to live and
may end before what they protect. `PROJECT.json` lists these hazards line by
line with the properties that watch them.

Correctness, by component: an order moves along the table of `state.go` and never
skips fulfilment; a piece is sold once, and the Redis counters account for every
piece; whatever fails, the counters come back to what the DB says; the money of an
order is in one place, follows the goods, is booked in ledger, clearing record and
wallets alike, and reaches the seller or the buyer. What a payment provider has
been told is dealt with is in the books; an event that is in the outbox is handled
or reaches the operators; money and pieces of a group, a pre-order or a packet go
one way and to their end; budgets and batches are not exceeded; a token has one
effect; limits, breaker and sessions let through what they may; copies follow
their row.

## 2. Modules

Orders, stock and money:

* `OrderState`: the statuses and the table of transitions, with the abstract
  machine they describe. No handler walks the table.
* `OrderLifecycle`: the conditional UPDATEs that do move the row; one action per
  transaction, the WHERE clause as guard. RejectRefund is two actions, because it
  carries a value from an unlocked read into its UPDATE; `rejecting` holds what
  handlers in flight have read. It implements `OrderState`.
* `OrderStock` extends it with the stock of one product. A handler is the steps
  between which it can die: `creator`, `closer`, `committer` and `restocker` say
  where the handlers of each order are. The Lua scripts are operators of their
  own, atomic as in Redis. An order buys one piece (each script moves the
  order's number as a whole).
* `StockReconcile` extends it with the two cron tasks, query by query
  (`task`, `fixer`), SeedFromDB (`seeding`) and the loss of Redis keys.
* `Escrow`: what clearing promises of the money of one order.
* `OrderFunds` extends OrderLifecycle with clearing record, ledger, wallets and
  settlements, for orders between several users. Events are items of `work`
  that can be handled again or lost. It implements `Escrow` under the refinement
  `Place`, which reads where the money is from the ledger alone.
* `AsyncOrder`: orders that go through the queue. `enqueuer`, `worker` and
  `closer` say between which two calls a request, a delivery or a cancellation
  is; `marks`, `status` and `age` are the in-flight mark, the ticket and its
  time. It has the rows and buckets of its own product in a coarser form than
  `OrderStock` (an order waits for payment or is closed), since what it adds is
  what happens before the row exists.
* `Seckill` extends it with the flash sale: each Lua script is an operator, the
  hooks of `seckillBinder` replace the empty stages of the pipeline (`Settle`,
  `Abort`, `Return`, `ReturnError`), and `reconciler` walks RunSeckillReconcile.
  `touched` stands for the version key: whether it moved since the snapshot. The
  variable `faults` holds the kinds of failure that a behaviour may meet. It is
  chosen at the start among `FaultSets` and never changes, so that a property can
  name the failures it does not survive (`HandledOnce`, `KeysKept`). The buyer may
  delete a closed order (`DeleteClosed`), after which the DB's view of the sale
  (`View`) does not have it; `erased` remembers that one was deleted before its quota
  was given back.

External payments, each channel extending `PaymentBooks` (the order, its clearing
record, the anomalies, and the transactions that write them):

* `StripePayment`: `checkout` is the mark in Redis, `event` what Stripe still
  delivers, `hook` the deliveries in progress, `claim` the claim of the event.
* `Web3Payment`: nonces, signatures, the parked wallet, the transfer, and the
  consumer of web3.payment.confirmed (`taker`), with its retries.
* `XcashPayment`: invoices one after the other (`intent`), webhooks and queries
  (`desk`) side by side, late and worsening risk ratings.
* `ExternalPayments`: the three together with the wallet payment and
  CancelUnpaidOrder, whose check for channels in use precedes its transaction
  (`closing`). `num` is the piece that a rival may have taken meanwhile.

Delivery:

* `ChainListener`: scanConfirmed log by log (`scan`), the cursor, the claims, a
  chain that reorganises above the confirmation depth.
* `EventDelivery`: outbox rows, several publishers (`publisher`), confirms and
  returns, then the queue of one consumer, its delay queues and its dead-letter
  queue, with redelivery and a queue that is bound late. A channel that refuses
  confirms publishes without them (`LostUnheard`; `unheard` remembers the events
  that were lost so), and a poison message is dead-lettered at once (`PoisonToDLQ`).

Around the handlers:

* `CircuitBreaker`: the atomics of `allow` one at a time, `report` under the lock.
* `IdempotencyToken`: the scripts, with expiry.
* `Throttle`: both rate limits. The sliding window runs with the clock of the process
  that calls it, which may be late by `MaxSkew` ticks, and a request passes when Redis
  fails (`openTicks` remembers when), whether or not the script has run.
* `Accounts`: mailed links, the token version and its cache in a process.
* `ProductCache`, `SearchIndex`: the copies of a product and what refreshes them. The
  number in stock, which payments change without refreshing the cache, is not part of
  what is followed. A deletion in Elasticsearch has no external version: it leaves a
  tombstone that is `kept`, which no write on its way is newer than, or `weak`.

Campaigns, each with the rows, the Redis state and the money of one campaign:

* `RedPacket`, `GroupBuy`, `Preorder`, `PromoBudget`, `Coupons`. Their jobs and
  handlers (`sweep`, `clerk`, `errand`, `cart`, `couponClaim`, `raiser`) are
  walked from one transaction or script to the next.
* `StockBuckets`: one piece in the two Redis counters of a product, as the scripts
  move it, and the tries of CommitStockReservation, for `GroupBuy` and `Preorder`.
  In both a transaction may commit while its reply is lost, after which the request
  gives back the piece of an order that exists (`CommitsUnheard`, `DepositTx`); a
  script that reports an error may have run, is tried again, and in the end is left to
  retryPendingCommits (`CommitAttemptFails`, `FinalCommitFails`, `unsettled`,
  `unmoved`). `strayed` and `misplaced` count how often such a call had moved a piece
  or written such an order.

`Setbacks` bounds the failures of campaigns, copies and listener. `MC*` are the
instances for TLC, and `*_proofs` the theorems: `OrderLifecycle_proofs`,
`OrderStock_proofs` and `OrderFunds_proofs` about the module they are named after;
`Seckill_proofs` about the sale and the asynchronous orders; `Channels_proofs` about
the way of a payment from outside (the channels, the outbox and its consumers, the
listener); `Campaigns_proofs` about coupons, promotion budgets, pre-orders and group
buying, after a first part on sums; `RedPacket_proofs`; `Services_proofs` about what
stands around the handlers, the copies of a product, and all of `MCServices`.
Components that share no state run together in `MCServices` and `MCProgress`: the
initial state chooses the one that moves, `running`, and each behaviour is a
behaviour of that component alone. There `GatesHold`, `CatalogueFollows` and
`ServicesTypeOK` are the conjunction of the components' properties, each for the
behaviours of its component. `MCHeals` does the same for the two reconcilers.

How the parts meet: a payment confirmed on the chain is found by `ChainListener`,
carried by `EventDelivery` and settled by `Web3Payment`; each takes from the one
before only that an event arrives at least once, in any order, or not at all for a
while. `PaymentBooks` clears what `OrderFunds` then moves; `EventDelivery` is why
an item of `work` in `OrderFunds` may be handled again and late.

Timing. Where the code relies on a delay, the model says so in one guard:

* stock: an order stays recent while its payment handler still commits
  (`GraceEnds`; stockCommitGrace is 30 s against 300 ms of retries); what was in
  flight at the first leak sample has ended by the second (`SumReserved`).
* asynchronous orders: a request does not last for the 50 minutes of
  AsyncTaskMaxAge, a worker that found a ticket young enough has inserted or given
  up within the ten minutes before the ticket's TTL (`GrowsOld`), a run of
  RunSeckillReconcile ends within them too (`Time`; its lock is held for five), and
  a request writes its ticket within orphanTicketGrace (`OrphanGraceOver`).
* product cache: a load that takes longer than the 500 ms before the second
  deletion is a setback, and so is a process that dies in between.
* search: two updates within one second are a setback, because updated_at has that
  precision (`DisableDatetimePrecision`, `repository/db/dao/init.go:40`).
* seckill: a closed order is deleted when the task that made it is done (only the
  timeout of 15 minutes closes an unpaid order).
* sliding window: the clocks of two processes differ by less than the window
  (`MaxSkew < WindowTicks`).
* accounts: a lookup that lasts from before the version is raised until after the
  cache is cleared is a setback (the code accepts that window).

Elsewhere nothing is synchronised: tokens, claims and marks may expire at any
moment, publishers may be slower than publishingReclaimAfter.

## 3. Runs

| Run | Question | Bounds |
|---|---|---|
| stock | Do the counters account for every piece, is nothing oversold, can every unpaid order be paid? | 2 orders, 1 piece, 2 refund requests each, crashes and Redis errors between any two steps |
| each_heals | Does each reconciler, alone, bring its bucket back? | reserved: 2 orders, crashes and errors; available: 1 order, 1 refund, errors; one mishap |
| both_heal | Do the reconcilers, side by side, bring both counters back, when effects happen whose replies are lost? | 1 order, lost replies, one mishap (Redis loses keys, a task is cut short, a seeding process) |
| funds_trade | Is the money of every order in one place, in all books alike? | 2 orders, 2 users who sell to each other, empty wallets, 1 refund each |
| funds_refunds | Do fulfilment, money and deletion follow each other; is every settlement made in the end? | 1 order, 2 refunds, users who spend and earn one unit elsewhere |
| seckill | Is each quota in one place at any moment, and safe with its ticket in the queue; does the DB hold when Redis has too many? | 2 tickets of 2 users, 1 piece of the sale, 1 worker; deletions of closed orders; either crashes, lost replies and lost tasks with the reconciliation running all the time, or a redelivery, unknown publishes, DB errors and lost keys without it |
| seckill_heals | Do the quotas come back, does every ticket land? | 1 ticket; all Redis calls may fail; one mishap (lost keys, redelivery, an interrupted reconciliation), a deletion |
| services | Do books, pools, gates and copies agree at every moment? | one component at a time, two of everything that acts concurrently (three requests at breaker and token, three fans of a group for two), one setback, three tries of the commit script, clocks one tick apart, faults of payments and errors of the rate limit's Redis without a bound on their number |
| progress | Does a confirmed payment arrive, does every campaign come to its end? | one component at a time, one setback, 4 blocks with a confirmation depth of 2; one try of the commit script (the ends wait for no piece); two orders that compete for one user's coupons |
| reject_stale, live_released, offline_final | Counterexamples to three comments of the code (section 5) | 1 order; 3 orders; 1 order |

Why these bounds: one piece for two orders is the smallest instance with
competition and refusal. Two refunds are needed for a stale rejection, two
orders for a release that hits another order's piece, two users with opposite
orders for a wallet in two settlements at once. Two tickets for one piece make a
quota change hands while the reconciliation compares, and a lost stock key makes
the DB refuse one of them. Properties about one order need
no second one, since orders share nothing but the wallets and the counters.

In `services`, the channels pay one order, two deliveries, consumers or desks work
on the same money, and each configured channel is checked by itself and against the
wallet, the cancellation and one rival for the last piece. A listener that is one
block behind (depth 1) and ranges of two blocks give ranges that fail in the middle
and reorganisations above them; two publishers, one row and one attempt make the
late mark of the slow one meet the state of the fast one, and a retry limit of three
goes through both delay queues to the dead-letter queue. Three requests fill the two
probes of a half-open breaker while one still acts on what it read before the round.
A call whose tries all fail after they took effect is one
setback: it takes the pieces of others out of reserved too. A group for two
with three fans has a winner, a loser and a member; a packet of two shares and two
guests has a last share; two rules with a budget for two carts have a fallback; two
days have one midnight. Coupons are claimed by two processes at once in `services`
and used by two orders in `progress`; `CouponsInBounds` is checked in both. A window
of three ticks with clocks one apart leaves stretches of two ticks that the limit
holds for, within the four that are run.

Bounded counters: `MaxRefunds` (3 in the code), `CommitRetries` (3), `MaxMishaps`,
`MaxSetbacks`, `Attempts` of the seckill reconciliation (3), `MaxOutside`,
`InitNum`, `InitWallet`; `StockCommitRetries` (3), `MaxAttempts` (invoices),
`MaxRivals`, `Web3Tries`, `MaxRows`, `MaxCopies`, `OutboxMaxAttempts`, `Levels` and
`MaxDeliveryAttempts`, `MaxHead`, `MaxGeneration`, `MaxEffects`, `MaxTick`,
`MaxText`, `MaxEdits`, `MaxTakes`, `MaxDay`. Deadlock is not checked: everything may
be at rest.

Symmetry: model values that are only compared (orders in `stock`, tickets together
with their users in `seckill`; in `services` the same two values for whatever there
are two of, so that one permutation acts on every component). No run that checks
liveness uses it.

Fairness. In `StockReconcile`: handlers end or die (weak fairness of their own
steps), the crons run again and again, and RunOrderTimeoutCheck cancels what
nobody pays; payment, shipping and refunds owe nothing. Mishaps are finitely
many, as a failure at every run would excuse anything. In `OrderFunds`: weak
fairness for RunSettleCompensation, strong fairness for the settlement handlers
and for RecordRefundShortfall, since retries and the compensation call them again
and again and a database that fails every single time is excluded; none for
buyers, merchants and operators. In `Seckill`: weak fairness of the steps of
requests, deliveries, closers and of the reconciliation; strong fairness of time,
which waits between the runs of the reconciliation; none for grabs, visits of the
page and cancellations. In `MCProgress`: weak fairness for what is running, for
time, and for the scan and the jobs that a ticker starts (`Proceeds`); strong
fairness for what is tried again by a ticker, a cron or a retry and so succeeds
some time: the query of an intent, the broker's confirm and the handler of an
event, the insert of the outbox and the node's answer, the sweeps of packets,
groups and pre-orders (`Succeeds`). As one component runs in a behaviour, the k-th
conditions of all of them are one formula. No fairness for buyers, guests, members,
operators, for losses and for redelivery. The external payments in `progress` meet
no faults (`PayFaults`), as a message that fails each time ends in the dead-letter
queue.

Each property has a mutant (operators named `Mut...`): a plausible bug in one
definition that the run finds.

## 4. Proofs

TLAPS proves what follows for every value of the constants: any number of orders,
users, requests, workers, pieces, cents, retries, failures and delays. Of the
constants it uses what the named assumptions of the modules say, such as that
orders, tickets, guests or clerks are finite sets, and that limits and prices are
natural numbers. Each invariant is proved with an inductive one that says more.

Orders, stock and money.

* lifecycle: types, `ImplementsStateTable`, `NoFulfilmentSkipped`. The last
  needs that refund_from_type and the values held by rejections name statuses
  that an order had, that is, that goods were shipped if one of them is
  WaitReceive or Completed.
* stock: `TypeOK` and `NoOversell` under all faults; `ReservedExact`,
  `StockConservation` and `UnpaidCovered` under the assumption `NoLostReply`.
  Their inductive invariant relates each handler's position to the order's
  status (a committer is due only for a paid order, a closer for a closed one,
  and so on), so that the classes of orders counted by Holders, CommitOwed,
  RestockOwed and Deducted change by one order at each step; `CountAdd` and
  `CountRemove` then do the arithmetic.
* funds: `FundsTypeOK` (no wallet below zero), `MoneyFollowsOrder`,
  `MoneyInOnePlace`, `DeletedAtRest` and the refinement `ImplementsEscrow`. The
  invariant `BooksInv` gives, for each clearing status, exactly the ledger
  entries there are; the unique index of the ledger (`Post`) makes it inductive.
  That OrderFunds steps are OrderLifecycle steps (`FundsStepLife`) carries the
  lifecycle invariants over. `WalletMatchesLedger` needs besides that the ledger
  stays finite and that a step adds to it entries that are not in it yet, so that
  the counts of each user's debits and credits move as the wallets do.
* seckill: all invariants of the run `seckill`, with the conditions they name
  on the faults. A ticket is on one course (`Courses`): its position in the request,
  the queue, a worker, its row and a cancellation exclude one another. From that
  follow who owns a piece (`TicketsCovered`) and what can still become an order
  (`QueuedNotLeaked`). `DBGuards` needs no Redis at all. For `QuotaExact` the
  invariant `QuotaOf` says of every ticket in which of its places the quota is, as
  long as Redis keeps the keys and no order is deleted too early, and `ReconcilerOK`
  that what the reconciliation has read is still true unless the version key has
  moved.

The way of a payment from outside.

* payments: types, `IntentMatchesBooks`, `AcknowledgedIsBooked`, with all faults.
  For each channel one invariant relates the positions of its deliveries to the
  books (`StripeTold`, `Web3Told`, `XcashTold`): who has read that the order is
  unpaid need not be right, but who answers has written or found what was written.
* delivery: types and `EventsKept`, under `Levels > 1 \/ MaxDeliveryAttempts > 2`
  (section 5). `ConfirmedLanded` is the half for the outbox: a publisher marks only
  what the broker confirmed and did not return, or what it published unheard.
  `EachLevelOnce` is the half for the queues: the retry headers of a copy say which
  levels it went through.
* listener: types and `AnnouncedOnce`. Blocks that are buried stay, the cursor is
  behind them (`ListenerShape`), and while nothing fails claims and events are the
  same and every log between the origin and the scan's position is announced.

Campaigns. What a campaign holds is a sum over its rows; the lemmas on sums at the
head of `Campaigns_proofs` say what a sum over a function or a sequence does when
one entry changes, and each step then changes one entry.

* coupons: types and `CouponsInBounds`: the slots taken are the first of the batch,
  and each user's coupons are counted by the rows, not by Redis.
* promotion budgets: types and `BudgetMatchesOrders`, until an order is overtaken at
  midnight: each cart has its rule's cut in the counter of its day once or not at all.
* pre-orders: types and `PresaleBooks`: what an order has paid follows from its
  stage, each wallet from what its orders have paid (`PresaleMoneyInv`); the pieces
  reserved, with those that `misplaced` counts, are at least, and without failures
  exactly, those of the unpaid orders, of the errands on their way and of the
  flagged sales (`PiecesHeld`); an order is placed by one request (`PlacedOnce`).
* group buying: types and `GroupBooks`: orders and money go with their members
  (`MoneyWithGroup`), a clerk acts on what the locked row said (`ClerksKnow`), and
  the pieces reserved, with those that `strayed` counts, are at least, and without
  failures exactly, those of the waiting members, of the clerks on their way, those
  a closed group still owes and those flagged (`PiecesDue`).
* red packets: types and `PacketMoney`: each user has one share due, however many
  requests and sweeps hold it (`FitsOne`), a mark holds it until Redis forgets, and
  the shares in the list with those due are within the packet, and are all of it when
  none is missing (`Dealt`).

Around the handlers.

* breaker (`ProbesLimited`): the probes on their way are counted by their round
  (`ProbesCounted`), and no request is of a round to come (`CallsKnown`).
* token (`OncePerToken`): one request at most is not idle, and what it knows of the
  record stays true until it ends (`HolderKnows`).
* limits (`LimitsHold`): the window's set holds what passed within the window less
  the skew of the clocks, unless Redis failed there (`WindowKept`); the tokens that
  are left plus those spent in any stretch are at most the bucket plus the refills
  (`BucketKept`). The janitor may drop a bucket because `IdleTicks * Refill >=
  BucketSize`: it would be full by then.
* accounts (`SessionsEnd`): every used link and every failure raises the version once
  at most (`VersionsFit`), and without failures sessions of the current version know
  the current password (`ChangesShow`).
* cache (`DetailFollows`): details that are not the row's are about to be deleted, and
  a load that would store such details is awaited by the second deletion.
* index (`IndexFollows`): the events that are waiting or held by a handler are
  bounded by the edits (`EventsBounded`), and one of them, or a handler that read the
  row as it is, will bring the document up to date (`IndexCatchesUp`). A kept
  tombstone is one that nothing a handler has read is newer than (`Outdated`).
* `MCServices`: `ServicesTypeOK`, `GatesHold` and `CatalogueFollows`. A step of all
  is a step of the one that runs (`...Runs`), so that the theorems of the components
  carry over.

Only model-checked: `StockReconcile`, whose properties are that the counters come
back, also after lost replies, and every other liveness property: liveness under
fairness and ENABLED are out of the prover's reach. No module of the project
declares a recursive operator.

## 5. What the checks found

Three comments that the code contradicts, each a run:

* `RejectRefund` can restore the status of an earlier refund (run
  `reject_stale`): the row is read without a lock and the UPDATE compares only
  `type = Refunding`. A shipped, received and settled order can return to WaitShip.
* The minimum of two leak samples is not their intersection (`live_released`):
  under a constant stream of orders, two different reservations in flight look
  like one leak.
* A shortfall closed offline as refunded or rejected is still refunded
  automatically by a delayed retry of order.refunded (`offline_final`).

The first two break no property that is stated of them in section 3
(fulfilment is not skipped; counters heal), which is why they are easy to miss.

Statements that are in the modules, fail when they are checked, and for which a
weaker one is checked in `services`:

* `NoDayOverspent` (`PromoBudget`; three carts are needed): an order reads the day
  before its UPDATE resets the counter (`promo/repo.go:95-103`). At midnight an
  order of yesterday can overtake one of today, set budget_date back, and the
  next one gives today's budget again. `BudgetMatchesOrders` holds until then.
* `FailedIsScannedAgain` (`ChainListener`): a first scan that fails leaves no
  cursor, and the next one starts at the safe height of then
  (`listener.go:284-286`), past the log that failed.
* `NewProductIsSeen` (`ProductCache`): ProductCreate deletes the marker of absence
  once (`product/service.go:183`); a load that began before stores it afterwards.
* `IndexAlwaysFollows` (`SearchIndex`): two updates in a second have one external
  version (`es/product_index.go:106`), and a document stays that is written when its
  deletion's version has been forgotten, or when it is newer than what the deletion
  found: DeleteProduct sends no version (`es/product_index.go:131-135`), so that the
  tombstone's is the old document's plus one.

What is not promised, and what the conditions of the properties are for:

* A Stripe delivery is answered with success when another has claimed the event
  (`relied`). If that one dies the claim outlives Stripe's retries, and the money is
  in no book. `AcknowledgedIsBooked` excepts these deliveries and no others.
* A Stripe event replayed after its payment was recorded as unfulfillable may still
  fulfil the order, if a piece has come back (two rivals are needed): Web3 looks for
  the anomaly first and Xcash has the intent's status, Stripe looks at neither.
* `TicketsCovered` is false with redelivery and with unknown publishes.
  abortAsyncTask releases the piece before the task is acknowledged, and a failing
  publish may have put the task into the queue: the consumer then creates an order
  for which nothing is reserved. `DBGuards` holds there all the same, and the
  counters are for the reconcilers to mend. `QueuedNotLeaked` likewise needs that
  the mark was written (its error is only logged), `QuotaExact` and
  `QueuedKeepsQuota` that Redis keeps its keys and answers.
* `QuotaExact` also needs that no buyer deletes a closed order whose quota is still
  owed (`erased`). DeleteOrderById lets him (`order/repo.go:254-262`), and the quota
  comes back after the transaction that closes the order, or by the reconciliation
  if the process died. Once the row is gone loadDBView (`skill/repo.go:148`) sees
  nothing owed: fixDrift adds the piece to the stock, and a Return that comes late
  adds it again, until the next run takes it off. `DBGuards` keeps a piece from
  being sold twice meanwhile, and `QuotaHeals` has this deletion.
* An event that moves money can be lost without a trace: when ch.Confirm fails,
  PublishDomainEvent publishes without confirms and returns nil
  (`rabbitmq/domain.go:42-51`), and the row is marked as sent. `EventsKept` and
  `FundsDelivered` except these events (`unheard`) and no others.
* Poison messages are in the dead-letter queue after one delivery, as the consumers
  say (`refund/consumer.go:50`); that each level is gone through first is said of the
  others.
* The listener announces a payment twice when an INSERT into the outbox writes its
  row and still reports an error: handleLog releases the claim
  (`web3/listener.go:422-433`). Consumers are idempotent; `AnnouncedOnce` counts
  this as a setback.
* In group buying and pre-orders reserved covers whoever waits but for one piece for
  each call that reported a failure of what it had done: a commit with a lost reply
  (`groupbuy/service.go:188`, `:325`, `preorder/service.go:140`), after which the
  piece of an order that exists is given back, and a commit script that runs twice
  (`order/task.go:76-87`). The money is exact whatever fails.
* The sliding window limits nothing while Redis fails
  (`middleware/ratelimit.go:119-123` lets the request through), and its clock is
  that of the process (`:112`): the limit is for stretches of the window less what
  the clocks differ by.
* `EventsKept` says that an event is dead-lettered only after each retry level, as
  the comment on levels promises (`rabbitmq/retry.go:31-32`). A message that the
  broker marks as redelivered counts as a second attempt though (`poison.go:79-81`).
  A consumer with one level, such as the search indexer
  (`service/search/indexer.go:47`), would skip it if MaxDeliveryAttempts were 2 or
  less; the default is 3, and the theorem has this as its condition.
* Of the two comparisons of the version key in the seckill reconciliation either
  alone keeps `QuotaExact` on the instance of `seckill`, and dropping both breaks
  it: the one in the loop pairs a snapshot with its view, the one in fixScript
  guards the write.
* Old sessions stay valid when a process dies between the new password and the new
  token version (`user/service.go:361`).

## 6. Not modelled, and the plan

Left out of modelled components: a second instance of the reservation reconciler
(each release could be doubled), the delayed cancel message (the cron does the
same), orders paid before clearing records existed, fees (the code has none yet),
how the amounts of a packet are drawn, the editing of rules and of stock by the
merchant (but for a lowered number in `GroupBuy`), a handler under an idempotency
token whose transaction commits unheard, the vector store (the handler of
`SearchIndex` without a version), lists and images in the product cache, connection
management of RabbitMQ, signatures, encryption and formats (abstracted to what they
decide).

Not modelled at all: roles and their cache (a time to live, and nothing that waits
for it), e-mail binding and profiles; cart, favourites, addresses, categories and
carousels (single-row CRUD, one statement or transaction each); the web front end,
exercises and scripts; logging and metrics.

Next are proofs: that a step of `StockReconcile` keeps types and `NoOversell`, as it
is a step of `OrderStock` or moves only the counters in Redis; `ReservedExact`
restated with lost replies (the counter is off by as many as there were lost
replies, and each in a known direction); the invariants of `MCServices` that are not
the conjunction of components, for the components that do not run.

----------------------------- MODULE OrderStock -----------------------------
(***************************************************************************)
(* Stock of one product under concurrent orders.  The truth is the DB      *)
(* column product.num, decremented when an order is paid.  Unpaid orders   *)
(* are covered by two Redis counters: available (can still be ordered) and *)
(* reserved (ordered, not paid).  A handler writes Redis and the DB one    *)
(* after the other with nothing to make the pair atomic, so each handler   *)
(* is a sequence of steps here, and may die or fail between any two.       *)
(*                                                                         *)
(* An order buys one piece: every script and UPDATE moves the order's num  *)
(* as a whole, and a counter is then the size of a set of orders.          *)
(***************************************************************************)
EXTENDS OrderLifecycle, FiniteSets

CONSTANTS InitNum,        \* product.num when the product is put on sale
          CommitRetries,  \* stockCommitRetries (3 in the code)
          Faults          \* the failures the environment may produce

ASSUME OrdersAssumption  == IsFiniteSet(Orders)
ASSUME InitNumAssumption == InitNum \in Nat
ASSUME RetriesAssumption == CommitRetries \in Nat \ {0}
ASSUME FaultsAssumption  == Faults \subseteq {"crash", "redis_error", "lost_reply"}

VARIABLES
  \* the DB
  num,            \* product.num
  restocked,      \* restocked_at is set
  commitPending,  \* stock_commit_pending
  \* Redis
  seeded,         \* stock:available exists
  available,      \* its value (0 while it does not exist)
  reserved,       \* stock:reserved; a missing key counts as 0
  \* the handlers in flight, by the order they work for
  creator,        \* OrderCreate
  seenNum,        \* product.num as OrderCreate read it to build the bucket
  closer,         \* CancelUnpaidOrder after its transaction
  committer,      \* CommitStockReservation after the payment transaction
  tries,          \* its failed attempts
  restocker       \* restockRedis after a refund transaction

dbVars    == <<num, restocked, commitPending>>
redisVars == <<seeded, available, reserved>>
createVars == <<creator, seenNum>>
commitVars == <<committer, tries>>
stockVars == <<dbVars, redisVars, createVars, closer, commitVars, restocker>>
vars      == <<lifeVars, stockVars>>

CreatorStates == {"idle", "seeding", "retry", "reserved", "release", "lost", "done"}

\* A tail that is "lost" died, or failed in a way its handler only logs.
TailStates == {"idle", "due", "lost", "done"}

TypeOK ==
  /\ LifeTypeOK
  /\ num \in Nat
  /\ restocked \in [Orders -> BOOLEAN]
  /\ commitPending \in [Orders -> BOOLEAN]
  /\ seeded \in BOOLEAN
  /\ available \in Int
  /\ reserved \in Nat
  /\ creator \in [Orders -> CreatorStates]
  /\ seenNum \in [Orders -> Nat]
  /\ closer \in [Orders -> TailStates]
  /\ committer \in [Orders -> TailStates]
  /\ tries \in [Orders -> 0..CommitRetries]
  /\ restocker \in [Orders -> TailStates]

\* CreateProduct writes the bucket after its DB insert; if that write fails
\* the product starts without one.
Init ==
  /\ LifeInit
  /\ num = InitNum
  /\ restocked = [o \in Orders |-> FALSE]
  /\ commitPending = [o \in Orders |-> FALSE]
  /\ seeded \in BOOLEAN
  /\ available = IF seeded THEN InitNum ELSE 0
  /\ reserved = 0
  /\ creator = [o \in Orders |-> "idle"]
  /\ seenNum = [o \in Orders |-> 0]
  /\ closer = [o \in Orders |-> "idle"]
  /\ committer = [o \in Orders |-> "idle"]
  /\ tries = [o \in Orders |-> 0]
  /\ restocker = [o \in Orders |-> "idle"]

-----------------------------------------------------------------------------
(* The Redis scripts of repository/cache/inventory.go *)

\* Mutant: the script does not compare available with the order.
MutReserveScript ==
  /\ seeded
  /\ available' = available - 1
  /\ reserved' = reserved + 1
  /\ UNCHANGED seeded

ReserveScript ==
  /\ seeded /\ available >= 1
  /\ available' = available - 1
  /\ reserved' = reserved + 1
  /\ UNCHANGED seeded

CommitScript ==
  /\ reserved >= 1
  /\ reserved' = reserved - 1
  /\ UNCHANGED <<seeded, available>>

\* Mutant: the released piece is not given back.
MutReleaseScript(n) ==
  /\ reserved >= n
  /\ reserved' = reserved - n
  /\ UNCHANGED <<seeded, available>>

\* INCRBY creates a missing key and counts from 0.
ReleaseScript(n) ==
  /\ reserved >= n
  /\ reserved' = reserved - n
  /\ available' = available + n
  /\ seeded' = TRUE

\* Mutant: the script overwrites a bucket that exists.
MutInitIfAbsentScript(n) ==
  /\ seeded' = TRUE
  /\ available' = n - reserved
  /\ UNCHANGED reserved

InitIfAbsentScript(n) ==
  /\ seeded' = TRUE
  /\ available' = IF seeded THEN available ELSE n - reserved
  /\ UNCHANGED reserved

RestockScript ==
  /\ available' = IF seeded THEN available + 1 ELSE available
  /\ UNCHANGED <<seeded, reserved>>

-----------------------------------------------------------------------------
(* OrderCreate: reserve in Redis, then insert the row *)

SetCreator(o, s) == creator' = [creator EXCEPT ![o] = s]

OnlyCreate ==
  UNCHANGED <<dbVars, closer, commitVars, restocker>>

\* One call of the script.  If its reply is lost, the request fails and the
\* piece stays in reserved.
TryReserve(o) ==
  /\ ReserveScript
  /\ SetCreator(o, "reserved") \/ ("lost_reply" \in Faults /\ SetCreator(o, "lost"))

\* product.ReserveStock, first attempt: too few pieces refuse the order, a
\* missing bucket makes it read product.num.
Reserve(o) ==
  /\ creator[o] = "idle"
  /\ \/ TryReserve(o) /\ UNCHANGED seenNum
     \/ /\ seeded /\ available < 1
        /\ SetCreator(o, "done") /\ UNCHANGED <<redisVars, seenNum>>
     \/ /\ ~seeded
        /\ seenNum' = [seenNum EXCEPT ![o] = num]
        /\ SetCreator(o, "seeding") /\ UNCHANGED redisVars
  /\ OnlyCreate /\ UNCHANGED lifeVars

InitStockIfAbsent(o) ==
  /\ creator[o] = "seeding"
  /\ InitIfAbsentScript(seenNum[o])
  /\ SetCreator(o, "retry")
  /\ OnlyCreate /\ UNCHANGED <<lifeVars, seenNum>>

ReserveRetry(o) ==
  /\ creator[o] = "retry"
  /\ \/ TryReserve(o)
     \/ ~(seeded /\ available >= 1) /\ SetCreator(o, "done") /\ UNCHANGED redisVars
  /\ OnlyCreate /\ UNCHANGED <<lifeVars, seenNum>>

\* Mutant: the release of the reservation is deferred, whatever happens.
MutCreateTx(o) ==
  /\ creator[o] = "reserved"
  /\ CreateOrder(o)
  /\ SetCreator(o, "release")
  /\ OnlyCreate /\ UNCHANGED <<redisVars, seenNum>>

\* The transaction that writes the order, its discounts and order.created.
CreateTx(o) ==
  /\ creator[o] = "reserved"
  /\ CreateOrder(o)
  /\ SetCreator(o, "done")
  /\ OnlyCreate /\ UNCHANGED <<redisVars, seenNum>>

\* It fails (a coupon used meanwhile, a DB error) and rolls back; or it
\* commits, the reply is lost and OrderCreate takes it for a failure.
CreateTxFails(o) ==
  /\ creator[o] = "reserved"
  /\ UNCHANGED lifeVars \/ ("lost_reply" \in Faults /\ CreateOrder(o))
  /\ SetCreator(o, "release")
  /\ OnlyCreate /\ UNCHANGED <<redisVars, seenNum>>

\* Release after the rollback; a short bucket or a Redis error is only logged.
ReleaseOnTxFailure(o) ==
  /\ creator[o] = "release"
  /\ \/ ReleaseScript(1) /\ SetCreator(o, "done")
     \/ reserved < 1 /\ SetCreator(o, "done") /\ UNCHANGED redisVars
     \/ "redis_error" \in Faults /\ SetCreator(o, "lost") /\ UNCHANGED redisVars
  /\ OnlyCreate /\ UNCHANGED <<lifeVars, seenNum>>

CreatorDies(o) ==
  /\ "crash" \in Faults
  /\ creator[o] \in {"reserved", "release"}
  /\ SetCreator(o, "lost")
  /\ OnlyCreate /\ UNCHANGED <<lifeVars, redisVars, seenNum>>

-----------------------------------------------------------------------------
(* Payment: the DB transaction, then CommitStockReservation *)

\* finishPaymentConfirmationTx: DeductStock, MarkOrderPaidWithCheck.  Either
\* of them matching no row rolls the whole transaction back.
PayTx(o) ==
  /\ MarkOrderPaid(o)
  /\ num >= 1
  /\ num' = num - 1
  /\ committer' = [committer EXCEPT ![o] = "due"]
  /\ UNCHANGED <<restocked, commitPending, redisVars, createVars, closer, tries, restocker>>

OnlyCommit ==
  UNCHANGED <<lifeVars, num, restocked, createVars, closer, restocker>>

CommitReservation(o) ==
  /\ committer[o] = "due" /\ tries[o] < CommitRetries
  /\ \/ CommitScript
     \/ reserved < 1 /\ UNCHANGED redisVars           \* ErrReservationShort
  /\ committer' = [committer EXCEPT ![o] = "done"]
  /\ OnlyCommit /\ UNCHANGED <<commitPending, tries>>

\* Mutant: one attempt too many.
MutCommitAttemptFails(o) ==
  /\ committer[o] = "due" /\ tries[o] <= CommitRetries
  /\ "redis_error" \in Faults /\ UNCHANGED redisVars
  /\ tries' = [tries EXCEPT ![o] = @ + 1]
  /\ OnlyCommit /\ UNCHANGED <<commitPending, committer>>

\* An attempt that returns an error is repeated; the script may have run.
CommitAttemptFails(o) ==
  /\ committer[o] = "due" /\ tries[o] < CommitRetries
  /\ \/ "redis_error" \in Faults /\ UNCHANGED redisVars
     \/ "lost_reply" \in Faults /\ CommitScript
  /\ tries' = [tries EXCEPT ![o] = @ + 1]
  /\ OnlyCommit /\ UNCHANGED <<commitPending, committer>>

SetStockCommitPending(o) ==
  /\ committer[o] = "due" /\ tries[o] = CommitRetries
  /\ commitPending' = [commitPending EXCEPT ![o] = TRUE]
  /\ committer' = [committer EXCEPT ![o] = "done"]
  /\ OnlyCommit /\ UNCHANGED <<redisVars, tries>>

\* The process dies, or the transaction committed and reported an error.
CommitterDies(o) ==
  /\ Faults \cap {"crash", "lost_reply"} # {}
  /\ committer[o] = "due"
  /\ committer' = [committer EXCEPT ![o] = "lost"]
  /\ OnlyCommit /\ UNCHANGED <<commitPending, redisVars, tries>>

-----------------------------------------------------------------------------
(* CancelUnpaidOrder: the DB transaction, then the release *)

CancelTx(o) ==
  /\ CloseOrder(o)
  /\ closer' = [closer EXCEPT ![o] = "due"]
  /\ UNCHANGED <<dbVars, redisVars, createVars, commitVars, restocker>>

ReleaseOnCancel(o) ==
  /\ closer[o] = "due"
  /\ \/ ReleaseScript(1) /\ closer' = [closer EXCEPT ![o] = "done"]
     \/ reserved < 1 /\ closer' = [closer EXCEPT ![o] = "done"] /\ UNCHANGED redisVars
     \/ /\ "redis_error" \in Faults
        /\ closer' = [closer EXCEPT ![o] = "lost"] /\ UNCHANGED redisVars
  /\ UNCHANGED <<lifeVars, dbVars, createVars, commitVars, restocker>>

CloserDies(o) ==
  /\ Faults \cap {"crash", "lost_reply"} # {}
  /\ closer[o] = "due"
  /\ closer' = [closer EXCEPT ![o] = "lost"]
  /\ UNCHANGED <<lifeVars, dbVars, redisVars, createVars, commitVars, restocker>>

-----------------------------------------------------------------------------
(* Refunds put the piece back: DB first, then restockRedis *)

\* Mutant: restocked_at is not part of the condition.
MutRestock(o) ==
  /\ type[o] = "Refunded"
  /\ restocked' = [restocked EXCEPT ![o] = TRUE]
  /\ num' = num + 1
  /\ restocker' = [restocker EXCEPT ![o] = "due"]
  /\ UNCHANGED <<lifeVars, commitPending, redisVars, createVars, closer, commitVars>>

\* MarkRestocked and RollbackStock in one transaction.
Restock(o) ==
  /\ type[o] = "Refunded" /\ ~restocked[o]
  /\ restocked' = [restocked EXCEPT ![o] = TRUE]
  /\ num' = num + 1
  /\ restocker' = [restocker EXCEPT ![o] = "due"]
  /\ UNCHANGED <<lifeVars, commitPending, redisVars, createVars, closer, commitVars>>

\* SettleRefund, for goods that had not been shipped.
SettleRefund(o) == refundFrom[o] = "WaitShip" /\ Restock(o)

\* The merchant has the goods back.
ConfirmReturnReceived(o) == refundFrom[o] # "WaitShip" /\ Restock(o)

RestockRedis(o) ==
  /\ restocker[o] = "due"
  /\ \/ RestockScript /\ restocker' = [restocker EXCEPT ![o] = "done"]
     \/ /\ Faults # {}
        /\ restocker' = [restocker EXCEPT ![o] = "lost"] /\ UNCHANGED redisVars
  /\ UNCHANGED <<lifeVars, dbVars, createVars, closer, commitVars>>

-----------------------------------------------------------------------------
\* The handlers that move only the row.
MoveRow(o) ==
  /\ \/ ShipOrder(o)
     \/ ConfirmReceive(o)
     \/ RequestRefund(o)
     \/ ApproveRefund(o)
     \/ RejectRefundRead(o)
     \/ \E s \in RefundAllowedFrom : RejectRefund(o, s) \/ RejectRefundGivesUp(o, s)
  /\ UNCHANGED stockVars

CreateStep(o) ==
  \/ Reserve(o) \/ InitStockIfAbsent(o) \/ ReserveRetry(o)
  \/ CreateTx(o) \/ CreateTxFails(o)
  \/ ReleaseOnTxFailure(o) \/ CreatorDies(o)

PayStep(o) ==
  \/ PayTx(o) \/ CommitReservation(o) \/ CommitAttemptFails(o)
  \/ SetStockCommitPending(o) \/ CommitterDies(o)

CancelStep(o) == CancelTx(o) \/ ReleaseOnCancel(o) \/ CloserDies(o)

RestockStep(o) == SettleRefund(o) \/ ConfirmReturnReceived(o) \/ RestockRedis(o)

Next == \E o \in Orders :
  CreateStep(o) \/ PayStep(o) \/ CancelStep(o) \/ RestockStep(o) \/ MoveRow(o)

Spec == Init /\ [][Next]_vars

-----------------------------------------------------------------------------
(* What the counters stand for *)

\* Statuses of an order whose piece has left product.num for good or until
\* it is restocked.
PaidStates == {"WaitShip", "WaitReceive", "Completed", "Refunding", "Refunded"}

Deducted    == {o \in Orders : type[o] \in PaidStates /\ ~restocked[o]}
Unpaid      == {o \in Orders : type[o] = "WaitPay"}

\* Paid, but the piece still sits in reserved.
CommitOwed  == {o \in Orders : committer[o] \in {"due", "lost"} \/ commitPending[o]}

\* Back in product.num, but not yet in available.
RestockOwed == {o \in Orders : restocker[o] \in {"due", "lost"}}

\* Every order with a piece in reserved, those of dead handlers included.
Holding(o) == \/ creator[o] \in {"reserved", "release", "lost"}
              \/ type[o] = "WaitPay"
              \/ closer[o] \in {"due", "lost"}
              \/ committer[o] \in {"due", "lost"}
              \/ commitPending[o]

Holders == {o \in Orders : Holding(o)}

-----------------------------------------------------------------------------
\* The product is never sold more often than there are pieces: product.num
\* stays natural, and together with the pieces of paid orders that were not
\* put back it is the initial stock.  Payments, restocks by the settlement
\* and by the merchant, and retries of both, touch each order's piece once.
NoOversell == num \in Nat /\ num + Cardinality(Deducted) = InitNum

\* The reserved bucket holds exactly the pieces of the orders that own one,
\* in flight or orphaned: no release or commit runs twice, for the wrong
\* order, or on a path that never reserved.
ReservedExact == reserved = Cardinality(Holders)

\* The relation the code calls the resting invariant, with what is in flight:
\* available + reserved is product.num, plus the paid pieces still reserved,
\* less the restocked pieces Redis has not seen.
StockConservation ==
  seeded => available + reserved + Cardinality(RestockOwed)
              = num + Cardinality(CommitOwed)

\* A buyer who was given an order can pay it: DeductStock never finds
\* product.num too small (errProductOversold) for an order still unpaid.
UnpaidCovered == Cardinality(Unpaid) <= num
=============================================================================

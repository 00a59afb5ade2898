------------------------------ MODULE Seckill ------------------------------
(***************************************************************************)
(* A flash sale (internal/skill): Num pieces at a special price, at most   *)
(* Limit for a user.  Redis hands out the quotas: a ticket takes one with  *)
(* grabScript, goes through AsyncOrder, and its fate is followed ticket    *)
(* by ticket.  The DB counts what was sold in the transaction of the order *)
(* and has the last word.  RunSeckillReconcile compares the two.           *)
(*                                                                         *)
(* A quota is in flight (its ticket is in the inflight set), sold (the     *)
(* order exists), closed (the order is closed, the quota not yet returned) *)
(* or in stock.  The buyer may delete a closed order: what of its quota    *)
(* was still owed then, the DB no longer shows.                            *)
(***************************************************************************)
EXTENDS AsyncOrder

CONSTANTS Users, UserOf,  \* the user of each ticket
          Num, Limit,
          Attempts,       \* of its last step (3)
          MaxMishaps      \* bound on lost keys, redeliveries and interrupted
                          \* reconciliations

ASSUME UsersAssumption == IsFiniteSet(Users) /\ UserOf \in [Tickets -> Users]
ASSUME NumAssumption   == Num \in Nat /\ Limit \in Nat \ {0}
ASSUME BoundsAssumption == Attempts \in Nat \ {0} /\ MaxMishaps \in Nat
ASSUME CausesAssumption == Causes = {"soldOut", "limitExceeded"}

VARIABLES
  sold, bought,  \* skill_product.sold, skill_user.bought
  deleted,       \* tickets whose closed order the buyer has deleted
  erased,        \* one of them before its quota was given back
  live,          \* the stock key exists
  stock, users, inflight, returned,  \* the Redis keys of the sale
  touched,       \* their version moved since the last snapshot
  preheater,     \* a DB view on its way into Redis; {} if there is none
  reconciler,    \* RunSeckillReconcile
  mishaps

saleVars  == <<sold, bought, deleted, erased>>
quotaKeys == <<live, stock, users, inflight, returned>>
quotaVars == <<quotaKeys, touched>>
otherVars == <<preheater, reconciler, mishaps>>
allVars   == <<vars, saleVars, quotaVars, otherVars>>

IdleReconciler == [at |-> "idle"]

NoRow(t) == order[t] = "none" \/ t \in deleted
Closed   == {t \in Tickets : order[t] = "Closed"} \ deleted

\* loadDBView: one transaction
View(tickets) == [sold    |-> sold, bought |-> bought,
                  settled |-> {t \in tickets : ~NoRow(t)}, closed |-> Closed]

Snapshot == [stock |-> stock, users |-> users, inflight |-> inflight, returned |-> returned]

SeckillTypeOK ==
  /\ AsyncTypeOK
  /\ sold \in 0..Num /\ bought \in [Users -> 0..Limit]
  /\ deleted \subseteq Tickets /\ erased \in BOOLEAN
  /\ live \in BOOLEAN /\ stock \in Int /\ users \in [Users -> Nat]
  /\ inflight \subseteq Tickets /\ returned \subseteq Tickets
  /\ touched \in BOOLEAN
  /\ Cardinality(preheater) <= 1
  /\ reconciler.at \in {"idle", "view", "tickets", "release", "again", "fix"}
  /\ mishaps \in 0..MaxMishaps

\* InitSkillGoods preheats; if that fails the keys are missing at first.
SeckillInit ==
  /\ AsyncInit
  /\ sold = 0 /\ bought = [u \in Users |-> 0]
  /\ deleted = {} /\ erased = FALSE
  /\ live \in BOOLEAN /\ stock = IF live THEN Num ELSE 0
  /\ users = [u \in Users |-> 0] /\ inflight = {} /\ returned = {}
  /\ touched = FALSE
  /\ preheater = {} /\ reconciler = IdleReconciler /\ mishaps = 0

-----------------------------------------------------------------------------
(* The scripts.  All of them touch() the version when they change a key.   *)

DecrUser(u) == users' = [users EXCEPT ![u] = IF @ > 0 THEN @ - 1 ELSE 0]
Touch == touched' = TRUE

GrabScript(t) ==
  /\ live /\ users[UserOf[t]] < Limit /\ stock > 0
  /\ stock' = stock - 1
  /\ users' = [users EXCEPT ![UserOf[t]] = @ + 1]
  /\ inflight' = inflight \cup {t}
  /\ Touch /\ UNCHANGED <<live, returned>>

\* Mutant: the quota is given back whether or not the ticket is in flight.
MutReleaseScript(t, toStock, toUser) ==
  /\ inflight' = inflight \ {t}
  /\ IF toUser THEN DecrUser(UserOf[t]) ELSE UNCHANGED users
  /\ stock' = IF toStock /\ live THEN stock + 1 ELSE stock
  /\ Touch /\ UNCHANGED <<live, returned>>

ReleaseScript(t, toStock, toUser) ==
  \/ /\ t \in inflight
     /\ inflight' = inflight \ {t}
     /\ IF toUser THEN DecrUser(UserOf[t]) ELSE UNCHANGED users
     /\ stock' = IF toStock /\ live THEN stock + 1 ELSE stock
     /\ Touch /\ UNCHANGED <<live, returned>>
  \/ t \notin inflight /\ UNCHANGED quotaVars

SettleScript(t) ==
  /\ inflight' = inflight \ {t}
  /\ touched' = (touched \/ t \in inflight)
  /\ UNCHANGED <<live, stock, users, returned>>

\* Mutant: the order is not remembered as returned.
MutReturnScript(t) ==
  \/ /\ live /\ t \notin returned
     /\ stock' = stock + 1 /\ DecrUser(UserOf[t])
     /\ Touch /\ UNCHANGED <<live, inflight, returned>>
  \/ ~(live /\ t \notin returned) /\ UNCHANGED quotaVars

ReturnScript(t) ==
  \/ /\ live /\ t \notin returned
     /\ returned' = returned \cup {t}
     /\ stock' = stock + 1 /\ DecrUser(UserOf[t])
     /\ Touch /\ UNCHANGED <<live, inflight>>
  \/ ~(live /\ t \notin returned) /\ UNCHANGED quotaVars

\* The version may have been lost and counted up to an earlier value again.
PreheatScript(v) ==
  \/ /\ ~live
     /\ live' = TRUE /\ stock' = Num - v.sold /\ users' = v.bought
     /\ inflight' = {} /\ returned' = v.closed
     /\ touched' \in BOOLEAN
  \/ live /\ UNCHANGED quotaVars

-----------------------------------------------------------------------------
(* The request and the hooks of AsyncOrder *)

NoQuota == UNCHANGED <<quotaVars, saleVars, otherVars>>

\* The ticket exists before the quota is taken.  A refusal (sold out, limit
\* reached) changes nothing; a missing key waits for the preheating.
Grab(t) ==
  /\ GrabScript(t)
  /\ Arrive(t)
  /\ UNCHANGED <<saleVars, otherVars>>

\* The script ran and the reply was lost: no ticket is ever written.
GrabReplyLost(t) ==
  /\ "lost_reply" \in faults
  /\ GrabScript(t)
  /\ EnqueueGoes(t, "idle", "lost")
  /\ EnqueueOnly /\ UNCHANGED <<bucketVars, marks, status, queue, saleVars, otherVars>>

\* SeckillEnqueue returned an error.
ReleaseOnError(t) ==
  /\ ReturnError(t)
  /\ Logged(ReleaseScript(t, TRUE, TRUE), quotaVars)
  /\ UNCHANGED <<saleVars, otherVars>>

\* Mutant: the DB does not check the number of the sale.
MutOccupy(t) ==
  /\ bought[UserOf[t]] + 1 <= Limit
  /\ sold' = sold + 1
  /\ bought' = [bought EXCEPT ![UserOf[t]] = @ + 1]
  /\ UNCHANGED <<deleted, erased>>

\* Occupy, in the transaction that inserts the order.
Occupy(t) ==
  /\ sold + 1 <= Num /\ bought[UserOf[t]] + 1 <= Limit
  /\ sold' = sold + 1
  /\ bought' = [bought EXCEPT ![UserOf[t]] = @ + 1]
  /\ UNCHANGED <<deleted, erased>>

InsertSeckill(w) ==
  /\ InsertOrder(w)
  /\ Occupy(worker[w].ticket)
  /\ UNCHANGED <<quotaVars, otherVars>>

OccupyFails(w) ==
  /\ At(w, "insert") /\ order[worker[w].ticket] = "none"
  /\ \/ sold + 1 > Num /\ InsertFails(w, "soldOut")
     \/ /\ sold + 1 <= Num /\ bought[UserOf[worker[w].ticket]] + 1 > Limit
        /\ InsertFails(w, "limitExceeded")
  /\ NoQuota

SettleSeckill(w) ==
  /\ Settle(w)
  /\ Logged(SettleScript(worker[w].ticket), quotaVars)
  /\ UNCHANGED <<saleVars, otherVars>>

\* What the DB refused, Redis had too much of.
AbortSeckill(w) ==
  /\ Abort(w)
  /\ Logged(ReleaseScript(worker[w].ticket, worker[w].cause # "soldOut",
                          worker[w].cause # "limitExceeded"), quotaVars)
  /\ UNCHANGED <<saleVars, otherVars>>

\* Mutant: the user's number is not given back.
MutCancelSeckill(t) ==
  /\ CancelTx(t)
  /\ sold' = IF sold >= 1 THEN sold - 1 ELSE sold
  /\ UNCHANGED <<bought, deleted, erased, quotaVars, otherVars>>

\* UnbindTx, in the transaction that closes the order.
CancelSeckill(t) ==
  /\ CancelTx(t)
  /\ sold' = IF sold >= 1 THEN sold - 1 ELSE sold
  /\ bought' = [bought EXCEPT ![UserOf[t]] = IF @ >= 1 THEN @ - 1 ELSE @]
  /\ UNCHANGED <<deleted, erased, quotaVars, otherVars>>

\* DeleteOrderById of a closed order: the row is gone, also while its quota is
\* still to be given back.  The deletion comes 15 minutes after the insertion
\* at the earliest (only the timeout closes an unpaid order): its task is done.
DeleteClosed(t) ==
  /\ t \in Closed
  /\ t \notin queue /\ \A w \in Workers : ~(Busy(w) /\ worker[w].ticket = t)
  /\ deleted' = deleted \cup {t}
  /\ erased' = (erased \/ t \notin returned \/ t \in inflight)
  /\ UNCHANGED <<vars, sold, bought, quotaVars, otherVars>>

ReturnQuota(t) ==
  /\ Return(t)
  /\ Logged(ReturnScript(t), quotaVars)
  /\ UNCHANGED <<saleVars, otherVars>>

-----------------------------------------------------------------------------
(* Preheating: by a grab or a detail page that finds no stock key *)

PreheatRead ==
  /\ ~live /\ preheater = {}
  /\ preheater' = {View({})}
  /\ UNCHANGED <<vars, saleVars, quotaVars, reconciler, mishaps>>

PreheatWrite ==
  /\ \E v \in preheater : PreheatScript(v)
  /\ preheater' = {}
  /\ UNCHANGED <<vars, saleVars, reconciler, mishaps>>

Mishap == mishaps < MaxMishaps /\ mishaps' = mishaps + 1

\* Some keys of the sale are lost: eviction, a restart, a manual deletion.
RedisLosesKeys ==
  /\ "keys_lost" \in faults /\ Mishap
  /\ \/ live /\ live' = FALSE /\ stock' = 0 /\ UNCHANGED <<users, inflight, returned>>
     \/ users' = [u \in Users |-> 0] /\ UNCHANGED <<live, stock, inflight, returned>>
     \/ inflight' = {} /\ UNCHANGED <<live, stock, users, returned>>
     \/ returned' = {} /\ UNCHANGED <<live, stock, users, inflight>>
  /\ UNCHANGED <<vars, saleVars, touched, preheater, reconciler>>

-----------------------------------------------------------------------------
(* RunSeckillReconcile *)

OnlyReconciler == UNCHANGED <<vars, saleVars, preheater>>

\* snapshotScript; a sale without its stock key is left to the preheating.
TakeSnapshot ==
  /\ "no_cron" \notin faults /\ live
  /\ \/ /\ reconciler.at = "idle"
        /\ reconciler' = [at |-> "view", attempt |-> 0, snap |-> Snapshot]
     \/ /\ reconciler.at = "tickets" /\ reconciler.flying = {} /\ reconciler.owed = {}
        /\ reconciler' = [at |-> "view", attempt |-> 1, snap |-> Snapshot]
     \/ /\ reconciler.at = "again"
        /\ reconciler' = [at |-> "view", attempt |-> reconciler.attempt, snap |-> Snapshot]
  /\ touched' = FALSE
  /\ OnlyReconciler /\ UNCHANGED <<quotaKeys, mishaps>>

\* The DB is read after Redis.  The first view names tickets and closed
\* orders; a later one goes on to fixDrift if the version has not moved.  The
\* version is read right after the view: fixScript compares it again.
ReadView ==
  /\ reconciler.at = "view"
  /\ LET snap == reconciler.snap
         n    == reconciler.attempt
         v    == View(snap.inflight)
     IN  \/ /\ n = 0
            /\ reconciler' = [at |-> "tickets", settled |-> v.settled, flying |-> snap.inflight,
                              owed |-> v.closed \ snap.returned]
         \/ /\ n > 0 /\ ~touched
            /\ reconciler' = [at |-> "fix", snap |-> snap, view |-> v]
         \/ /\ n > 0 /\ touched
            /\ reconciler' = IF n < Attempts THEN [at |-> "again", attempt |-> n + 1]
                             ELSE IdleReconciler
  /\ OnlyReconciler /\ UNCHANGED <<quotaVars, mishaps>>

\* orphanTicketGrace: a request writes its ticket within a minute.
OrphanGraceOver(t) == enqueuer[t] \notin {"reserve", "mark", "put"}

\* Mutant: a ticket that has waited for long is given back.
MutLeaked(t) == status[t] \in {"failed", "pending"} \/ (status[t] = "none" /\ OrphanGraceOver(t))

\* Mutant: only a ticket that says so is a leak.
MutLeakedIfTold(t) == status[t] = "failed"

Leaked(t) == status[t] = "failed" \/ (status[t] = "none" /\ OrphanGraceOver(t))

CheckTicket(t) ==
  /\ reconciler.at = "tickets" /\ t \in reconciler.flying
  /\ LET rest == [reconciler EXCEPT !.flying = @ \ {t}]
     IN  \/ /\ t \in reconciler.settled
            /\ reconciler' = rest /\ SettleScript(t)
         \/ /\ t \notin reconciler.settled /\ Leaked(t)
            /\ reconciler' = [at |-> "release", ticket |-> t, rest |-> rest]
            /\ UNCHANGED quotaVars
         \/ /\ t \notin reconciler.settled /\ ~Leaked(t)
            /\ reconciler' = rest /\ UNCHANGED quotaVars
  /\ OnlyReconciler /\ UNCHANGED mishaps

ReleaseLeaked ==
  /\ reconciler.at = "release"
  /\ ReleaseScript(reconciler.ticket, TRUE, TRUE)
  /\ reconciler' = reconciler.rest
  /\ OnlyReconciler /\ UNCHANGED mishaps

ReturnMissed(t) ==
  /\ reconciler.at = "tickets" /\ reconciler.flying = {} /\ t \in reconciler.owed
  /\ ReturnScript(t)
  /\ reconciler' = [reconciler EXCEPT !.owed = @ \ {t}]
  /\ OnlyReconciler /\ UNCHANGED mishaps

Of(u, tickets) == {t \in tickets : UserOf[t] = u}

Unsettled(snap, v) == snap.inflight \ v.settled

\* fixDrift and fixScript, which compares the version once more.
FixDrift ==
  /\ reconciler.at = "fix"
  /\ LET snap  == reconciler.snap
         v     == reconciler.view
         held  == Unsettled(snap, v) \cup (v.closed \ snap.returned)
         want  == [u \in Users |-> v.bought[u] + Cardinality(Of(u, held))]
         delta == (Num - v.sold) - Cardinality(held) - snap.stock
     IN  IF touched \/ ~live \/ (delta = 0 /\ want = snap.users)
         THEN UNCHANGED quotaVars
         ELSE /\ stock' = stock + delta
              /\ users' = [u \in Users |-> IF want[u] # snap.users[u] THEN want[u] ELSE users[u]]
              /\ Touch /\ UNCHANGED <<live, inflight, returned>>
  /\ reconciler' = IdleReconciler
  /\ OnlyReconciler /\ UNCHANGED mishaps

\* It dies, a read fails or the sale has lost its stock key; or one script
\* failed, which is logged.
ReconcilerStops ==
  /\ \/ ~live /\ UNCHANGED mishaps
     \/ "cron_stopped" \in faults /\ Mishap
  /\ reconciler.at # "idle"
  /\ reconciler' \in {IdleReconciler} \cup
       (IF reconciler.at = "release" THEN {reconciler.rest} ELSE {})
  /\ OnlyReconciler /\ UNCHANGED quotaVars

RedeliveredOnce(w) ==
  /\ Redelivered(w) /\ Mishap
  /\ UNCHANGED <<saleVars, quotaVars, preheater, reconciler>>

ReconcileStep ==
  \/ TakeSnapshot \/ ReadView \/ ReleaseLeaked \/ FixDrift
  \/ \E t \in Tickets : CheckTicket(t) \/ ReturnMissed(t)

-----------------------------------------------------------------------------
RequestStep(t) ==
  \/ /\ ReserveStock(t) \/ MarkInflight(t) \/ PutPending(t) \/ Publish(t)
        \/ UndoRelease(t) \/ UndoUnmark(t) \/ PutPublishFailed(t) \/ EnqueuerDies(t)
     /\ NoQuota
  \/ ReleaseOnError(t)

ConsumeStep(w) ==
  \/ /\ Deliver(w) \/ Lookup(w) \/ InsertFails(w, NoCause) \/ Recheck(w) \/ Unmark(w)
        \/ ReleaseOnAbort(w) \/ PutResult(w)
     /\ NoQuota
  \/ InsertSeckill(w) \/ OccupyFails(w) \/ SettleSeckill(w) \/ AbortSeckill(w)

CloserStep(t) ==
  \/ (ReleaseOnCancel(t) \/ CloserDies(t)) /\ NoQuota
  \/ ReturnQuota(t)

\* A run of the reconciliation takes less than the ten minutes between
\* AsyncTaskMaxAge and OrderTicketTTL (its lock is held for five).
Time(t) ==
  /\ GrowsOld(t) \/ Expire(t)
  /\ age'[t] = "expired" /\ age[t] = "stale" => reconciler.at \notin {"tickets", "release"}
  /\ NoQuota

SeckillNext ==
  \/ \E t \in Tickets : Grab(t) \/ GrabReplyLost(t) \/ RequestStep(t) \/ CancelSeckill(t)
                        \/ DeleteClosed(t) \/ CloserStep(t) \/ Time(t)
  \/ \E w \in Workers : ConsumeStep(w) \/ RedeliveredOnce(w)
  \/ PreheatRead \/ PreheatWrite \/ RedisLosesKeys
  \/ ReconcileStep \/ ReconcilerStops

SeckillSpec == SeckillInit /\ [][SeckillNext]_allVars

\* Requests and deliveries run to an end, time passes (between the runs of
\* the reconciliation too) and the cron runs.
\* Nobody owes a grab, a visit of the page, a cancellation or a deletion.
Fairness ==
  /\ \A t \in Tickets : /\ WF_allVars(RequestStep(t))
                        /\ WF_allVars(CloserStep(t))
                        /\ SF_allVars(Time(t))
  /\ \A w \in Workers : WF_allVars(ConsumeStep(w))
  /\ WF_allVars(PreheatWrite)
  /\ WF_allVars(ReconcileStep)
  /\ WF_allVars(ReconcilerStops /\ UNCHANGED mishaps)

FairSeckillSpec == SeckillSpec /\ Fairness

-----------------------------------------------------------------------------
Open   == {t \in Tickets : order[t] = "WaitPay"}
Flying == {t \in inflight : NoRow(t)}
Owed   == Closed \ returned

\* The DB is the last line: whatever Redis lost, was told twice or not at
\* all, the orders of the sale are what sold and bought say, at most Num of
\* them and at most Limit for each user.
DBGuards ==
  /\ sold = Cardinality(Open) /\ sold <= Num
  /\ \A u \in Users : bought[u] = Cardinality(Of(u, Open)) /\ bought[u] <= Limit

Exact ==
  /\ stock + Cardinality(Flying) + Cardinality(Owed) = Num - sold
  /\ \A u \in Users : users[u] = bought[u] + Cardinality(Of(u, Flying \cup Owed))

\* Redis does what it is told and keeps it, and no task is handled twice.
KeysKept == HandledOnce /\ faults \cap {"redis_error", "keys_lost"} = {}

\* The invariant of service.go, with what is under way at any moment: each
\* quota is in one place, while requests die, deliveries fail and the
\* reconciliation runs.  It needs no rest.  Of an order that was deleted before
\* its quota was given back the DB knows nothing: there it is off for a while.
QuotaExact == KeysKept /\ live /\ ~erased => Exact

\* A ticket that waits in the queue, however long, keeps its quota: the
\* reconciliation gives back only what no consumer will turn into an order.
QueuedKeepsQuota == KeysKept => \A t \in Tickets : Queued(t) => t \in inflight

\* Whatever keys Redis lost, whatever was handled twice or deleted too early,
\* the counters come back to what the DB says.
QuotaHeals == <>[](live => Exact)

\* No quota stays in flight for ever: its ticket becomes an order or is
\* given back, as long as Redis has the sale.
FlightsEnd == \A t \in Tickets : t \in inflight /\ live ~> t \notin inflight \/ ~live
=============================================================================

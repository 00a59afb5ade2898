----------------------------- MODULE AsyncOrder -----------------------------
(***************************************************************************)
(* Orders created through a queue (OrderEnqueue and its consumer).  A      *)
(* request reserves a piece in Redis, writes a ticket and publishes a      *)
(* task; a consumer turns the task into an order row with that ticket.     *)
(* Between the two the piece is known only to Redis: the in-flight marks   *)
(* tell the leak sampler of StockReconcile that it is not a leak.          *)
(*                                                                         *)
(* Each Redis call, transaction and queue operation is a step.  A worker   *)
(* is one delivery of the consumer; a task comes back when the channel     *)
(* closes before its Ack, while the first worker may go on with it.  What  *)
(* may be hooked on the pipeline (the seckill binder) are the stages       *)
(* "refused", "settle", "abort" and "return", and the field cause.         *)
(*                                                                         *)
(* An order buys one piece.  Payment and what follows are in OrderStock:   *)
(* here an order waits for payment or is closed.                           *)
(***************************************************************************)
EXTENDS Integers, FiniteSets

CONSTANTS Tickets,  \* one for each request
          Workers,  \* deliveries that may be handled side by side
          Pieces,   \* what is available at the start
          FaultSets \* what may fail: in each behaviour what one of these sets says

ASSUME TicketsAssumption == IsFiniteSet(Tickets)
ASSUME PiecesAssumption  == Pieces \in Nat
ASSUME FaultsAssumption  ==
  FaultSets \subseteq SUBSET {"crash", "redis_error", "db_error", "lost_reply",
    "message_lost", "publish_unknown", "redelivery", "keys_lost", "cron_stopped", "no_cron"}

VARIABLES
  order,     \* the row with this ticket (unique index)
  available, \* Redis buckets of the product
  reserved,
  marks,     \* order:async:inflight
  status,    \* order:ticket:<ticket>
  age,       \* of the ticket: older than AsyncTaskMaxAge, than OrderTicketTTL
  queue,     \* tasks that wait for a delivery
  enqueuer,  \* OrderEnqueue
  worker,    \* HandleAsyncOrderTask
  closer,    \* CancelUnpaidOrder
  faults     \* the failures of this behaviour

bucketVars == <<available, reserved>>
ticketVars == <<status, age>>
vars == <<order, bucketVars, marks, ticketVars, queue, enqueuer, worker, closer, faults>>

EnqueuerStates == {"idle", "reserve", "mark", "put", "publish", "undo", "unmark",
                   "undoPublish", "unmarkPublish", "fail", "refused", "done", "lost"}

\* Stages of a delivery; cause is why the transaction was refused, holds is
\* whether the delivery can still be acknowledged.
WorkerStates == {"lookup", "insert", "recheck", "unmark", "settle", "ok",
                 "release", "unmarkAbort", "abort", "failed"}
NoCause == "none"

CONSTANT Causes  \* what the hooks may refuse a transaction for

IdleWorker == [at |-> "idle"]
Delivery   == [at : WorkerStates, ticket : Tickets, holds : BOOLEAN,
               cause : Causes \cup {NoCause}]

AsyncTypeOK ==
  /\ order \in [Tickets -> {"none", "WaitPay", "Closed"}]
  /\ available \in Nat /\ reserved \in Nat
  /\ marks \subseteq Tickets
  /\ status \in [Tickets -> {"none", "pending", "ok", "failed"}]
  /\ age \in [Tickets -> {"fresh", "stale", "expired"}]
  /\ queue \subseteq Tickets
  /\ enqueuer \in [Tickets -> EnqueuerStates]
  /\ worker \in [Workers -> Delivery \cup {IdleWorker}]
  /\ closer \in [Tickets -> {"idle", "release", "return", "done", "lost"}]
  /\ faults \in FaultSets

AsyncInit ==
  /\ order = [t \in Tickets |-> "none"]
  /\ available = Pieces /\ reserved = 0
  /\ marks = {}
  /\ status = [t \in Tickets |-> "none"]
  /\ age = [t \in Tickets |-> "fresh"]
  /\ queue = {}
  /\ enqueuer = [t \in Tickets |-> "idle"]
  /\ worker = [w \in Workers |-> IdleWorker]
  /\ closer = [t \in Tickets |-> "idle"]
  /\ faults \in FaultSets

-----------------------------------------------------------------------------
(* OrderEnqueue *)

EnqueueGoes(t, from, to) ==
  enqueuer[t] = from /\ enqueuer' = [enqueuer EXCEPT ![t] = to]

EnqueueOnly == UNCHANGED <<order, age, worker, closer, faults>>

\* A Redis call whose error is only logged.
Logged(Call, unchanged) == Call \/ ("redis_error" \in faults /\ UNCHANGED unchanged)

\* ReleaseReservation; a bucket that is too short is an error of the script.
Release ==
  \/ reserved >= 1 /\ reserved' = reserved - 1 /\ available' = available + 1
  \/ reserved < 1 /\ UNCHANGED bucketVars

\* The request comes in (with a quota of the seckill in hand, if it is one).
Arrive(t) ==
  /\ EnqueueGoes(t, "idle", "reserve")
  /\ EnqueueOnly /\ UNCHANGED <<bucketVars, marks, status, queue>>

\* product.ReserveStock; the checks before it refuse the request as well.
ReserveStock(t) ==
  /\ \/ /\ available >= 1
        /\ EnqueueGoes(t, "reserve", "mark")
        /\ available' = available - 1 /\ reserved' = reserved + 1
     \/ EnqueueGoes(t, "reserve", "refused") /\ UNCHANGED bucketVars
  /\ EnqueueOnly /\ UNCHANGED <<marks, status, queue>>

MarkInflight(t) ==
  /\ EnqueueGoes(t, "mark", "put")
  /\ Logged(marks' = marks \cup {t}, marks)
  /\ EnqueueOnly /\ UNCHANGED <<bucketVars, status, queue>>

PutPending(t) ==
  /\ \/ EnqueueGoes(t, "put", "publish") /\ status' = [status EXCEPT ![t] = "pending"]
     \/ "redis_error" \in faults /\ EnqueueGoes(t, "put", "undo") /\ UNCHANGED status
  /\ EnqueueOnly /\ UNCHANGED <<bucketVars, marks, queue>>

\* Publishing waits for no confirm: a task may be lost without an error, and
\* an error does not say that the task is not in the queue.
Publish(t) ==
  /\ \/ EnqueueGoes(t, "publish", "done") /\ queue' = queue \cup {t}
     \/ EnqueueGoes(t, "publish", "done") /\ "message_lost" \in faults /\ UNCHANGED queue
     \/ EnqueueGoes(t, "publish", "undoPublish") /\ UNCHANGED queue
     \/ /\ EnqueueGoes(t, "publish", "undoPublish")
        /\ "publish_unknown" \in faults /\ queue' = queue \cup {t}
  /\ EnqueueOnly /\ UNCHANGED <<bucketVars, marks, status>>

\* undo: the piece first, the mark after it.
UndoRelease(t) ==
  /\ EnqueueGoes(t, "undo", "unmark") \/ EnqueueGoes(t, "undoPublish", "unmarkPublish")
  /\ Logged(Release, bucketVars)
  /\ EnqueueOnly /\ UNCHANGED <<marks, status, queue>>

UndoUnmark(t) ==
  /\ EnqueueGoes(t, "unmark", "refused") \/ EnqueueGoes(t, "unmarkPublish", "fail")
  /\ Logged(marks' = marks \ {t}, marks)
  /\ EnqueueOnly /\ UNCHANGED <<bucketVars, status, queue>>

PutPublishFailed(t) ==
  /\ EnqueueGoes(t, "fail", "refused")
  /\ Logged(status' = [status EXCEPT ![t] = "failed"], status)
  /\ EnqueueOnly /\ UNCHANGED <<bucketVars, marks, queue>>

EnqueuerDies(t) ==
  /\ "crash" \in faults
  /\ enqueuer[t] \notin {"idle", "done", "lost"}
  /\ enqueuer' = [enqueuer EXCEPT ![t] = "lost"]
  /\ EnqueueOnly /\ UNCHANGED <<bucketVars, marks, status, queue>>

ReturnError(t) ==
  /\ EnqueueGoes(t, "refused", "done")
  /\ EnqueueOnly /\ UNCHANGED <<bucketVars, marks, status, queue>>

-----------------------------------------------------------------------------
(* HandleAsyncOrderTask *)

At(w, stage) == worker[w].at = stage
Goes(w, stage) == worker' = [worker EXCEPT ![w].at = stage]
Busy(w) == worker[w] # IdleWorker
WorkOnly == UNCHANGED <<age, enqueuer, closer, faults>>

\* Ack, or Nack without requeue: the task is gone.  One that came back to the
\* queue stays there.
Ends(w) == worker' = [worker EXCEPT ![w] = IdleWorker]

\* Mutant: the mark goes with the delivery, not with the order.
MutDeliver(w) ==
  /\ ~Busy(w)
  /\ \E t \in queue :
       /\ queue' = queue \ {t} /\ marks' = marks \ {t}
       /\ worker' = [worker EXCEPT ![w] = [at |-> "lookup", ticket |-> t,
                                           holds |-> TRUE, cause |-> NoCause]]
  /\ WorkOnly /\ UNCHANGED <<order, bucketVars, status>>

Deliver(w) ==
  /\ ~Busy(w)
  /\ \E t \in queue :
       /\ queue' = queue \ {t}
       /\ worker' = [worker EXCEPT ![w] = [at |-> "lookup", ticket |-> t,
                                           holds |-> TRUE, cause |-> NoCause]]
  /\ WorkOnly /\ UNCHANGED <<order, bucketVars, marks, status>>

\* The broker takes the task back; the worker does not notice, or is dead.
Redelivered(w) ==
  /\ "redelivery" \in faults
  /\ Busy(w) /\ worker[w].holds
  /\ queue' = queue \cup {worker[w].ticket}
  /\ worker' \in {[worker EXCEPT ![w].holds = FALSE], [worker EXCEPT ![w] = IdleWorker]}
  /\ WorkOnly /\ UNCHANGED <<order, bucketVars, marks, status>>

\* GetOrderByTicket, the age of the ticket, resolveTaskSettlement (it refuses
\* a product that is off sale, a coupon that was used).
Lookup(w) ==
  /\ At(w, "lookup")
  /\ LET t == worker[w].ticket
     IN  \/ order[t] # "none" /\ Goes(w, "unmark")
         \/ order[t] = "none" /\ age[t] = "fresh" /\ Goes(w, "insert")
         \/ order[t] = "none" /\ Goes(w, "release")
         \/ "db_error" \in faults /\ Ends(w)
  /\ WorkOnly /\ UNCHANGED <<order, bucketVars, marks, status, queue>>

\* The transaction commits.
InsertOrder(w) ==
  /\ At(w, "insert") /\ order[worker[w].ticket] = "none"
  /\ order' = [order EXCEPT ![worker[w].ticket] = "WaitPay"]
  /\ \/ Goes(w, "unmark")
     \/ "lost_reply" \in faults /\ Goes(w, "recheck")
  /\ WorkOnly /\ UNCHANGED <<bucketVars, marks, status, queue>>

\* It rolls back: a second row with the ticket, a refusal by a hook, an error.
InsertFails(w, cause) ==
  /\ At(w, "insert")
  /\ order[worker[w].ticket] # "none" \/ cause # NoCause \/ "db_error" \in faults
  /\ worker' = [worker EXCEPT ![w].at = "recheck", ![w].cause = cause]
  /\ WorkOnly /\ UNCHANGED <<order, bucketVars, marks, status, queue>>

\* Mutant: after an error of the transaction the task is given up at once.
MutRecheck(w) ==
  /\ At(w, "recheck")
  /\ Goes(w, "release")
  /\ WorkOnly /\ UNCHANGED <<order, bucketVars, marks, status, queue>>

Recheck(w) ==
  /\ At(w, "recheck")
  /\ \/ order[worker[w].ticket] # "none" /\ Goes(w, "unmark")
     \/ order[worker[w].ticket] = "none" /\ Goes(w, "release")
     \/ "db_error" \in faults /\ Ends(w)
  /\ WorkOnly /\ UNCHANGED <<order, bucketVars, marks, status, queue>>

\* finishAsyncTask and abortAsyncTask
Unmark(w) ==
  /\ \/ At(w, "unmark") /\ Goes(w, "settle")
     \/ At(w, "unmarkAbort") /\ Goes(w, "abort")
  /\ Logged(marks' = marks \ {worker[w].ticket}, marks)
  /\ WorkOnly /\ UNCHANGED <<order, bucketVars, status, queue>>

ReleaseOnAbort(w) ==
  /\ At(w, "release") /\ Goes(w, "unmarkAbort")
  /\ Logged(Release, bucketVars)
  /\ WorkOnly /\ UNCHANGED <<order, marks, status, queue>>

\* An order that is not a seckill has nothing here.
Settle(w) ==
  /\ At(w, "settle") /\ Goes(w, "ok")
  /\ WorkOnly /\ UNCHANGED <<order, bucketVars, marks, status, queue>>

Abort(w) ==
  /\ At(w, "abort") /\ Goes(w, "failed")
  /\ WorkOnly /\ UNCHANGED <<order, bucketVars, marks, status, queue>>

PutResult(w) ==
  /\ worker[w].at \in {"ok", "failed"}
  /\ Ends(w)
  /\ Logged(status' = [status EXCEPT ![worker[w].ticket] = worker[w].at], status)
  /\ WorkOnly /\ UNCHANGED <<order, bucketVars, marks, queue>>

-----------------------------------------------------------------------------
(* CancelUnpaidOrder, and time *)

CloseOnly == UNCHANGED <<marks, ticketVars, queue, enqueuer, worker, faults>>

CancelTx(t) ==
  /\ order[t] = "WaitPay"
  /\ order' = [order EXCEPT ![t] = "Closed"]
  /\ closer' = [closer EXCEPT ![t] = "release"]
  /\ CloseOnly /\ UNCHANGED bucketVars

ReleaseOnCancel(t) ==
  /\ closer[t] = "release"
  /\ closer' = [closer EXCEPT ![t] = "return"]
  /\ Logged(Release, bucketVars)
  /\ CloseOnly /\ UNCHANGED order

Return(t) ==
  /\ closer[t] = "return"
  /\ closer' = [closer EXCEPT ![t] = "done"]
  /\ CloseOnly /\ UNCHANGED <<order, bucketVars>>

CloserDies(t) ==
  /\ "crash" \in faults
  /\ closer[t] \in {"release", "return"}
  /\ closer' = [closer EXCEPT ![t] = "lost"]
  /\ CloseOnly /\ UNCHANGED <<order, bucketVars>>

\* A request does not run for 50 minutes, and a worker that found the ticket
\* young enough is done with it ten minutes later.
EnqueueEnded(t) == enqueuer[t] \in {"done", "lost"}
GrowsOld(t) ==
  /\ \/ /\ age[t] = "fresh" /\ EnqueueEnded(t)
        /\ age' = [age EXCEPT ![t] = "stale"]
     \/ /\ age[t] = "stale"
        /\ \A w \in Workers : ~(Busy(w) /\ worker[w].ticket = t
                                /\ worker[w].at \in {"insert", "recheck"})
        /\ age' = [age EXCEPT ![t] = "expired"]
  /\ UNCHANGED <<order, bucketVars, marks, status, queue, enqueuer, worker, closer, faults>>

\* The TTL of the ticket key; asyncInflightNum drops marks of that age.
Expire(t) ==
  /\ age[t] = "expired"
  /\ \/ status[t] # "none" /\ status' = [status EXCEPT ![t] = "none"] /\ UNCHANGED marks
     \/ t \in marks /\ marks' = marks \ {t} /\ UNCHANGED status
  /\ UNCHANGED <<order, bucketVars, age, queue, enqueuer, worker, closer, faults>>

-----------------------------------------------------------------------------
(* What the buckets must cover *)

\* A delivery, or a task in the queue, that can still become an order.
Queued(t) ==
  /\ order[t] = "none" /\ age[t] = "fresh"
  /\ t \in queue \/ \E w \in Workers : Busy(w) /\ worker[w].ticket = t
                                        /\ worker[w].at \in {"lookup", "insert", "recheck"}

Unpaid == {t \in Tickets : order[t] = "WaitPay"}

\* A task is handled once, and is in the queue when and only when publishing
\* has said so.
HandledOnce == faults \cap {"redelivery", "publish_unknown"} = {}

\* A buyer who was told "pending" or has an order owns a piece of reserved:
\* no release of another ticket, however it failed, takes that piece.
TicketsCovered ==
  HandledOnce => Cardinality(Unpaid \cup {t \in Tickets : Queued(t)}) <= reserved

\* sampleReservationLeak takes reserved less the unpaid orders and the marks
\* for a leak.  A task that waits in the queue, however long, is never in it.
QueuedNotLeaked ==
  HandledOnce /\ "redis_error" \notin faults =>
    \A t \in Tickets : Queued(t) => t \in marks
=============================================================================

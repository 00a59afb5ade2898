--------------------------- MODULE Seckill_proofs ---------------------------
(***************************************************************************)
(* Proofs about Seckill and the asynchronous orders it rests on, for any   *)
(* finite sets of tickets, workers and users, any number of pieces, any    *)
(* limits and any failures.                                                *)
(***************************************************************************)
EXTENDS Seckill, FiniteSetTheorems, TLAPS

-----------------------------------------------------------------------------
(* Counting *)

LEMMA TicketSets ==
  ASSUME NEW S \in SUBSET Tickets
  PROVE  IsFiniteSet(S) /\ Cardinality(S) \in Nat
BY TicketsAssumption, FS_Subset, FS_CardinalityType

LEMMA CountAdd ==
  ASSUME NEW S \in SUBSET Tickets, NEW t \in Tickets, t \notin S
  PROVE  Cardinality(S \cup {t}) = Cardinality(S) + 1
BY TicketSets, FS_AddElement

LEMMA CountRemove ==
  ASSUME NEW S \in SUBSET Tickets, NEW t \in S
  PROVE  /\ Cardinality(S \ {t}) = Cardinality(S) - 1
         /\ Cardinality(S) >= 1
<1>1. IsFiniteSet(S) /\ Cardinality(S) \in Nat /\ Cardinality(S \ {t}) \in Nat
  BY TicketSets
<1>2. Cardinality(S \ {t}) = Cardinality(S) - 1
  BY <1>1, FS_RemoveElement
<1> QED
  BY <1>1, <1>2

LEMMA CountFewer ==
  ASSUME NEW S \in SUBSET Tickets, NEW T \in SUBSET S
  PROVE  Cardinality(T) <= Cardinality(S)
BY TicketSets, FS_Subset

-----------------------------------------------------------------------------
(* What a step of the sale does to the asynchronous orders *)

GrabLost(t) ==
  /\ EnqueueGoes(t, "idle", "lost")
  /\ EnqueueOnly /\ UNCHANGED <<bucketVars, marks, status, queue>>

RequestMoves(t) ==
  \/ Arrive(t) \/ GrabLost(t) \/ ReserveStock(t) \/ MarkInflight(t) \/ PutPending(t) \/ Publish(t)
  \/ UndoRelease(t) \/ UndoUnmark(t) \/ PutPublishFailed(t) \/ EnqueuerDies(t) \/ ReturnError(t)

OrderMoves(t) ==
  CancelTx(t) \/ ReleaseOnCancel(t) \/ Return(t) \/ CloserDies(t) \/ GrowsOld(t) \/ Expire(t)

WorkerMoves(w) ==
  \/ Deliver(w) \/ Redelivered(w) \/ Lookup(w) \/ InsertOrder(w)
  \/ \E cause \in Causes \cup {NoCause} : InsertFails(w, cause)
  \/ Recheck(w) \/ Unmark(w) \/ ReleaseOnAbort(w) \/ Settle(w) \/ Abort(w) \/ PutResult(w)

AsyncNext ==
  \/ \E t \in Tickets : RequestMoves(t) \/ OrderMoves(t)
  \/ \E w \in Workers : WorkerMoves(w)

LEMMA AsyncPart == [SeckillNext]_allVars => [AsyncNext]_vars
<1> SUFFICES ASSUME [SeckillNext]_allVars PROVE [AsyncNext]_vars
  OBVIOUS
<1> USE DEF AsyncNext
<1>1. CASE UNCHANGED allVars
  BY <1>1 DEF allVars
<1>2. ASSUME NEW t \in Tickets, Grab(t) \/ GrabReplyLost(t) \/ RequestStep(t)
      PROVE  AsyncNext
  BY <1>2 DEF Grab, GrabReplyLost, RequestStep, ReleaseOnError, RequestMoves, GrabLost
<1>6. ASSUME NEW t \in Tickets, DeleteClosed(t) PROVE UNCHANGED vars
  BY <1>6 DEF DeleteClosed
<1>3. ASSUME NEW t \in Tickets, CancelSeckill(t) \/ CloserStep(t) \/ Time(t)
      PROVE  AsyncNext
  BY <1>3 DEF CancelSeckill, CloserStep, ReturnQuota, Time, OrderMoves
<1>4. ASSUME NEW w \in Workers, ConsumeStep(w) \/ RedeliveredOnce(w)
      PROVE  AsyncNext
  <2>1. NoCause \in Causes \cup {NoCause} /\ "soldOut" \in Causes \cup {NoCause}
        /\ "limitExceeded" \in Causes \cup {NoCause}
    BY CausesAssumption
  <2> QED
    BY <1>4, <2>1
    DEF ConsumeStep, RedeliveredOnce, InsertSeckill, OccupyFails, SettleSeckill, AbortSeckill, WorkerMoves
<1>5. CASE PreheatRead \/ PreheatWrite \/ RedisLosesKeys \/ ReconcileStep \/ ReconcilerStops
  BY <1>5 DEF PreheatRead, PreheatWrite, RedisLosesKeys, ReconcileStep, ReconcilerStops, TakeSnapshot,
     ReadView, ReleaseLeaked, FixDrift, CheckTicket, ReturnMissed, OnlyReconciler
<1> QED
  BY <1>1, <1>2, <1>3, <1>4, <1>5, <1>6 DEF SeckillNext

-----------------------------------------------------------------------------
(* Types of the asynchronous orders *)

LEMMA BusyAt ==
  ASSUME AsyncTypeOK, NEW w \in Workers, worker[w].at \in WorkerStates
  PROVE  Busy(w) /\ worker[w] \in Delivery /\ worker[w].ticket \in Tickets
BY DEF AsyncTypeOK, Busy, IdleWorker, WorkerStates, Delivery

LEMMA BusyType ==
  ASSUME AsyncTypeOK, NEW w \in Workers, Busy(w)
  PROVE  worker[w] \in Delivery /\ worker[w].ticket \in Tickets /\ worker[w].at \in WorkerStates
BY DEF AsyncTypeOK, Busy, Delivery

LEMMA ReleaseType ==
  ASSUME available \in Nat, reserved \in Nat, Release
  PROVE  available' \in Nat /\ reserved' \in Nat
BY DEF Release, bucketVars

LEMMA AsyncTypeStep == AsyncTypeOK /\ [AsyncNext]_vars => AsyncTypeOK'
<1> SUFFICES ASSUME AsyncTypeOK, [AsyncNext]_vars PROVE AsyncTypeOK'
  OBVIOUS
<1>1. CASE UNCHANGED vars
  BY <1>1 DEF AsyncTypeOK, vars, bucketVars, ticketVars
<1>2. ASSUME NEW t \in Tickets, RequestMoves(t)
      PROVE  AsyncTypeOK'
  <2>1. UNCHANGED <<order, age, worker, closer, faults>>
    BY <1>2 DEF RequestMoves, Arrive, GrabLost, ReserveStock, MarkInflight, PutPending, Publish,
       UndoRelease, UndoUnmark, PutPublishFailed, EnqueuerDies, ReturnError, EnqueueOnly
  <2>2. \E s \in EnqueuerStates : enqueuer' = [enqueuer EXCEPT ![t] = s]
    BY <1>2 DEF RequestMoves, Arrive, GrabLost, ReserveStock, MarkInflight, PutPending, Publish,
       UndoRelease, UndoUnmark, PutPublishFailed, EnqueuerDies, ReturnError, EnqueueGoes, EnqueuerStates
  <2>3. available' \in Nat /\ reserved' \in Nat
    <3>1. CASE UNCHANGED bucketVars
      BY <3>1 DEF AsyncTypeOK, bucketVars
    <3>2. CASE Release
      BY <3>2, ReleaseType DEF AsyncTypeOK
    <3>3. CASE ReserveStock(t)
      BY <3>3 DEF AsyncTypeOK, ReserveStock, bucketVars
    <3> QED
      BY <1>2, <3>1, <3>2, <3>3 DEF RequestMoves, Arrive, GrabLost, MarkInflight, PutPending, Publish,
         UndoRelease, UndoUnmark, PutPublishFailed, EnqueuerDies, ReturnError, Logged
  <2>4. marks' \subseteq Tickets /\ queue' \subseteq Tickets
    BY <1>2 DEF AsyncTypeOK, RequestMoves, Arrive, GrabLost, ReserveStock, MarkInflight, PutPending, Publish,
       UndoRelease, UndoUnmark, PutPublishFailed, EnqueuerDies, ReturnError, Logged
  <2>5. status' \in [Tickets -> {"none", "pending", "ok", "failed"}]
    BY <1>2 DEF AsyncTypeOK, RequestMoves, Arrive, GrabLost, ReserveStock, MarkInflight, PutPending, Publish,
       UndoRelease, UndoUnmark, PutPublishFailed, EnqueuerDies, ReturnError, Logged
  <2> QED
    BY <2>1, <2>2, <2>3, <2>4, <2>5 DEF AsyncTypeOK
<1>3. ASSUME NEW t \in Tickets, OrderMoves(t)
      PROVE  AsyncTypeOK'
  <2>1. UNCHANGED <<queue, enqueuer, worker, faults>>
    BY <1>3 DEF OrderMoves, CancelTx, ReleaseOnCancel, Return, CloserDies, GrowsOld, Expire, CloseOnly
  <2>2. available' \in Nat /\ reserved' \in Nat
    <3>1. CASE UNCHANGED bucketVars
      BY <3>1 DEF AsyncTypeOK, bucketVars
    <3>2. CASE Release
      BY <3>2, ReleaseType DEF AsyncTypeOK
    <3> QED
      BY <1>3, <3>1, <3>2 DEF OrderMoves, CancelTx, ReleaseOnCancel, Return, CloserDies, GrowsOld, Expire, Logged
  <2>3. order' \in [Tickets -> {"none", "WaitPay", "Closed"}] /\ marks' \subseteq Tickets
    BY <1>3 DEF AsyncTypeOK, OrderMoves, CancelTx, ReleaseOnCancel, Return, CloserDies, GrowsOld, Expire, CloseOnly
  <2>4. status' \in [Tickets -> {"none", "pending", "ok", "failed"}]
        /\ age' \in [Tickets -> {"fresh", "stale", "expired"}]
    BY <1>3 DEF AsyncTypeOK, OrderMoves, CancelTx, ReleaseOnCancel, Return, CloserDies, GrowsOld, Expire, CloseOnly,
       ticketVars
  <2>5. closer' \in [Tickets -> {"idle", "release", "return", "done", "lost"}]
    BY <1>3 DEF AsyncTypeOK, OrderMoves, CancelTx, ReleaseOnCancel, Return, CloserDies, GrowsOld, Expire
  <2> QED
    BY <2>1, <2>2, <2>3, <2>4, <2>5 DEF AsyncTypeOK
<1>4. ASSUME NEW w \in Workers, WorkerMoves(w)
      PROVE  AsyncTypeOK'
  <2>1. UNCHANGED <<age, enqueuer, closer, faults>>
    BY <1>4 DEF WorkerMoves, Deliver, Redelivered, Lookup, InsertOrder, InsertFails, Recheck, Unmark,
       ReleaseOnAbort, Settle, Abort, PutResult, WorkOnly
  <2>2. available' \in Nat /\ reserved' \in Nat
    <3>1. CASE UNCHANGED bucketVars
      BY <3>1 DEF AsyncTypeOK, bucketVars
    <3>2. CASE Release
      BY <3>2, ReleaseType DEF AsyncTypeOK
    <3> QED
      BY <1>4, <3>1, <3>2 DEF WorkerMoves, Deliver, Redelivered, Lookup, InsertOrder, InsertFails, Recheck, Unmark,
         ReleaseOnAbort, Settle, Abort, PutResult, Logged
  <2>3. order' \in [Tickets -> {"none", "WaitPay", "Closed"}]
    BY <1>4 DEF AsyncTypeOK, WorkerMoves, Deliver, Redelivered, Lookup, InsertOrder, InsertFails, Recheck, Unmark,
       ReleaseOnAbort, Settle, Abort, PutResult
  <2>4. marks' \subseteq Tickets
    BY <1>4 DEF AsyncTypeOK, WorkerMoves, Deliver, Redelivered, Lookup, InsertOrder, InsertFails, Recheck, Unmark,
       ReleaseOnAbort, Settle, Abort, PutResult, Logged
  <2>5. queue' \subseteq Tickets
    <3>1. CASE Redelivered(w)
      BY <3>1, BusyType DEF Redelivered, AsyncTypeOK
    <3> QED
      BY <1>4, <3>1 DEF AsyncTypeOK, WorkerMoves, Deliver, Lookup, InsertOrder, InsertFails, Recheck, Unmark,
         ReleaseOnAbort, Settle, Abort, PutResult
  <2>6. status' \in [Tickets -> {"none", "pending", "ok", "failed"}]
    <3>1. CASE PutResult(w)
      BY <3>1 DEF PutResult, AsyncTypeOK, Logged
    <3> QED
      BY <1>4, <3>1 DEF AsyncTypeOK, WorkerMoves, Deliver, Redelivered, Lookup, InsertOrder, InsertFails, Recheck,
         Unmark, ReleaseOnAbort, Settle, Abort
  <2>7. worker' \in [Workers -> Delivery \cup {IdleWorker}]
    <3>1. ASSUME NEW s \in WorkerStates, Busy(w), Goes(w, s) PROVE worker' \in [Workers -> Delivery \cup {IdleWorker}]
      BY <3>1, BusyType DEF Goes, AsyncTypeOK, Delivery
    <3>2. CASE Ends(w)
      BY <3>2 DEF Ends, AsyncTypeOK
    <3>3. CASE Deliver(w)
      <4>1. PICK t \in queue : worker' = [worker EXCEPT ![w] = [at |-> "lookup", ticket |-> t,
                                                               holds |-> TRUE, cause |-> NoCause]]
        BY <3>3 DEF Deliver
      <4>2. [at |-> "lookup", ticket |-> t, holds |-> TRUE, cause |-> NoCause] \in Delivery
        BY DEF AsyncTypeOK, Delivery, WorkerStates
      <4> QED BY <4>1, <4>2 DEF AsyncTypeOK
    <3>4. CASE Redelivered(w)
      <4>1. worker[w] \in Delivery
        BY <3>4, BusyType DEF Redelivered
      <4>2. [worker[w] EXCEPT !.holds = FALSE] \in Delivery
        BY <4>1 DEF Delivery
      <4>3. \/ worker' = [worker EXCEPT ![w] = [worker[w] EXCEPT !.holds = FALSE]]
            \/ worker' = [worker EXCEPT ![w] = IdleWorker]
        BY <3>4 DEF Redelivered
      <4> QED BY <4>2, <4>3 DEF AsyncTypeOK
    <3>5. ASSUME NEW cause \in Causes \cup {NoCause}, InsertFails(w, cause)
          PROVE  worker' \in [Workers -> Delivery \cup {IdleWorker}]
      <4>1. worker[w] \in Delivery
        BY <3>5, BusyAt DEF InsertFails, At, WorkerStates
      <4>2. [worker[w] EXCEPT !.at = "recheck", !.cause = cause] \in Delivery
        BY <4>1 DEF Delivery, WorkerStates
      <4>3. worker' = [worker EXCEPT ![w] = [worker[w] EXCEPT !.at = "recheck", !.cause = cause]]
        BY <3>5, <4>1 DEF InsertFails, AsyncTypeOK
      <4> QED BY <4>2, <4>3 DEF AsyncTypeOK
    <3>6. ASSUME worker[w].at \in WorkerStates, \E s \in WorkerStates : Goes(w, s)
          PROVE  worker' \in [Workers -> Delivery \cup {IdleWorker}]
      BY <3>1, <3>6, BusyAt
    <3>7. CASE Lookup(w) \/ InsertOrder(w) \/ Recheck(w)
      BY <3>2, <3>6, <3>7 DEF Lookup, InsertOrder, Recheck, At, WorkerStates
    <3>8. CASE Unmark(w) \/ ReleaseOnAbort(w) \/ Settle(w) \/ Abort(w)
      BY <3>6, <3>8 DEF Unmark, ReleaseOnAbort, Settle, Abort, At, WorkerStates
    <3> QED
      BY <1>4, <3>2, <3>3, <3>4, <3>5, <3>7, <3>8 DEF WorkerMoves, PutResult
  <2> QED
    BY <2>1, <2>2, <2>3, <2>4, <2>5, <2>6, <2>7 DEF AsyncTypeOK
<1> QED
  BY <1>1, <1>2, <1>3, <1>4 DEF AsyncNext

-----------------------------------------------------------------------------
(* Where a ticket is *)

On(w, t) == Busy(w) /\ worker[w].ticket = t

\* A task that is handled once is in one place: with its request, in the
\* queue, with one delivery, or an order.
Course(t) ==
  /\ t \in queue => enqueuer[t] = "done" /\ order[t] = "none" /\ \A w \in Workers : ~On(w, t)
  /\ \A w \in Workers : On(w, t) =>
       /\ enqueuer[t] = "done"
       /\ \A x \in Workers : On(x, t) => x = w
       /\ worker[w].at \in {"lookup", "insert", "release", "unmarkAbort", "abort", "failed"} => order[t] = "none"
       /\ worker[w].at \in {"unmark", "settle", "ok"} => order[t] # "none"
  /\ order[t] # "none" => enqueuer[t] = "done" /\ t \notin queue
  /\ closer[t] # "idle" => order[t] = "Closed"

Courses == HandledOnce => \A t \in Tickets : Course(t)

\* A delivery goes on to stage s; or it is over.
Passes(w, s) ==
  /\ Busy(w) /\ Busy(w)' /\ worker'[w].at = s /\ worker'[w].ticket = worker[w].ticket
  /\ \A x \in Workers \ {w} : worker'[x] = worker[x]

Over(w) ==
  /\ Busy(w) /\ ~Busy(w)'
  /\ \A x \in Workers \ {w} : worker'[x] = worker[x]

LEMMA GoesPasses ==
  ASSUME AsyncTypeOK, NEW w \in Workers, worker[w].at \in WorkerStates, NEW s \in WorkerStates, Goes(w, s)
  PROVE  Passes(w, s)
<1>1. worker[w] \in Delivery /\ Busy(w)
  BY BusyAt
<1>2. worker' = [worker EXCEPT ![w] = [worker[w] EXCEPT !.at = s]]
  BY <1>1 DEF Goes, AsyncTypeOK
<1>3. worker'[w] = [worker[w] EXCEPT !.at = s] /\ \A x \in Workers \ {w} : worker'[x] = worker[x]
  BY <1>2 DEF AsyncTypeOK
<1>4. worker'[w].at = s /\ worker'[w].ticket = worker[w].ticket
  BY <1>1, <1>3 DEF Delivery
<1> QED
  BY <1>1, <1>3, <1>4 DEF Passes, Busy, IdleWorker, WorkerStates

LEMMA EndsOver ==
  ASSUME AsyncTypeOK, NEW w \in Workers, Busy(w), Ends(w)
  PROVE  Over(w)
BY DEF Ends, Over, Busy, AsyncTypeOK

\* The stages of a delivery that is not taken from the queue nor taken back.
LEMMA Stages ==
  ASSUME AsyncTypeOK, NEW w \in Workers, WorkerMoves(w), ~Deliver(w), ~Redelivered(w)
  PROVE  /\ UNCHANGED queue /\ Busy(w)
         /\ \/ Over(w) /\ UNCHANGED order
            \/ /\ UNCHANGED order /\ order[worker[w].ticket] # "none"
               /\ \/ At(w, "lookup") /\ Passes(w, "unmark")
                  \/ At(w, "recheck") /\ Passes(w, "unmark")
            \/ /\ UNCHANGED order /\ order[worker[w].ticket] = "none"
               /\ \/ At(w, "lookup") /\ age[worker[w].ticket] = "fresh" /\ Passes(w, "insert")
                  \/ At(w, "lookup") /\ Passes(w, "release")
                  \/ At(w, "recheck") /\ Passes(w, "release")
            \/ /\ At(w, "insert") /\ order[worker[w].ticket] = "none"
               /\ order' = [order EXCEPT ![worker[w].ticket] = "WaitPay"]
               /\ Passes(w, "unmark") \/ Passes(w, "recheck")
            \/ UNCHANGED order /\ At(w, "insert") /\ Passes(w, "recheck")
            \/ UNCHANGED order /\ At(w, "unmark") /\ Passes(w, "settle")
            \/ UNCHANGED order /\ At(w, "unmarkAbort") /\ Passes(w, "abort")
            \/ UNCHANGED order /\ At(w, "release") /\ Passes(w, "unmarkAbort")
            \/ UNCHANGED order /\ At(w, "settle") /\ Passes(w, "ok")
            \/ UNCHANGED order /\ At(w, "abort") /\ Passes(w, "failed")
<1>1. ASSUME worker[w].at \in WorkerStates PROVE Busy(w) /\ \A s \in WorkerStates : Goes(w, s) => Passes(w, s)
  BY <1>1, BusyAt, GoesPasses
<1>2. CASE Lookup(w)
  BY <1>1, <1>2, EndsOver DEF Lookup, At, WorkerStates
<1>3. CASE InsertOrder(w)
  BY <1>1, <1>3 DEF InsertOrder, At, WorkerStates
<1>4. ASSUME NEW cause \in Causes \cup {NoCause}, InsertFails(w, cause)
      PROVE  UNCHANGED order /\ At(w, "insert") /\ Passes(w, "recheck") /\ UNCHANGED queue /\ Busy(w)
  <2>1. worker[w] \in Delivery /\ Busy(w)
    BY <1>4, BusyAt DEF InsertFails, At, WorkerStates
  <2>2. worker' = [worker EXCEPT ![w] = [worker[w] EXCEPT !.at = "recheck", !.cause = cause]]
    BY <1>4, <2>1 DEF InsertFails, AsyncTypeOK
  <2>3. worker'[w] = [worker[w] EXCEPT !.at = "recheck", !.cause = cause]
        /\ \A x \in Workers \ {w} : worker'[x] = worker[x]
    BY <2>2 DEF AsyncTypeOK
  <2>4. worker'[w].at = "recheck" /\ worker'[w].ticket = worker[w].ticket
    BY <2>1, <2>3 DEF Delivery
  <2>7. worker'[w] # IdleWorker
    BY <2>4 DEF IdleWorker
  <2>8. \A x \in Workers \ {w} : worker'[x] = worker[x]
    BY <2>3
  <2>5. Passes(w, "recheck")
    BY <2>1, <2>4, <2>7, <2>8 DEF Passes, Busy
  <2>6. At(w, "insert") /\ UNCHANGED order /\ UNCHANGED queue
    BY <1>4 DEF InsertFails
  <2> QED BY <2>1, <2>5, <2>6
<1>5. CASE Recheck(w)
  BY <1>1, <1>5, EndsOver DEF Recheck, At, WorkerStates
<1>6. CASE Unmark(w)
  BY <1>1, <1>6 DEF Unmark, At, WorkerStates
<1>7. CASE ReleaseOnAbort(w) \/ Settle(w) \/ Abort(w)
  BY <1>1, <1>7 DEF ReleaseOnAbort, Settle, Abort, At, WorkerStates
<1>8. CASE PutResult(w)
  BY <1>1, <1>8, EndsOver DEF PutResult, At, WorkerStates
<1> QED
  BY <1>2, <1>3, <1>4, <1>5, <1>6, <1>7, <1>8 DEF WorkerMoves

\* A request that has not come to its end has published nothing.
LEMMA RequestFacts ==
  ASSUME AsyncTypeOK, NEW t \in Tickets, RequestMoves(t)
  PROVE  /\ UNCHANGED <<order, age, worker, closer, faults>>
         /\ enqueuer[t] # "done" /\ enqueuer[t] # "lost" /\ \A u \in Tickets \ {t} : enqueuer'[u] = enqueuer[u]
         /\ \/ UNCHANGED queue
            \/ Publish(t) /\ queue' = queue \cup {t} /\ (enqueuer'[t] = "done" \/ "publish_unknown" \in faults)
<1> USE DEF RequestMoves, Arrive, GrabLost, ReserveStock, MarkInflight, PutPending, Publish,
       UndoRelease, UndoUnmark, PutPublishFailed, EnqueuerDies, ReturnError, EnqueueOnly, EnqueueGoes
<1>1. UNCHANGED <<order, age, worker, closer, faults>>
  OBVIOUS
<1>2. enqueuer[t] # "done" /\ enqueuer[t] # "lost" /\ \A u \in Tickets \ {t} : enqueuer'[u] = enqueuer[u]
  BY DEF AsyncTypeOK
<1>3. UNCHANGED queue \/ Publish(t)
  OBVIOUS
<1>4. Publish(t) => \/ UNCHANGED queue
                    \/ queue' = queue \cup {t} /\ (enqueuer'[t] = "done" \/ "publish_unknown" \in faults)
  BY DEF AsyncTypeOK
<1> QED
  BY <1>1, <1>2, <1>3, <1>4, Zenon

LEMMA OrderFacts ==
  ASSUME AsyncTypeOK, NEW t \in Tickets, OrderMoves(t)
  PROVE  /\ UNCHANGED <<queue, enqueuer, worker, faults>>
         /\ \A u \in Tickets \ {t} : order'[u] = order[u] /\ closer'[u] = closer[u]
         /\ (order'[t] = "none") <=> (order[t] = "none")
         /\ order[t] = "Closed" => order'[t] = "Closed"
         /\ closer'[t] = closer[t] \/ order'[t] = "Closed" \/ closer[t] # "idle"
<1> USE DEF OrderMoves, CancelTx, ReleaseOnCancel, Return, CloserDies, GrowsOld, Expire, CloseOnly
<1>1. UNCHANGED <<queue, enqueuer, worker, faults>>
  OBVIOUS
<1>2. \A u \in Tickets \ {t} : order'[u] = order[u] /\ closer'[u] = closer[u]
  BY DEF AsyncTypeOK
<1>3. (order'[t] = "none") <=> (order[t] = "none")
  BY DEF AsyncTypeOK
<1>4. order[t] = "Closed" => order'[t] = "Closed"
  BY DEF AsyncTypeOK
<1>5. closer'[t] = closer[t] \/ order'[t] = "Closed" \/ closer[t] # "idle"
  BY DEF AsyncTypeOK
<1> QED
  BY <1>1, <1>2, <1>3, <1>4, <1>5

\* A delivery goes on and its ticket keeps to its course.
LEMMA CoursePasses ==
  ASSUME AsyncTypeOK, NEW w \in Workers, Courses, HandledOnce, NEW t, t = worker[w].ticket, t \in Tickets,
         Over(w) \/ \E s : /\ Passes(w, s)
                           /\ s \in {"lookup", "insert", "release", "unmarkAbort", "abort", "failed"}
                                => order'[t] = "none"
                           /\ s \in {"unmark", "settle", "ok"} => order'[t] # "none",
         \A u \in Tickets \ {t} : order'[u] = order[u],
         order'[t] = order[t] \/ order[t] = "none",
         UNCHANGED <<queue, enqueuer, closer>>
  PROVE  \A u \in Tickets : Course(u)'
<1>1. \A u \in Tickets : Course(u)
  BY DEF Courses
<1>2. \A x \in Workers \ {w} : worker'[x] = worker[x] /\ (Busy(x)' <=> Busy(x))
  BY DEF Passes, Over, Busy
<1>3. Busy(w) /\ On(w, t) /\ (Busy(w)' => worker'[w].ticket = t)
  BY DEF Passes, Over, On
<1>4. ASSUME NEW u \in Tickets, u # t PROVE Course(u)'
  <2>1. \A x \in Workers : (On(x, u)' <=> On(x, u)) /\ (On(x, u) => worker'[x].at = worker[x].at)
    BY <1>2, <1>3, <1>4 DEF On
  <2>2. order'[u] = order[u]
    BY <1>4
  <2> QED BY <1>1, <2>1, <2>2 DEF Course
<1>5. Course(t)'
  <2>1. \A x \in Workers : On(x, t)' => x = w
    BY <1>1, <1>2, <1>3 DEF On, Course
  <2>2. enqueuer[t] = "done" /\ t \notin queue
    BY <1>1, <1>3 DEF Course
  <2>3. On(w, t)' => /\ worker'[w].at \in {"lookup", "insert", "release", "unmarkAbort", "abort", "failed"}
                                => order'[t] = "none"
                     /\ worker'[w].at \in {"unmark", "settle", "ok"} => order'[t] # "none"
    BY DEF Passes, Over, On
  <2>4. closer[t] # "idle" => order'[t] = "Closed"
    BY <1>1 DEF Course
  <2> QED BY <2>1, <2>2, <2>3, <2>4 DEF Course
<1> QED
  BY <1>4, <1>5

LEMMA CoursesStep == AsyncTypeOK /\ Courses /\ [AsyncNext]_vars => Courses'
<1> SUFFICES ASSUME AsyncTypeOK, Courses, [AsyncNext]_vars PROVE Courses'
  OBVIOUS
<1>1. CASE UNCHANGED vars
  BY <1>1 DEF Courses, Course, On, Busy, vars, HandledOnce
<1>2. ASSUME NEW t \in Tickets, RequestMoves(t), HandledOnce
      PROVE  \A u \in Tickets : Course(u)'
  <2>1. \A u \in Tickets : Course(u)
    BY <1>2 DEF Courses
  <2>2. \A x \in Workers, u \in Tickets : On(x, u)' <=> On(x, u)
    BY <1>2, RequestFacts DEF On, Busy
  <2>3. order[t] = "none" /\ t \notin queue /\ closer[t] = "idle" /\ \A w \in Workers : ~On(w, t)
    BY <1>2, <2>1, RequestFacts DEF Course
  <2>4. ASSUME NEW u \in Tickets, u # t PROVE Course(u)'
    <3>1. enqueuer'[u] = enqueuer[u] /\ (u \in queue' <=> u \in queue)
      BY <1>2, <2>4, RequestFacts
    <3> QED BY <1>2, <2>1, <2>2, <3>1, RequestFacts DEF Course
  <2>5. Course(t)'
    <3>1. t \in queue' => enqueuer'[t] = "done"
      BY <1>2, <2>3, RequestFacts DEF HandledOnce
    <3> QED BY <1>2, <2>2, <2>3, <3>1, RequestFacts DEF Course
  <2> QED BY <2>4, <2>5
<1>3. ASSUME NEW t \in Tickets, OrderMoves(t), HandledOnce
      PROVE  \A u \in Tickets : Course(u)'
  <2>1. \A u \in Tickets : Course(u)
    BY <1>3 DEF Courses
  <2>2. \A x \in Workers, u \in Tickets : On(x, u)' <=> On(x, u)
    BY <1>3, OrderFacts DEF On, Busy
  <2>3. \A u \in Tickets : (order'[u] = "none" <=> order[u] = "none")
                           /\ (closer'[u] # "idle" => order'[u] = "Closed")
    BY <1>3, <2>1, OrderFacts DEF Course
  <2> QED BY <1>3, <2>1, <2>2, <2>3, OrderFacts DEF Course
<1>4. ASSUME NEW w \in Workers, WorkerMoves(w), HandledOnce
      PROVE  \A u \in Tickets : Course(u)'
  <2>1. \A u \in Tickets : Course(u)
    BY <1>4 DEF Courses
  <2>2. UNCHANGED <<enqueuer, closer>>
    BY <1>4 DEF WorkerMoves, Deliver, Redelivered, Lookup, InsertOrder, InsertFails, Recheck, Unmark,
       ReleaseOnAbort, Settle, Abort, PutResult, WorkOnly
  <2>3. ~Redelivered(w)
    BY <1>4 DEF Redelivered, HandledOnce
  <2>4. CASE Deliver(w)
    <3>1. PICK t \in queue : /\ queue' = queue \ {t}
                             /\ worker' = [worker EXCEPT ![w] = [at |-> "lookup", ticket |-> t,
                                                                holds |-> TRUE, cause |-> NoCause]]
      BY <2>4 DEF Deliver
    <3>2. t \in Tickets /\ ~Busy(w) /\ UNCHANGED order
      BY <2>4 DEF Deliver, AsyncTypeOK
    <3>3. /\ worker'[w].at = "lookup" /\ worker'[w].ticket = t /\ Busy(w)'
          /\ \A x \in Workers \ {w} : worker'[x] = worker[x]
      BY <3>1 DEF AsyncTypeOK, Busy, IdleWorker
    <3>4. \A x \in Workers \ {w}, u \in Tickets : (On(x, u)' <=> On(x, u)) /\ worker'[x].at = worker[x].at
      BY <3>3 DEF On, Busy
    <3>5. \A u \in Tickets : ~On(w, u) /\ (On(w, u)' <=> u = t)
      BY <3>2, <3>3 DEF On
    <3>6. ASSUME NEW u \in Tickets, u # t PROVE Course(u)'
      <4>1. \A x \in Workers : (On(x, u)' <=> On(x, u)) /\ (On(x, u) => worker'[x].at = worker[x].at)
        BY <3>4, <3>5, <3>6
      <4>2. u \in queue' <=> u \in queue
        BY <3>1, <3>6
      <4> QED BY <2>1, <2>2, <3>2, <4>1, <4>2 DEF Course
    <3>7. Course(t)'
      <4>1. enqueuer[t] = "done" /\ order[t] = "none" /\ (\A x \in Workers : ~On(x, t)) /\ closer[t] = "idle"
        BY <2>1, <3>1, <3>2 DEF Course
      <4> QED BY <2>2, <3>1, <3>2, <3>3, <3>4, <4>1 DEF Course
    <3> QED BY <3>6, <3>7
  <2>5. CASE ~Deliver(w)
    <3>1. PICK t : t = worker[w].ticket
      OBVIOUS
    <3>2. t \in Tickets /\ On(w, t) /\ Course(t) /\ UNCHANGED queue
      BY <1>4, <2>1, <2>3, <2>5, <3>1, Stages, BusyType DEF On
    <3>3. (\A u \in Tickets \ {t} : order'[u] = order[u]) /\ (order'[t] = order[t] \/ order[t] = "none")
      BY <1>4, <2>3, <2>5, <3>1, <3>2, Stages DEF AsyncTypeOK
    <3>4. \/ Over(w)
          \/ \E s : /\ Passes(w, s)
                    /\ s \in {"lookup", "insert", "release", "unmarkAbort", "abort", "failed"} => order'[t] = "none"
                    /\ s \in {"unmark", "settle", "ok"} => order'[t] # "none"
      BY <1>4, <2>3, <2>5, <3>1, <3>2, Stages DEF AsyncTypeOK, Course, At
    <3> QED BY <1>4, <2>2, <3>1, <3>2, <3>3, <3>4, CoursePasses
  <2> QED BY <2>4, <2>5
<1>5. UNCHANGED faults
  BY RequestFacts, OrderFacts DEF AsyncNext, vars, WorkerMoves, Deliver, Redelivered, Lookup, InsertOrder,
     InsertFails, Recheck, Unmark, ReleaseOnAbort, Settle, Abort, PutResult, WorkOnly
<1> QED
  BY <1>1, <1>2, <1>3, <1>4, <1>5 DEF AsyncNext, Courses, HandledOnce

-----------------------------------------------------------------------------
(* Who owns a piece of reserved *)

Waiting(t) == t \in queue \/ \E w \in Workers : On(w, t) /\ worker[w].at \in {"lookup", "insert", "recheck", "release"}

\* A piece taken for a ticket and not given back: by its request, by what the
\* queue and the deliveries carry of it, by its order and by the one who
\* closed the order.
Owns(t) ==
  \/ enqueuer[t] \in {"mark", "put", "publish", "undo", "undoPublish"}
  \/ order[t] = "none" /\ Waiting(t)
  \/ order[t] = "WaitPay"
  \/ closer[t] = "release"

Owners == {t \in Tickets : Owns(t)}

PiecesCovered == HandledOnce => Cardinality(Owners) <= reserved

\* An owner gives its piece back, or keeps it; nobody else becomes one.
LEMMA OwnersStep ==
  ASSUME AsyncTypeOK, PiecesCovered, HandledOnce,
         \/ Owners' \subseteq Owners /\ reserved' = reserved
         \/ \E t \in Tickets : Owners' \subseteq Owners \cup {t} /\ reserved' = reserved + 1
         \/ \E t \in Owners : Owners' \subseteq Owners \ {t} /\ (Release \/ reserved' = reserved)
  PROVE  Cardinality(Owners') <= reserved'
<1>1. Owners \in SUBSET Tickets /\ Owners' \in SUBSET Tickets
  BY DEF Owners
<1>2. reserved \in Nat /\ Cardinality(Owners) \in Nat /\ Cardinality(Owners') \in Nat
      /\ Cardinality(Owners) <= reserved
  BY <1>1, TicketSets DEF AsyncTypeOK, PiecesCovered
<1>3. CASE Owners' \subseteq Owners /\ reserved' = reserved
  BY <1>1, <1>2, <1>3, CountFewer
<1>4. ASSUME NEW t \in Tickets, Owners' \subseteq Owners \cup {t}, reserved' = reserved + 1
      PROVE  Cardinality(Owners') <= reserved'
  <2>1. Owners \cup {t} \in SUBSET Tickets /\ Cardinality(Owners \cup {t}) \in Nat
    BY <1>1, TicketSets
  <2>2. Cardinality(Owners') <= Cardinality(Owners \cup {t})
    BY <1>4, <2>1, CountFewer
  <2>3. Cardinality(Owners \cup {t}) <= Cardinality(Owners) + 1
    <3>1. CASE t \in Owners
      <4>1. Owners \cup {t} = Owners
        BY <3>1
      <4> QED BY <1>2, <4>1
    <3>2. CASE t \notin Owners
      BY <1>1, <1>2, <3>2, CountAdd
    <3> QED BY <3>1, <3>2
  <2> QED BY <1>2, <1>4, <2>1, <2>2, <2>3
<1>5. ASSUME NEW t \in Owners, Owners' \subseteq Owners \ {t}, Release \/ reserved' = reserved
      PROVE  Cardinality(Owners') <= reserved'
  <2>1. Cardinality(Owners \ {t}) = Cardinality(Owners) - 1 /\ Cardinality(Owners) >= 1
    BY <1>1, CountRemove
  <2>2. Owners \ {t} \in SUBSET Tickets /\ Cardinality(Owners') <= Cardinality(Owners \ {t})
    BY <1>1, <1>5, CountFewer
  <2>3. reserved' = reserved - 1 \/ reserved' = reserved
    BY <1>2, <1>5, <2>1 DEF Release
  <2> QED BY <1>2, <2>1, <2>2, <2>3
<1> QED
  BY <1>3, <1>4, <1>5

\* How a step changes the owners: all those but t stay what they are.
LEMMA OwnersOf ==
  ASSUME NEW t, \A u \in Tickets : u # t => (Owns(u)' => Owns(u))
  PROVE  /\ Owners' \subseteq Owners \cup {t}
         /\ (t \in Tickets => (Owns(t)' => Owns(t))) => Owners' \subseteq Owners
         /\ t \in Tickets /\ ~Owns(t)' => Owners' \subseteq Owners \ {t}
BY DEF Owners

LEMMA CoveredStep == AsyncTypeOK /\ Courses /\ PiecesCovered /\ [AsyncNext]_vars => PiecesCovered'
<1> SUFFICES ASSUME AsyncTypeOK, Courses, PiecesCovered, [AsyncNext]_vars PROVE PiecesCovered'
  OBVIOUS
<1>1. UNCHANGED faults
  BY RequestFacts, OrderFacts DEF AsyncNext, vars, WorkerMoves, Deliver, Redelivered, Lookup, InsertOrder,
     InsertFails, Recheck, Unmark, ReleaseOnAbort, Settle, Abort, PutResult, WorkOnly
<1> SUFFICES ASSUME HandledOnce PROVE Cardinality(Owners') <= reserved'
  BY <1>1 DEF PiecesCovered, HandledOnce
<1> DEFINE Step == \/ Owners' \subseteq Owners /\ reserved' = reserved
                   \/ \E t \in Tickets : Owners' \subseteq Owners \cup {t} /\ reserved' = reserved + 1
                   \/ \E t \in Owners : Owners' \subseteq Owners \ {t} /\ (Release \/ reserved' = reserved)
<1> SUFFICES Step
  BY OwnersStep
<1>0. \A u \in Tickets : Course(u)
  BY DEF Courses
<1>2. CASE UNCHANGED vars
  BY <1>2 DEF Owners, Owns, Waiting, On, Busy, vars, bucketVars
<1>3. ASSUME NEW t \in Tickets, RequestMoves(t)
      PROVE  Step
  <2>1. \A x \in Workers, u \in Tickets : (On(x, u)' <=> On(x, u)) /\ worker'[x] = worker[x]
    BY <1>3, RequestFacts DEF On, Busy
  <2>2. ASSUME NEW u \in Tickets, u # t PROVE Owns(u)' => Owns(u)
    <3>1. u \in queue' <=> u \in queue
      BY <1>3, <2>2, RequestFacts
    <3> QED BY <1>3, <2>1, <2>2, <3>1, RequestFacts DEF Owns, Waiting
  <2>3. order'[t] = "none" /\ closer'[t] = "idle" /\ ~Waiting(t) /\ t \notin queue /\ (Waiting(t)' <=> t \in queue')
    BY <1>0, <1>3, <2>1, RequestFacts DEF Course, Waiting
  <2>4. CASE ReserveStock(t)
    <3>1. CASE reserved' = reserved
      <4>0. enqueuer'[t] = "refused" /\ UNCHANGED queue
        BY <2>4, <3>1 DEF ReserveStock, EnqueueGoes, AsyncTypeOK
      <4>1. ~Owns(t)'
        BY <2>3, <4>0 DEF Owns
      <4> QED BY <2>2, <3>1, <4>1, OwnersOf
    <3>2. CASE reserved' # reserved
      <4>1. reserved' = reserved + 1
        BY <2>4, <3>2 DEF ReserveStock, bucketVars
      <4> QED BY <2>2, <4>1, OwnersOf
    <3> QED BY <3>1, <3>2
  <2>5. CASE UndoRelease(t)
    <3>1. Owns(t) /\ ~Owns(t)'
      <4>1. enqueuer[t] \in {"undo", "undoPublish"} /\ enqueuer'[t] \in {"unmark", "unmarkPublish"} /\ UNCHANGED queue
        BY <2>5 DEF UndoRelease, EnqueueGoes, AsyncTypeOK
      <4> QED BY <2>3, <4>1 DEF Owns
    <3>2. Release \/ reserved' = reserved
      BY <2>5 DEF UndoRelease, Logged, bucketVars
    <3> QED BY <2>2, <3>1, <3>2, OwnersOf DEF Owners
  <2>6. CASE ~ReserveStock(t) /\ ~UndoRelease(t)
    <3>1. reserved' = reserved
      BY <1>3, <2>6 DEF RequestMoves, Arrive, GrabLost, MarkInflight, PutPending, Publish,
         UndoUnmark, PutPublishFailed, EnqueuerDies, ReturnError, bucketVars
    <3>2. t \in queue' => enqueuer[t] = "publish"
      BY <1>0, <1>3, RequestFacts DEF Course, Publish, EnqueueGoes
    <3>3. enqueuer'[t] \in {"mark", "put", "publish", "undo", "undoPublish"} =>
            enqueuer[t] \in {"mark", "put", "publish", "undo", "undoPublish"}
      BY <1>3, <2>6 DEF AsyncTypeOK, RequestMoves, Arrive, GrabLost, MarkInflight, PutPending, Publish,
         UndoUnmark, PutPublishFailed, EnqueuerDies, ReturnError, EnqueueGoes
    <3>4. Owns(t)' => Owns(t)
      BY <1>3, <2>3, <3>2, <3>3, RequestFacts DEF Owns
    <3> QED BY <2>2, <3>1, <3>4, OwnersOf
  <2> QED BY <2>4, <2>5, <2>6
<1>4. ASSUME NEW t \in Tickets, OrderMoves(t)
      PROVE  Step
  <2>1. \A x \in Workers, u \in Tickets : (On(x, u)' <=> On(x, u)) /\ worker'[x] = worker[x]
    BY <1>4, OrderFacts DEF On, Busy
  <2>2. ASSUME NEW u \in Tickets, u # t PROVE Owns(u)' => Owns(u)
    BY <1>4, <2>1, <2>2, OrderFacts DEF Owns, Waiting
  <2>3. CASE ReleaseOnCancel(t)
    <3>1. order'[t] = "Closed" /\ enqueuer'[t] = "done" /\ closer'[t] = "return" /\ Owns(t)
      BY <1>0, <1>4, <2>3, OrderFacts DEF ReleaseOnCancel, Course, AsyncTypeOK, Owns
    <3>2. ~Owns(t)'
      BY <3>1 DEF Owns
    <3>3. Release \/ reserved' = reserved
      BY <2>3 DEF ReleaseOnCancel, Logged, bucketVars
    <3> QED BY <2>2, <3>1, <3>2, <3>3, OwnersOf DEF Owners
  <2>4. CASE ~ReleaseOnCancel(t)
    <3>1. reserved' = reserved
      BY <1>4, <2>4 DEF OrderMoves, CancelTx, Return, CloserDies, GrowsOld, Expire, bucketVars
    <3>2. closer'[t] = "release" => closer[t] = "release" \/ order[t] = "WaitPay"
      BY <1>4, <2>4 DEF OrderMoves, CancelTx, Return, CloserDies, GrowsOld, Expire, AsyncTypeOK
    <3>3. order'[t] = "WaitPay" => order[t] = "WaitPay"
      BY <1>4, <2>4 DEF OrderMoves, CancelTx, Return, CloserDies, GrowsOld, Expire, AsyncTypeOK
    <3>4. Waiting(t)' <=> Waiting(t)
      BY <1>4, <2>1, OrderFacts DEF Waiting
    <3>5. Owns(t)' => Owns(t)
      BY <1>4, <3>2, <3>3, <3>4, OrderFacts DEF Owns
    <3> QED BY <2>2, <3>1, <3>5, OwnersOf
  <2> QED BY <2>3, <2>4
<1>5. ASSUME NEW w \in Workers, WorkerMoves(w)
      PROVE  Step
  <2>1. UNCHANGED <<enqueuer, closer>> /\ ~Redelivered(w)
    BY <1>5 DEF WorkerMoves, Deliver, Redelivered, Lookup, InsertOrder, InsertFails, Recheck, Unmark,
       ReleaseOnAbort, Settle, Abort, PutResult, WorkOnly, HandledOnce
  <2>2. CASE Deliver(w)
    <3>1. PICK t \in queue : /\ queue' = queue \ {t}
                             /\ worker' = [worker EXCEPT ![w] = [at |-> "lookup", ticket |-> t,
                                                                holds |-> TRUE, cause |-> NoCause]]
      BY <2>2 DEF Deliver
    <3>2. t \in Tickets /\ ~Busy(w) /\ UNCHANGED <<order, bucketVars>>
      BY <2>2 DEF Deliver, AsyncTypeOK
    <3>3. worker'[w].ticket = t /\ \A x \in Workers \ {w} : worker'[x] = worker[x]
      BY <3>1 DEF AsyncTypeOK
    <3>4. \A u \in Tickets : Waiting(u)' => Waiting(u)
      BY <3>1, <3>3 DEF Waiting, On, Busy
    <3>5. \A u \in Tickets : Owns(u)' => Owns(u)
      BY <2>1, <3>2, <3>4 DEF Owns
    <3>6. Owners' \subseteq Owners /\ reserved' = reserved
      BY <3>2, <3>5 DEF Owners, bucketVars
    <3> QED BY <3>6
  <2>3. CASE ~Deliver(w)
    <3>1. PICK t : t = worker[w].ticket
      OBVIOUS
    <3>2. t \in Tickets /\ On(w, t) /\ Course(t) /\ UNCHANGED queue
      BY <1>0, <1>5, <2>1, <2>3, <3>1, Stages, BusyType DEF On
    <3>3. \A x \in Workers \ {w} : worker'[x] = worker[x]
      BY <1>5, <2>1, <2>3, Stages DEF Passes, Over
    <3>4. \A u \in Tickets \ {t} : order'[u] = order[u]
      BY <1>5, <2>1, <2>3, <3>1, <3>2, Stages DEF AsyncTypeOK
    <3>5. Busy(w)' => worker'[w].ticket = t
      BY <1>5, <2>1, <2>3, <3>1, Stages DEF Passes, Over
    <3>6. ASSUME NEW u \in Tickets, u # t PROVE Owns(u)' => Owns(u)
      <4>1. \A x \in Workers : On(x, u)' => On(x, u) /\ worker'[x] = worker[x]
        BY <3>3, <3>5, <3>6 DEF On, Busy
      <4> QED BY <2>1, <3>2, <3>4, <3>6, <4>1 DEF Owns, Waiting
    <3>7. \A x \in Workers : On(x, t)' => x = w
      BY <3>2, <3>3 DEF Course, On, Busy
    <3>8. enqueuer[t] = "done" /\ t \notin queue
      BY <3>2 DEF Course
    <3>9. CASE ReleaseOnAbort(w)
      <4>1. At(w, "release") /\ Passes(w, "unmarkAbort") /\ UNCHANGED order
        BY <3>9, GoesPasses DEF ReleaseOnAbort, At, WorkerStates
      <4>2. Owns(t)
        BY <3>1, <3>2, <4>1 DEF Owns, Waiting, At, Course
      <4>3. order'[t] = "none" /\ ~Waiting(t)' /\ closer'[t] = "idle"
        BY <2>1, <3>1, <3>2, <3>7, <4>1 DEF At, Course, Waiting, Passes
      <4>4. ~Owns(t)'
        BY <2>1, <3>8, <4>3 DEF Owns
      <4>5. Release \/ reserved' = reserved
        BY <3>9 DEF ReleaseOnAbort, Logged, bucketVars
      <4> QED BY <3>2, <3>6, <4>2, <4>4, <4>5, OwnersOf DEF Owners
    <3>10. CASE ~ReleaseOnAbort(w)
      <4>1. reserved' = reserved
        BY <1>5, <2>1, <2>3, <3>10 DEF WorkerMoves, Lookup, InsertOrder, InsertFails, Recheck, Unmark,
           Settle, Abort, PutResult, bucketVars
      <4>2. Owns(t)' => Owns(t)
        <5>1. CASE order'[t] = "WaitPay" /\ order[t] # "WaitPay"
          <6>1. At(w, "insert") /\ order[t] = "none"
            BY <1>5, <2>1, <2>3, <3>1, <5>1, Stages DEF AsyncTypeOK
          <6> QED BY <3>1, <3>2, <6>1 DEF Owns, Waiting, At
        <5>2. CASE order'[t] = "none" /\ Waiting(t)'
          <6>1. Busy(w)' /\ worker'[w].at \in {"lookup", "insert", "recheck", "release"}
            BY <3>2, <3>7, <3>8, <5>2 DEF Waiting, On
          <6>2. order[t] = "none" /\ worker[w].at \in {"lookup", "insert", "recheck"}
            BY <1>5, <2>1, <2>3, <3>1, <3>2, <5>2, <6>1, Stages DEF AsyncTypeOK, Passes, Over, At
          <6> QED BY <3>2, <6>2 DEF Owns, Waiting
        <5> QED BY <2>1, <5>1, <5>2 DEF Owns
      <4> QED BY <3>6, <4>1, <4>2, OwnersOf
    <3> QED BY <3>9, <3>10
  <2> QED BY <2>2, <2>3
<1> QED
  BY <1>2, <1>3, <1>4, <1>5 DEF AsyncNext

-----------------------------------------------------------------------------
(* What can still become an order *)

\* Old tickets: their request has ended, and from the TTL on nobody inserts.
AgesOK ==
  \A t \in Tickets :
    /\ ~EnqueueEnded(t) => age[t] = "fresh"
    /\ age[t] = "expired" => \A w \in Workers : On(w, t) => worker[w].at \notin {"insert", "recheck"}

\* A task that may become an order: a fresh one in the queue or just
\* delivered, or one that was fresh when its delivery looked.
Coming(t) ==
  /\ order[t] = "none"
  /\ \/ age[t] = "fresh" /\ t \in queue
     \/ \E w \in Workers : /\ On(w, t)
                           /\ \/ worker[w].at = "lookup" /\ age[t] = "fresh"
                              \/ worker[w].at \in {"insert", "recheck"}

Starting == {"idle", "reserve", "mark", "put", "publish"}

\* A ticket that will never be an order.
GivenUp(t) ==
  /\ order[t] = "none" /\ enqueuer[t] \notin Starting
  /\ \/ age[t] = "expired"
     \/ t \notin queue /\ \A w \in Workers : On(w, t) => worker[w].at \notin {"lookup", "insert", "recheck"}

NeverPublished(t) == order[t] = "none" /\ t \notin queue /\ \A w \in Workers : ~On(w, t)

\* As long as Redis answers: what may become an order has its mark, and a
\* ticket that says pending; a ticket that says it failed, or says nothing
\* after its request, will never be one.
Told == HandledOnce /\ "redis_error" \notin faults

TicketOK(t) ==
  /\ Coming(t) \/ enqueuer[t] \in {"put", "publish"} => t \in marks
  /\ Coming(t) \/ enqueuer[t] = "publish" => status[t] = "pending"
  /\ status[t] = "failed" => GivenUp(t)
  /\ status[t] = "none" => enqueuer[t] \in {"idle", "reserve", "mark", "put"}
                           \/ age[t] = "expired" \/ NeverPublished(t)

TicketsOK == Told => \A t \in Tickets : TicketOK(t)

LEMMA FaultsStay == AsyncTypeOK /\ [AsyncNext]_vars => UNCHANGED faults
BY RequestFacts, OrderFacts DEF AsyncNext, vars, WorkerMoves, Deliver, Redelivered, Lookup, InsertOrder,
   InsertFails, Recheck, Unmark, ReleaseOnAbort, Settle, Abort, PutResult, WorkOnly

\* Where a delivery may insert it was let in by a fresh ticket.
LEMMA WorkerAges ==
  ASSUME AsyncTypeOK, NEW w \in Workers, WorkerMoves(w)
  PROVE  /\ UNCHANGED <<age, enqueuer, closer>>
         /\ \A x \in Workers \ {w} : worker'[x] = worker[x]
         /\ \A t \in Tickets : On(w, t)' /\ worker'[w].at \in {"insert", "recheck"} =>
              /\ On(w, t)
              /\ \/ worker[w].at = "lookup" /\ age[t] = "fresh" /\ order[t] = "none"
                 \/ worker[w].at \in {"insert", "recheck"}
<1>1. UNCHANGED <<age, enqueuer, closer>>
  BY DEF WorkerMoves, Deliver, Redelivered, Lookup, InsertOrder, InsertFails, Recheck, Unmark,
     ReleaseOnAbort, Settle, Abort, PutResult, WorkOnly
<1>2. CASE Deliver(w)
  <2>1. PICK t \in queue : worker' = [worker EXCEPT ![w] = [at |-> "lookup", ticket |-> t,
                                                           holds |-> TRUE, cause |-> NoCause]]
    BY <1>2 DEF Deliver
  <2>2. worker'[w].at = "lookup" /\ \A x \in Workers \ {w} : worker'[x] = worker[x]
    BY <2>1 DEF AsyncTypeOK
  <2> QED BY <1>1, <2>2
<1>3. CASE Redelivered(w)
  <2>1. Busy(w) /\ worker[w] \in Delivery
    BY <1>3, BusyType DEF Redelivered
  <2>2. \/ worker' = [worker EXCEPT ![w] = [worker[w] EXCEPT !.holds = FALSE]]
        \/ worker' = [worker EXCEPT ![w] = IdleWorker]
    BY <1>3 DEF Redelivered
  <2>3. \A x \in Workers \ {w} : worker'[x] = worker[x]
    BY <2>2 DEF AsyncTypeOK
  <2>4. \/ worker'[w].at = worker[w].at /\ worker'[w].ticket = worker[w].ticket
        \/ worker'[w] = IdleWorker
    BY <2>1, <2>2 DEF AsyncTypeOK, Delivery
  <2> QED BY <1>1, <2>1, <2>3, <2>4 DEF On, Busy
<1>4. CASE ~Deliver(w) /\ ~Redelivered(w)
  <2>1. \A x \in Workers \ {w} : worker'[x] = worker[x]
    BY <1>4, Stages DEF Passes, Over
  <2>2. Busy(w) /\ (Busy(w)' => worker'[w].ticket = worker[w].ticket)
    BY <1>4, Stages DEF Passes, Over
  <2>3. Busy(w)' /\ worker'[w].at \in {"insert", "recheck"} =>
          \/ worker[w].at = "lookup" /\ age[worker[w].ticket] = "fresh" /\ order[worker[w].ticket] = "none"
          \/ worker[w].at \in {"insert", "recheck"}
    BY <1>4, Stages DEF Passes, Over, At
  <2> QED BY <1>1, <2>1, <2>2, <2>3 DEF On
<1> QED
  BY <1>2, <1>3, <1>4

LEMMA AgesStep == AsyncTypeOK /\ AgesOK /\ [AsyncNext]_vars => AgesOK'
<1> SUFFICES ASSUME AsyncTypeOK, AgesOK, [AsyncNext]_vars PROVE AgesOK'
  OBVIOUS
<1>1. CASE UNCHANGED vars
  BY <1>1 DEF AgesOK, On, Busy, vars, ticketVars, EnqueueEnded
<1>2. ASSUME NEW t \in Tickets, RequestMoves(t) PROVE AgesOK'
  <2>1. \A u \in Tickets : EnqueueEnded(u) => EnqueueEnded(u)'
    BY <1>2, RequestFacts DEF EnqueueEnded
  <2>2. \A x \in Workers, u \in Tickets : (On(x, u)' <=> On(x, u)) /\ worker'[x] = worker[x]
    BY <1>2, RequestFacts DEF On, Busy
  <2> QED BY <1>2, <2>1, <2>2, RequestFacts DEF AgesOK
<1>3. ASSUME NEW t \in Tickets, OrderMoves(t) PROVE AgesOK'
  <2>1. \A u \in Tickets : EnqueueEnded(u)' <=> EnqueueEnded(u)
    BY <1>3, OrderFacts DEF EnqueueEnded
  <2>2. \A x \in Workers, u \in Tickets : (On(x, u)' <=> On(x, u)) /\ worker'[x] = worker[x]
    BY <1>3, OrderFacts DEF On, Busy
  <2>3. CASE UNCHANGED age
    BY <2>1, <2>2, <2>3 DEF AgesOK
  <2>4. CASE GrowsOld(t)
    <3>1. \A u \in Tickets \ {t} : age'[u] = age[u]
      BY <2>4 DEF GrowsOld, AsyncTypeOK
    <3>2. EnqueueEnded(t)
      BY <2>4 DEF GrowsOld, AgesOK
    <3>3. age'[t] = "expired" => \A w \in Workers : On(w, t) => worker[w].at \notin {"insert", "recheck"}
      BY <2>4 DEF GrowsOld, AsyncTypeOK, On
    <3> QED BY <2>1, <2>2, <3>1, <3>2, <3>3 DEF AgesOK
  <2> QED
    BY <1>3, <2>3, <2>4 DEF OrderMoves, CancelTx, ReleaseOnCancel, Return, CloserDies, Expire, CloseOnly, ticketVars
<1>4. ASSUME NEW w \in Workers, WorkerMoves(w) PROVE AgesOK'
  <2>1. \A x \in Workers \ {w}, u \in Tickets : (On(x, u)' <=> On(x, u)) /\ worker'[x] = worker[x]
    BY <1>4, WorkerAges DEF On, Busy
  <2>2. ASSUME NEW u \in Tickets, age[u] = "expired", On(w, u)', worker'[w].at \in {"insert", "recheck"}
        PROVE  FALSE
    BY <1>4, <2>2, WorkerAges DEF AgesOK
  <2> QED BY <1>4, <2>1, <2>2, WorkerAges DEF AgesOK, EnqueueEnded
<1> QED
  BY <1>1, <1>2, <1>3, <1>4 DEF AsyncNext

\* Nothing else than publishing makes a ticket one that may become an order.
LEMMA ComingStep ==
  ASSUME AsyncTypeOK, Courses, HandledOnce, [AsyncNext]_vars, NEW t \in Tickets, Coming(t)'
  PROVE  Coming(t) \/ enqueuer[t] = "publish"
<1>0. \A u \in Tickets : Course(u)
  BY DEF Courses
<1>1. CASE UNCHANGED vars
  BY <1>1 DEF Coming, On, Busy, vars, ticketVars
<1>2. ASSUME NEW u \in Tickets, RequestMoves(u) PROVE Coming(t) \/ enqueuer[t] = "publish"
  <2>1. \A x \in Workers : (On(x, t)' <=> On(x, t)) /\ worker'[x] = worker[x]
    BY <1>2, RequestFacts DEF On, Busy
  <2>2. t \in queue' => t \in queue \/ enqueuer[t] = "publish"
    BY <1>2, RequestFacts DEF Publish, EnqueueGoes
  <2> QED BY <1>2, <2>1, <2>2, RequestFacts DEF Coming
<1>3. ASSUME NEW u \in Tickets, OrderMoves(u) PROVE Coming(t)
  <2>1. \A x \in Workers : (On(x, t)' <=> On(x, t)) /\ worker'[x] = worker[x]
    BY <1>3, OrderFacts DEF On, Busy
  <2>2. age'[t] = "fresh" => age[t] = "fresh"
    BY <1>3 DEF OrderMoves, CancelTx, ReleaseOnCancel, Return, CloserDies, GrowsOld, Expire, CloseOnly, ticketVars,
       AsyncTypeOK
  <2>3. order[t] = "none"
    BY <1>3, OrderFacts DEF Coming
  <2> QED BY <1>3, <2>1, <2>2, <2>3, OrderFacts DEF Coming
<1>4. ASSUME NEW w \in Workers, WorkerMoves(w) PROVE Coming(t)
  <2>0. ~Redelivered(w)
    BY <1>4 DEF Redelivered, HandledOnce
  <2>1. \A x \in Workers \ {w} : (On(x, t)' <=> On(x, t)) /\ worker'[x] = worker[x]
    BY <1>4, WorkerAges DEF On, Busy
  <2>2. order[t] = "none"
    <3>1. CASE Deliver(w)
      BY <3>1 DEF Deliver, Coming
    <3>2. CASE ~Deliver(w)
      BY <1>4, <2>0, <3>2, Stages, BusyType DEF Coming, AsyncTypeOK
    <3> QED BY <3>1, <3>2
  <2>3. CASE age[t] = "fresh" /\ t \in queue
    BY <2>2, <2>3 DEF Coming
  <2>4. ASSUME NEW x \in Workers \ {w}, On(x, t)',
               worker'[x].at \in {"insert", "recheck"} \/ (worker'[x].at = "lookup" /\ age'[t] = "fresh")
        PROVE  Coming(t)
    <3>1. On(x, t) /\ worker'[x] = worker[x] /\ age' = age
      BY <1>4, <2>1, <2>4, WorkerAges
    <3> QED BY <2>2, <2>4, <3>1 DEF Coming
  <2>5. CASE On(w, t)' /\ worker'[w].at \in {"insert", "recheck"}
    BY <1>4, <2>2, <2>5, WorkerAges DEF Coming
  <2>6. CASE On(w, t)' /\ worker'[w].at = "lookup" /\ age'[t] = "fresh"
    <3>1. CASE Deliver(w)
      <4>1. PICK u \in queue : worker' = [worker EXCEPT ![w] = [at |-> "lookup", ticket |-> u,
                                                               holds |-> TRUE, cause |-> NoCause]]
        BY <3>1 DEF Deliver
      <4>2. t \in queue /\ age[t] = "fresh"
        BY <1>4, <2>6, <4>1, WorkerAges DEF On, AsyncTypeOK
      <4> QED BY <2>2, <4>2 DEF Coming
    <3>2. CASE ~Deliver(w)
      BY <1>4, <2>0, <2>6, <3>2, Stages DEF Passes, Over, On
    <3> QED BY <3>1, <3>2
  <2>7. age'[t] = age[t] /\ queue' \subseteq queue
    BY <1>4, <2>0, Stages, WorkerAges DEF Deliver
  <2> QED BY <2>3, <2>4, <2>5, <2>6, <2>7 DEF Coming
<1> QED
  BY <1>1, <1>2, <1>3, <1>4 DEF AsyncNext

LEMMA GivenUpStays ==
  ASSUME AsyncTypeOK, Courses, HandledOnce, AgesOK, [AsyncNext]_vars, NEW t \in Tickets, GivenUp(t)
  PROVE  GivenUp(t)'
<1>1. CASE UNCHANGED vars
  BY <1>1 DEF GivenUp, On, Busy, vars, ticketVars
<1>2. ASSUME NEW u \in Tickets, RequestMoves(u) PROVE GivenUp(t)'
  <2>1. \A x \in Workers : (On(x, t)' <=> On(x, t)) /\ worker'[x] = worker[x]
    BY <1>2, RequestFacts DEF On, Busy
  <2>2. t \in queue' => t \in queue
    BY <1>2, RequestFacts DEF Publish, EnqueueGoes, GivenUp, Starting
  <2>3. enqueuer'[t] \notin Starting
    BY <1>2 DEF RequestMoves, Arrive, GrabLost, ReserveStock, MarkInflight, PutPending, Publish,
       UndoRelease, UndoUnmark, PutPublishFailed, EnqueuerDies, ReturnError, EnqueueGoes, AsyncTypeOK, GivenUp, Starting
  <2> QED BY <1>2, <2>1, <2>2, <2>3, RequestFacts DEF GivenUp
<1>3. ASSUME NEW u \in Tickets, OrderMoves(u) PROVE GivenUp(t)'
  <2>1. \A x \in Workers : (On(x, t)' <=> On(x, t)) /\ worker'[x] = worker[x]
    BY <1>3, OrderFacts DEF On, Busy
  <2>2. age[t] = "expired" => age'[t] = "expired"
    BY <1>3 DEF OrderMoves, CancelTx, ReleaseOnCancel, Return, CloserDies, GrowsOld, Expire, CloseOnly, ticketVars,
       AsyncTypeOK
  <2>3. order'[t] = "none"
    BY <1>3, OrderFacts DEF GivenUp
  <2> QED BY <1>3, <2>1, <2>2, <2>3, OrderFacts DEF GivenUp
<1>4. ASSUME NEW w \in Workers, WorkerMoves(w) PROVE GivenUp(t)'
  <2>0. ~Redelivered(w)
    BY <1>4 DEF Redelivered, HandledOnce
  <2>1. \A x \in Workers \ {w} : (On(x, t)' <=> On(x, t)) /\ worker'[x] = worker[x]
    BY <1>4, WorkerAges DEF On, Busy
  <2>2. queue' \subseteq queue
    BY <1>4, <2>0, Stages DEF Deliver
  <2>3. ~(On(w, t) /\ worker[w].at = "insert")
    BY DEF GivenUp, AgesOK
  <2>4. order'[t] = "none"
    <3>1. CASE Deliver(w)
      BY <3>1 DEF Deliver, GivenUp
    <3>2. CASE ~Deliver(w)
      <4>1. Busy(w) /\ worker[w].ticket \in Tickets
        BY <1>4, <2>0, <3>2, Stages, BusyType
      <4>2. order'[t] = order[t]
        BY <1>4, <2>0, <2>3, <3>2, <4>1, Stages DEF AsyncTypeOK, On, At
      <4> QED BY <4>2 DEF GivenUp
    <3> QED BY <3>1, <3>2
  <2>5. CASE age[t] = "expired"
    BY <1>4, <2>4, <2>5, WorkerAges DEF GivenUp
  <2>6. CASE age[t] # "expired"
    <3>1. On(w, t)' => worker'[w].at \notin {"lookup", "insert", "recheck"}
      <4>1. CASE Deliver(w)
        <5>1. PICK u \in queue : worker' = [worker EXCEPT ![w] = [at |-> "lookup", ticket |-> u,
                                                                 holds |-> TRUE, cause |-> NoCause]]
          BY <4>1 DEF Deliver
        <5>2. worker'[w].ticket = u /\ t \notin queue
          BY <2>6, <5>1 DEF GivenUp, AsyncTypeOK
        <5> QED BY <5>2 DEF On
      <4>2. CASE ~Deliver(w)
        <5>1. On(w, t)' => On(w, t)
          BY <1>4, <2>0, <4>2, Stages DEF Passes, Over, On
        <5> QED BY <1>4, <2>0, <2>6, <4>2, <5>1, Stages DEF Passes, Over, At, GivenUp, On
      <4> QED BY <4>1, <4>2
    <3>2. \A x \in Workers : On(x, t)' => worker'[x].at \notin {"lookup", "insert", "recheck"}
      BY <2>1, <2>6, <3>1 DEF GivenUp
    <3> QED BY <1>4, <2>2, <2>4, <2>6, <3>2, WorkerAges DEF GivenUp
  <2> QED BY <2>5, <2>6
<1> QED
  BY <1>1, <1>2, <1>3, <1>4 DEF AsyncNext

\* A mark is dropped by a request that failed, at the end of a delivery, or
\* when it is as old as the TTL: no order comes of its ticket after that.
LEMMA MarkDropped ==
  ASSUME AsyncTypeOK, Courses, AgesOK, Told, [AsyncNext]_vars, NEW t \in Tickets, t \in marks, t \notin marks'
  PROVE  ~Coming(t) /\ enqueuer[t] \notin Starting
<1>0. Course(t) /\ HandledOnce
  BY DEF Courses, Told
<1>1. CASE UNCHANGED vars
  BY <1>1 DEF vars
<1>2. ASSUME NEW u \in Tickets, RequestMoves(u)
      PROVE  ~Coming(t) /\ enqueuer[t] \notin Starting
  <2>1. u = t /\ enqueuer[t] \in {"unmark", "unmarkPublish"}
    BY <1>2 DEF RequestMoves, Arrive, GrabLost, ReserveStock, MarkInflight, PutPending, Publish,
       UndoRelease, UndoUnmark, PutPublishFailed, EnqueuerDies, ReturnError, EnqueueGoes, Logged
  <2>2. t \notin queue /\ \A x \in Workers : ~On(x, t)
    BY <1>0, <2>1 DEF Course
  <2> QED BY <2>1, <2>2 DEF Coming, Starting
<1>3. ASSUME NEW u \in Tickets, OrderMoves(u)
      PROVE  ~Coming(t) /\ enqueuer[t] \notin Starting
  <2>1. age[t] = "expired"
    BY <1>3 DEF OrderMoves, CancelTx, ReleaseOnCancel, Return, CloserDies, GrowsOld, Expire, CloseOnly
  <2> QED BY <2>1 DEF AgesOK, Coming, EnqueueEnded, Starting
<1>4. ASSUME NEW w \in Workers, WorkerMoves(w)
      PROVE  ~Coming(t) /\ enqueuer[t] \notin Starting
  <2>1. Unmark(w) /\ worker[w].ticket = t
    BY <1>4 DEF WorkerMoves, Deliver, Redelivered, Lookup, InsertOrder, InsertFails, Recheck, Unmark,
       ReleaseOnAbort, Settle, Abort, PutResult, Logged
  <2>2. On(w, t) /\ worker[w].at \in {"unmark", "unmarkAbort"}
    BY <2>1, BusyAt DEF Unmark, At, WorkerStates, On
  <2>3. enqueuer[t] = "done" /\ t \notin queue /\ \A x \in Workers : On(x, t) => x = w
    BY <1>0, <2>2 DEF Course
  <2> QED BY <2>2, <2>3 DEF Coming, Starting
<1> QED
  BY <1>1, <1>2, <1>3, <1>4 DEF AsyncNext

\* What a ticket comes to say.
LEMMA StatusMoves ==
  ASSUME AsyncTypeOK, Courses, AgesOK, Told, [AsyncNext]_vars, NEW t \in Tickets, status'[t] # status[t]
  PROVE  \/ enqueuer[t] = "put" /\ enqueuer'[t] = "publish" /\ status'[t] = "pending"
         \/ /\ ~Coming(t) /\ enqueuer[t] \notin Starting
            /\ status'[t] = "failed" => GivenUp(t)
            /\ status'[t] = "none" => age'[t] = "expired"
<1>0. Course(t) /\ HandledOnce
  BY DEF Courses, Told
<1> DEFINE Goal == \/ enqueuer[t] = "put" /\ enqueuer'[t] = "publish" /\ status'[t] = "pending"
                   \/ /\ ~Coming(t) /\ enqueuer[t] \notin Starting
                      /\ status'[t] = "failed" => GivenUp(t)
                      /\ status'[t] = "none" => age'[t] = "expired"
<1>1. CASE UNCHANGED vars
  BY <1>1 DEF vars, ticketVars
<1>2. ASSUME NEW u \in Tickets, RequestMoves(u) PROVE Goal
  <2>1. PutPending(u) \/ PutPublishFailed(u)
    BY <1>2 DEF RequestMoves, Arrive, GrabLost, ReserveStock, MarkInflight, PutPending, Publish,
       UndoRelease, UndoUnmark, PutPublishFailed, EnqueuerDies, ReturnError
  <2>2. CASE PutPending(u)
    <3>1. /\ enqueuer[u] = "put" /\ enqueuer' = [enqueuer EXCEPT ![u] = "publish"]
          /\ status' = [status EXCEPT ![u] = "pending"]
      BY <2>2 DEF PutPending, EnqueueGoes, Told
    <3>2. u = t
      BY <3>1 DEF AsyncTypeOK
    <3> QED BY <3>1, <3>2 DEF AsyncTypeOK
  <2>3. CASE PutPublishFailed(u)
    <3>1. enqueuer[u] = "fail" /\ status' = [status EXCEPT ![u] = "failed"]
      BY <2>3 DEF PutPublishFailed, EnqueueGoes, Logged, Told
    <3>2. u = t
      BY <3>1 DEF AsyncTypeOK
    <3>3. t \notin queue /\ order[t] = "none" /\ (\A x \in Workers : ~On(x, t)) /\ status'[t] = "failed"
      BY <1>0, <3>1, <3>2 DEF Course, AsyncTypeOK
    <3> QED BY <3>1, <3>2, <3>3 DEF Coming, Starting, GivenUp
  <2> QED BY <2>1, <2>2, <2>3
<1>3. ASSUME NEW u \in Tickets, OrderMoves(u) PROVE Goal
  <2>1. age[t] = "expired" /\ age' = age /\ status'[t] = "none"
    BY <1>3 DEF OrderMoves, CancelTx, ReleaseOnCancel, Return, CloserDies, GrowsOld, Expire, CloseOnly, ticketVars,
       AsyncTypeOK
  <2> QED BY <2>1 DEF AgesOK, Coming, EnqueueEnded, Starting
<1>4. ASSUME NEW w \in Workers, WorkerMoves(w) PROVE Goal
  <2>1. PutResult(w)
    BY <1>4 DEF WorkerMoves, Deliver, Redelivered, Lookup, InsertOrder, InsertFails, Recheck, Unmark,
       ReleaseOnAbort, Settle, Abort, PutResult, WorkOnly
  <2>2. worker[w].at \in {"ok", "failed"} /\ status' = [status EXCEPT ![worker[w].ticket] = worker[w].at]
    BY <2>1 DEF PutResult, Logged, Told
  <2>3. worker[w].ticket = t /\ On(w, t)
    BY <2>2, BusyAt DEF WorkerStates, On, AsyncTypeOK
  <2>4. status'[t] = worker[w].at
    BY <2>2, <2>3 DEF AsyncTypeOK
  <2>5. enqueuer[t] = "done" /\ t \notin queue /\ \A x \in Workers : On(x, t) => x = w
    BY <1>0, <2>3 DEF Course
  <2>6. worker[w].at = "failed" => order[t] = "none"
    BY <1>0, <2>3 DEF Course
  <2> QED BY <2>2, <2>4, <2>5, <2>6 DEF Coming, Starting, GivenUp
<1> QED
  BY <1>1, <1>2, <1>3, <1>4 DEF AsyncNext

\* Requests move forward.
LEMMA EnqueuerMoves ==
  ASSUME AsyncTypeOK, [AsyncNext]_vars, NEW t \in Tickets
  PROVE  /\ enqueuer'[t] = "publish" => enqueuer[t] = "publish" \/ PutPending(t)
         /\ enqueuer'[t] = "put" => enqueuer[t] = "put" \/ MarkInflight(t)
         /\ enqueuer'[t] = "mark" => enqueuer[t] = "mark" \/ enqueuer[t] = "reserve"
         /\ enqueuer'[t] = "idle" => enqueuer[t] = "idle"
         /\ enqueuer[t] # "idle" => enqueuer'[t] # "idle"
         /\ enqueuer'[t] = "reserve" => enqueuer[t] = "reserve" \/ Arrive(t)
<1>1. CASE UNCHANGED enqueuer
  BY <1>1
<1>2. ASSUME NEW u \in Tickets, RequestMoves(u)
      PROVE  \/ u # t /\ enqueuer'[t] = enqueuer[t]
             \/ u = t /\ \/ EnqueueGoes(t, "idle", "reserve") /\ Arrive(t)
                         \/ EnqueueGoes(t, "reserve", "mark")
                         \/ EnqueueGoes(t, "mark", "put") /\ MarkInflight(t)
                         \/ EnqueueGoes(t, "put", "publish") /\ PutPending(t)
                         \/ \E s \in EnqueuerStates \ {"idle", "reserve", "mark", "put", "publish"} :
                              enqueuer' = [enqueuer EXCEPT ![t] = s]
  <2>1. CASE u # t
    BY <1>2, <2>1, RequestFacts
  <2>2. CASE u = t
    BY <1>2, <2>2 DEF RequestMoves, Arrive, GrabLost, ReserveStock, MarkInflight, PutPending, Publish,
       UndoRelease, UndoUnmark, PutPublishFailed, EnqueuerDies, ReturnError, EnqueueGoes, EnqueuerStates
  <2> QED BY <2>1, <2>2
<1>3. ASSUME NEW u \in Tickets, RequestMoves(u)
      PROVE  /\ enqueuer'[t] = "publish" => enqueuer[t] = "publish" \/ PutPending(t)
             /\ enqueuer'[t] = "put" => enqueuer[t] = "put" \/ MarkInflight(t)
             /\ enqueuer'[t] = "mark" => enqueuer[t] = "mark" \/ enqueuer[t] = "reserve"
             /\ enqueuer'[t] = "idle" => enqueuer[t] = "idle"
             /\ enqueuer[t] # "idle" => enqueuer'[t] # "idle"
             /\ enqueuer'[t] = "reserve" => enqueuer[t] = "reserve" \/ Arrive(t)
  BY <1>2, <1>3 DEF EnqueueGoes, AsyncTypeOK
<1>4. \/ UNCHANGED enqueuer
      \/ \E u \in Tickets : RequestMoves(u)
  BY OrderFacts, WorkerAges DEF AsyncNext, vars
<1> QED
  BY <1>1, <1>3, <1>4

LEMMA NeverPublishedStays ==
  ASSUME AsyncTypeOK, Courses, HandledOnce, [AsyncNext]_vars, NEW t \in Tickets,
         NeverPublished(t), enqueuer[t] # "publish"
  PROVE  NeverPublished(t)'
<1>1. CASE UNCHANGED vars
  BY <1>1 DEF NeverPublished, On, Busy, vars
<1>2. ASSUME NEW u \in Tickets, RequestMoves(u) PROVE NeverPublished(t)'
  <2>1. \A x \in Workers : On(x, t)' <=> On(x, t)
    BY <1>2, RequestFacts DEF On, Busy
  <2>2. t \notin queue'
    BY <1>2, RequestFacts DEF Publish, EnqueueGoes, NeverPublished
  <2> QED BY <1>2, <2>1, <2>2, RequestFacts DEF NeverPublished
<1>3. ASSUME NEW u \in Tickets, OrderMoves(u) PROVE NeverPublished(t)'
  <2>1. \A x \in Workers : On(x, t)' <=> On(x, t)
    BY <1>3, OrderFacts DEF On, Busy
  <2> QED BY <1>3, <2>1, OrderFacts DEF NeverPublished
<1>4. ASSUME NEW w \in Workers, WorkerMoves(w) PROVE NeverPublished(t)'
  <2>1. ~Redelivered(w)
    BY <1>4 DEF Redelivered, HandledOnce
  <2>2. CASE Deliver(w)
    <3>1. PICK u \in queue : /\ queue' = queue \ {u}
                             /\ worker' = [worker EXCEPT ![w] = [at |-> "lookup", ticket |-> u,
                                                                holds |-> TRUE, cause |-> NoCause]]
      BY <2>2 DEF Deliver
    <3>2. u # t /\ worker'[w].ticket = u /\ UNCHANGED order
      BY <2>2, <3>1 DEF Deliver, NeverPublished, AsyncTypeOK
    <3>3. \A x \in Workers : ~On(x, t)'
      BY <1>4, <3>2, WorkerAges DEF On, Busy, NeverPublished
    <3> QED BY <3>1, <3>2, <3>3 DEF NeverPublished
  <2>3. CASE ~Deliver(w)
    <3>1. Busy(w) /\ worker[w].ticket \in Tickets /\ worker[w].ticket # t /\ UNCHANGED queue
      BY <1>4, <2>1, <2>3, Stages, BusyType DEF NeverPublished, On
    <3>2. order'[t] = order[t]
      BY <1>4, <2>1, <2>3, <3>1, Stages DEF AsyncTypeOK
    <3>3. \A x \in Workers : ~On(x, t)'
      BY <1>4, <2>1, <2>3, <3>1, Stages DEF NeverPublished, On, Busy, Passes, Over
    <3> QED BY <3>1, <3>2, <3>3 DEF NeverPublished
  <2> QED BY <2>2, <2>3
<1> QED
  BY <1>1, <1>2, <1>3, <1>4 DEF AsyncNext

LEMMA ExpiredStays ==
  ASSUME AsyncTypeOK, [AsyncNext]_vars, NEW t \in Tickets, age[t] = "expired"
  PROVE  age'[t] = "expired"
<1>1. CASE UNCHANGED age
  BY <1>1
<1>2. ASSUME NEW u \in Tickets, GrowsOld(u) PROVE age'[t] = "expired"
  BY <1>2 DEF GrowsOld, AsyncTypeOK
<1> QED
  BY <1>1, <1>2, RequestFacts, WorkerAges
  DEF AsyncNext, vars, ticketVars, OrderMoves, CancelTx, ReleaseOnCancel, Return, CloserDies, Expire, CloseOnly

LEMMA TicketsStep == AsyncTypeOK /\ Courses /\ AgesOK /\ TicketsOK /\ [AsyncNext]_vars => TicketsOK'
<1> SUFFICES ASSUME AsyncTypeOK, Courses, AgesOK, TicketsOK, [AsyncNext]_vars PROVE TicketsOK'
  OBVIOUS
<1>1. UNCHANGED faults
  BY FaultsStay
<1> SUFFICES ASSUME Told, NEW t \in Tickets PROVE TicketOK(t)'
  BY <1>1 DEF TicketsOK, Told, HandledOnce
<1>2. TicketOK(t) /\ Course(t) /\ HandledOnce
  BY DEF TicketsOK, Courses, Told
<1>3. Coming(t)' => Coming(t) \/ enqueuer[t] = "publish"
  BY <1>2, ComingStep
<1>4. Coming(t)' \/ enqueuer'[t] \in {"put", "publish"} => t \in marks'
  <2>1. CASE MarkInflight(t)
    BY <2>1 DEF MarkInflight, Logged, Told
  <2>2. CASE ~MarkInflight(t)
    <3>1. PutPending(t) => enqueuer[t] = "put"
      BY DEF PutPending, EnqueueGoes
    <3>2. Coming(t)' \/ enqueuer'[t] \in {"put", "publish"} =>
            Coming(t) \/ enqueuer[t] \in {"put", "publish"}
      BY <1>3, <2>2, <3>1, EnqueuerMoves
    <3> QED BY <1>2, <3>2, MarkDropped DEF TicketOK, Starting
  <2> QED BY <2>1, <2>2
<1>5. Coming(t)' \/ enqueuer'[t] = "publish" => status'[t] = "pending"
  <2>1. CASE PutPending(t)
    <3>1. \/ enqueuer[t] = "put" /\ status' = [status EXCEPT ![t] = "pending"]
          \/ enqueuer' = [enqueuer EXCEPT ![t] = "undo"]
      BY <2>1 DEF PutPending, EnqueueGoes
    <3>2. enqueuer[t] = "put" /\ ~Coming(t)
      BY <1>2, <2>1 DEF PutPending, EnqueueGoes, Course, Coming
    <3> QED BY <1>3, <3>1, <3>2 DEF AsyncTypeOK
  <2>2. CASE ~PutPending(t)
    <3>1. Coming(t)' \/ enqueuer'[t] = "publish" => status[t] = "pending" /\ (Coming(t) \/ enqueuer[t] = "publish")
      BY <1>2, <1>3, <2>2, EnqueuerMoves DEF TicketOK
    <3> QED BY <3>1, StatusMoves DEF Starting
  <2> QED BY <2>1, <2>2
<1>6. status'[t] = "failed" => GivenUp(t)'
  <2>1. status'[t] = "failed" => GivenUp(t)
    BY <1>2, StatusMoves DEF TicketOK
  <2> QED BY <1>2, <2>1, GivenUpStays
<1>7. status'[t] = "none" => enqueuer'[t] \in {"idle", "reserve", "mark", "put"}
                             \/ age'[t] = "expired" \/ NeverPublished(t)'
  <2>1. CASE status'[t] = "none" /\ status[t] # "none"
    BY <2>1, StatusMoves
  <2>2. CASE status'[t] = "none" /\ status[t] = "none"
    <3>1. enqueuer[t] # "publish"
      BY <1>2, <2>2 DEF TicketOK
    <3>2. enqueuer[t] \in {"idle", "reserve", "mark", "put"} => NeverPublished(t)
      BY <1>2 DEF Course, NeverPublished
    <3> QED BY <1>2, <2>2, <3>1, <3>2, NeverPublishedStays, ExpiredStays DEF TicketOK
  <2> QED BY <2>1, <2>2
<1> QED
  BY <1>4, <1>5, <1>6, <1>7 DEF TicketOK

-----------------------------------------------------------------------------
(* The theorems about the asynchronous orders *)

AsyncInv == AsyncTypeOK /\ Courses /\ PiecesCovered /\ AgesOK /\ TicketsOK

LEMMA AsyncStart == AsyncInit => AsyncInv
<1> SUFFICES ASSUME AsyncInit PROVE AsyncInv
  OBVIOUS
<1>1. AsyncTypeOK
  BY PiecesAssumption DEF AsyncInit, AsyncTypeOK, EnqueuerStates
<1>2. \A w \in Workers, t \in Tickets : ~On(w, t)
  BY DEF AsyncInit, On, Busy
<1>3. Courses /\ AgesOK /\ TicketsOK
  BY <1>2 DEF AsyncInit, Courses, Course, AgesOK, TicketsOK, TicketOK, Coming, NeverPublished
<1>4. Owners = {}
  BY <1>2 DEF AsyncInit, Owners, Owns, Waiting
<1>5. PiecesCovered
  BY <1>4, FS_EmptySet DEF AsyncInit, PiecesCovered
<1> QED
  BY <1>1, <1>3, <1>5 DEF AsyncInv

LEMMA AsyncStep == AsyncInv /\ [SeckillNext]_allVars => AsyncInv'
BY AsyncPart, AsyncTypeStep, CoursesStep, CoveredStep, AgesStep, TicketsStep DEF AsyncInv

LEMMA AsyncAlways == SeckillSpec => []AsyncInv
<1>1. SeckillInit => AsyncInv
  BY AsyncStart DEF SeckillInit
<1> QED
  BY <1>1, AsyncStep, PTL DEF SeckillSpec

\* A buyer who waits for an order or has one that is not paid owns a piece of
\* reserved: whatever request, delivery or cancellation fails and is undone,
\* in whatever order, it does not release the piece of another.
THEOREM SeckillTicketsCovered == SeckillSpec => []TicketsCovered
<1>1. AsyncInv => TicketsCovered
  <2> SUFFICES ASSUME AsyncInv, HandledOnce
               PROVE  Cardinality(Unpaid \cup {t \in Tickets : Queued(t)}) <= reserved
    BY DEF TicketsCovered
  <2>1. Unpaid \cup {t \in Tickets : Queued(t)} \subseteq Owners
    BY DEF Unpaid, Queued, Owners, Owns, Waiting, On
  <2>2. Owners \in SUBSET Tickets /\ Cardinality(Owners) \in Nat /\ Cardinality(Owners) <= reserved
        /\ reserved \in Nat /\ Cardinality(Unpaid \cup {t \in Tickets : Queued(t)}) \in Nat
    BY <2>1, TicketSets DEF Owners, AsyncInv, PiecesCovered, AsyncTypeOK
  <2>3. Cardinality(Unpaid \cup {t \in Tickets : Queued(t)}) <= Cardinality(Owners)
    BY <2>1, <2>2, CountFewer
  <2> QED BY <2>2, <2>3
<1> QED
  BY <1>1, AsyncAlways, PTL

\* A task that waits in the queue has its in-flight mark, however long it
\* waits: sampleReservationLeak does not take its piece for a leak.
THEOREM SeckillQueuedNotLeaked == SeckillSpec => []QueuedNotLeaked
<1>1. AsyncInv => QueuedNotLeaked
  <2> SUFFICES ASSUME AsyncInv, Told, NEW t \in Tickets, Queued(t) PROVE t \in marks
    BY DEF QueuedNotLeaked, Told
  <2>1. Coming(t)
    BY DEF Queued, Coming, On
  <2> QED BY <2>1 DEF AsyncInv, TicketsOK, TicketOK
<1> QED
  BY <1>1, AsyncAlways, PTL

-----------------------------------------------------------------------------
(* The sale: types, and what the DB counts *)

Snapshots == [stock : Int, users : [Users -> Nat], inflight : SUBSET Tickets, returned : SUBSET Tickets]
Views     == [sold : 0..Num, bought : [Users -> 0..Limit], settled : SUBSET Tickets, closed : SUBSET Tickets]

Viewing   == [at : {"view"}, attempt : 0..Attempts, snap : Snapshots]
Sorting   == [at : {"tickets"}, settled : SUBSET Tickets, flying : SUBSET Tickets, owed : SUBSET Tickets]
Releasing == [at : {"release"}, ticket : Tickets, rest : Sorting]
Repeating == [at : {"again"}, attempt : 1..Attempts]
Fixing    == [at : {"fix"}, snap : Snapshots, view : Views]

RowsTypeOK ==
  /\ sold \in 0..Num /\ bought \in [Users -> 0..Limit]
  /\ deleted \subseteq Tickets /\ erased \in BOOLEAN

KeysTypeOK ==
  /\ live \in BOOLEAN /\ stock \in Int /\ users \in [Users -> Nat]
  /\ inflight \subseteq Tickets /\ returned \subseteq Tickets
  /\ touched \in BOOLEAN

PreheaterOK == preheater = {} \/ \E v \in Views : preheater = {v}

ReconcilerTypeOK ==
  reconciler \in {IdleReconciler} \cup Viewing \cup Sorting \cup Releasing \cup Repeating \cup Fixing

SaleTypeOK == RowsTypeOK /\ KeysTypeOK /\ PreheaterOK /\ ReconcilerTypeOK /\ mishaps \in 0..MaxMishaps

LEMMA ReconcilerAt ==
  ASSUME ReconcilerTypeOK
  PROVE  /\ reconciler.at = "view" => reconciler \in Viewing
         /\ reconciler.at = "tickets" => reconciler \in Sorting
         /\ reconciler.at = "release" => reconciler \in Releasing
         /\ reconciler.at = "again" => reconciler \in Repeating
         /\ reconciler.at = "fix" => reconciler \in Fixing
         /\ reconciler.at \in {"idle", "view", "tickets", "release", "again", "fix"}
<1> USE DEF ReconcilerTypeOK, IdleReconciler
<1>1. \A r \in Viewing : r.at = "view"
  BY DEF Viewing
<1>2. \A r \in Sorting : r.at = "tickets"
  BY DEF Sorting
<1>3. \A r \in Releasing : r.at = "release"
  BY DEF Releasing
<1>4. \A r \in Repeating : r.at = "again"
  BY DEF Repeating
<1>5. \A r \in Fixing : r.at = "fix"
  BY DEF Fixing
<1>6. [at |-> "idle"].at = "idle"
  OBVIOUS
<1> QED
  BY <1>1, <1>2, <1>3, <1>4, <1>5, <1>6

LEMMA UserType == ASSUME NEW t \in Tickets PROVE UserOf[t] \in Users
BY UsersAssumption

LEMMA ScriptTypes ==
  ASSUME KeysTypeOK, NEW t \in Tickets, NEW toStock \in BOOLEAN, NEW toUser \in BOOLEAN,
         \/ UNCHANGED quotaVars
         \/ GrabScript(t) \/ ReleaseScript(t, toStock, toUser) \/ SettleScript(t) \/ ReturnScript(t)
  PROVE  KeysTypeOK'
<1> USE DEF KeysTypeOK
<1>1. CASE UNCHANGED quotaVars
  BY <1>1 DEF quotaVars, quotaKeys
<1>2. CASE GrabScript(t)
  BY <1>2, UserType DEF GrabScript, Touch
<1>3. DecrUser(UserOf[t]) => users' \in [Users -> Nat]
  BY UserType DEF DecrUser
<1>4. CASE ReleaseScript(t, toStock, toUser)
  <2>1. CASE t \notin inflight
    BY <1>1, <1>4, <2>1 DEF ReleaseScript
  <2>2. CASE t \in inflight
    <3>1. inflight' = inflight \ {t} /\ touched' = TRUE /\ UNCHANGED <<live, returned>>
      BY <1>4, <2>2 DEF ReleaseScript, Touch
    <3>2. stock' = stock + 1 \/ stock' = stock
      BY <1>4, <2>2 DEF ReleaseScript
    <3>3. users' \in [Users -> Nat]
      BY <1>3, <1>4, <2>2 DEF ReleaseScript
    <3> QED BY <3>1, <3>2, <3>3
  <2> QED BY <2>1, <2>2
<1>5. CASE SettleScript(t)
  BY <1>5 DEF SettleScript
<1>6. CASE ReturnScript(t)
  <2>1. CASE UNCHANGED quotaVars
    BY <1>1, <2>1
  <2>2. CASE ~UNCHANGED quotaVars
    <3>1. /\ returned' = returned \cup {t} /\ stock' = stock + 1 /\ DecrUser(UserOf[t])
          /\ touched' = TRUE /\ UNCHANGED <<live, inflight>>
      BY <1>6, <2>2 DEF ReturnScript, Touch
    <3> QED BY <1>3, <3>1
  <2> QED BY <2>1, <2>2
<1> QED
  BY <1>1, <1>2, <1>4, <1>5, <1>6

LEMMA ViewType ==
  ASSUME RowsTypeOK, NEW S \in SUBSET Tickets
  PROVE  View(S) \in Views
BY DEF RowsTypeOK, View, Closed, Views

LEMMA SnapshotType == KeysTypeOK => Snapshot \in Snapshots
BY DEF KeysTypeOK, Snapshot, Snapshots

\* What the reconciliation goes on with.
LEMMA ReconcilerStep ==
  ASSUME SaleTypeOK, ReconcileStep \/ ReconcilerStops
  PROVE  ReconcilerTypeOK'
<1> USE DEF SaleTypeOK
<1>1. IdleReconciler \in {IdleReconciler}
  OBVIOUS
<1>2. CASE TakeSnapshot
  <2>1. \A n \in 0..Attempts : [at |-> "view", attempt |-> n, snap |-> Snapshot] \in Viewing
    BY SnapshotType DEF Viewing
  <2>2. 0 \in 0..Attempts /\ 1 \in 0..Attempts
    BY BoundsAssumption
  <2>3. reconciler.at = "again" => reconciler.attempt \in 0..Attempts
    BY ReconcilerAt DEF Repeating
  <2>4. reconciler' \in Viewing
    BY <1>2, <2>1, <2>2, <2>3 DEF TakeSnapshot
  <2> QED BY <2>4 DEF ReconcilerTypeOK
<1>3. CASE ReadView
  <2>1. reconciler.snap \in Snapshots /\ reconciler.attempt \in 0..Attempts
    BY <1>3, ReconcilerAt DEF ReadView, Viewing
  <2>2. PICK snap \in Snapshots : snap = reconciler.snap
    BY <2>1
  <2>3. PICK v \in Views : v = View(reconciler.snap.inflight)
    BY <2>1, ViewType DEF Snapshots
  <2>4. [at |-> "tickets", settled |-> v.settled, flying |-> snap.inflight, owed |-> v.closed \ snap.returned] \in Sorting
    BY DEF Sorting, Views, Snapshots
  <2>5. [at |-> "fix", snap |-> snap, view |-> v] \in Fixing
    BY DEF Fixing
  <2>6. reconciler.attempt < Attempts => [at |-> "again", attempt |-> reconciler.attempt + 1] \in Repeating
    BY <2>1, BoundsAssumption DEF Repeating
  <2>7. \/ reconciler' = [at |-> "tickets", settled |-> v.settled, flying |-> snap.inflight,
                          owed |-> v.closed \ snap.returned]
        \/ reconciler' = [at |-> "fix", snap |-> snap, view |-> v]
        \/ reconciler.attempt < Attempts /\ reconciler' = [at |-> "again", attempt |-> reconciler.attempt + 1]
        \/ reconciler' = IdleReconciler
    BY <1>3, <2>2, <2>3, Zenon DEF ReadView
  <2> QED BY <2>4, <2>5, <2>6, <2>7 DEF ReconcilerTypeOK
<1>4. CASE ReleaseLeaked
  <2>1. reconciler' \in Sorting
    BY <1>4, ReconcilerAt DEF ReleaseLeaked, Releasing
  <2> QED BY <2>1 DEF ReconcilerTypeOK
<1>5. CASE FixDrift
  BY <1>5 DEF FixDrift, ReconcilerTypeOK
<1>6. ASSUME NEW t \in Tickets, CheckTicket(t) PROVE ReconcilerTypeOK'
  <2>1. reconciler \in Sorting
    BY <1>6, ReconcilerAt DEF CheckTicket
  <2>2. PICK rest \in Sorting : rest = [reconciler EXCEPT !.flying = @ \ {t}]
    BY <2>1 DEF Sorting
  <2>3. [at |-> "release", ticket |-> t, rest |-> rest] \in Releasing
    BY DEF Releasing
  <2>4. reconciler' = rest \/ reconciler' = [at |-> "release", ticket |-> t, rest |-> rest]
    BY <1>6, <2>2, Zenon DEF CheckTicket
  <2> QED BY <2>3, <2>4 DEF ReconcilerTypeOK
<1>7. ASSUME NEW t \in Tickets, ReturnMissed(t) PROVE ReconcilerTypeOK'
  <2>1. reconciler \in Sorting
    BY <1>7, ReconcilerAt DEF ReturnMissed
  <2>2. [reconciler EXCEPT !.owed = @ \ {t}] \in Sorting
    BY <2>1 DEF Sorting
  <2> QED BY <1>7, <2>2 DEF ReturnMissed, ReconcilerTypeOK
<1>8. CASE ReconcilerStops
  <2>0. reconciler' \in {IdleReconciler} \cup (IF reconciler.at = "release" THEN {reconciler.rest} ELSE {})
    BY <1>8 DEF ReconcilerStops
  <2>1. reconciler' = IdleReconciler \/ (reconciler.at = "release" /\ reconciler' = reconciler.rest)
    BY <2>0
  <2>2. reconciler.at = "release" => reconciler.rest \in Sorting
    BY ReconcilerAt DEF Releasing
  <2> QED BY <2>1, <2>2 DEF ReconcilerTypeOK
<1> QED
  BY <1>2, <1>3, <1>4, <1>5, <1>6, <1>7, <1>8 DEF ReconcileStep

LEMMA FixTypes ==
  ASSUME SaleTypeOK, FixDrift
  PROVE  KeysTypeOK'
<1>1. reconciler.snap \in Snapshots /\ reconciler.view \in Views
  BY ReconcilerAt DEF SaleTypeOK, FixDrift, Fixing
<1>2. PICK snap \in Snapshots, v \in Views : snap = reconciler.snap /\ v = reconciler.view
  BY <1>1
<1>3. PICK held \in SUBSET Tickets : held = Unsettled(snap, v) \cup (v.closed \ snap.returned)
  BY DEF Unsettled, Snapshots, Views
<1>4. Cardinality(held) \in Nat /\ \A u \in Users : Cardinality(Of(u, held)) \in Nat
  BY TicketSets DEF Of
<1>5. PICK want : want = [u \in Users |-> v.bought[u] + Cardinality(Of(u, held))]
  OBVIOUS
<1>6. \A u \in Users : v.bought[u] \in Nat /\ want[u] \in Nat
  <2>1. \A u \in Users : v.bought[u] \in 0..Limit
    BY DEF Views
  <2>2. \A u \in Users : want[u] = v.bought[u] + Cardinality(Of(u, held))
    BY <1>5
  <2> QED BY <1>4, <2>1, <2>2, NumAssumption
<1>7. PICK delta \in Int : delta = (Num - v.sold) - Cardinality(held) - snap.stock
  BY <1>4, NumAssumption DEF Views, Snapshots
<1>8. \/ UNCHANGED quotaVars
      \/ /\ stock' = stock + delta
         /\ users' = [u \in Users |-> IF want[u] # snap.users[u] THEN want[u] ELSE users[u]]
         /\ touched' = TRUE /\ UNCHANGED <<live, inflight, returned>>
  BY <1>2, <1>3, <1>5, <1>7, Zenon DEF FixDrift, Touch
<1>9. stock + delta \in Int /\ [u \in Users |-> IF want[u] # snap.users[u] THEN want[u] ELSE users[u]] \in [Users -> Nat]
  BY <1>6 DEF SaleTypeOK, KeysTypeOK
<1> QED
  BY <1>8, <1>9 DEF SaleTypeOK, KeysTypeOK, quotaVars, quotaKeys

LEMMA SaleTypeStep == AsyncTypeOK /\ SaleTypeOK /\ [SeckillNext]_allVars => SaleTypeOK'
<1> SUFFICES ASSUME AsyncTypeOK, SaleTypeOK, [SeckillNext]_allVars PROVE SaleTypeOK'
  OBVIOUS
<1>0. RowsTypeOK /\ KeysTypeOK /\ PreheaterOK /\ ReconcilerTypeOK /\ mishaps \in 0..MaxMishaps
  BY DEF SaleTypeOK
<1>a. UNCHANGED saleVars => RowsTypeOK'
  BY <1>0 DEF saleVars, RowsTypeOK
<1>b. UNCHANGED quotaVars => KeysTypeOK'
  BY <1>0 DEF quotaVars, quotaKeys, KeysTypeOK
<1>c. UNCHANGED otherVars => PreheaterOK' /\ ReconcilerTypeOK' /\ mishaps' \in 0..MaxMishaps
  BY <1>0 DEF otherVars, PreheaterOK, ReconcilerTypeOK
<1>d. Mishap => mishaps' \in 0..MaxMishaps
  BY <1>0, BoundsAssumption DEF Mishap
<1>e. NoQuota => SaleTypeOK'
  BY <1>a, <1>b, <1>c DEF NoQuota, SaleTypeOK
<1>1. CASE UNCHANGED allVars
  BY <1>1, <1>e DEF allVars, NoQuota
<1>2. ASSUME NEW t \in Tickets, Grab(t) \/ GrabReplyLost(t) \/ RequestStep(t) \/ CloserStep(t) \/ Time(t)
      PROVE  SaleTypeOK'
  <2>1. UNCHANGED <<saleVars, otherVars>>
    BY <1>2 DEF Grab, GrabReplyLost, RequestStep, CloserStep, Time, ReleaseOnError, ReturnQuota, NoQuota
  <2>2. UNCHANGED quotaVars \/ GrabScript(t) \/ ReleaseScript(t, TRUE, TRUE) \/ ReturnScript(t)
    BY <1>2 DEF Grab, GrabReplyLost, RequestStep, CloserStep, Time, ReleaseOnError, ReturnQuota, NoQuota, Logged
  <2>3. KeysTypeOK'
    BY <1>0, <2>2, ScriptTypes
  <2> QED BY <1>a, <1>c, <2>1, <2>3 DEF SaleTypeOK
<1>3. ASSUME NEW t \in Tickets, CancelSeckill(t) PROVE SaleTypeOK'
  <2>1. RowsTypeOK'
    BY <1>0, <1>3, UserType, NumAssumption DEF CancelSeckill, RowsTypeOK
  <2> QED BY <1>3, <1>b, <1>c, <2>1 DEF CancelSeckill, SaleTypeOK
<1>10. ASSUME NEW t \in Tickets, DeleteClosed(t) PROVE SaleTypeOK'
  <2>1. erased' \in BOOLEAN
    <3>1. erased' = (erased \/ t \notin returned \/ t \in inflight)
      BY <1>10 DEF DeleteClosed
    <3> QED BY <3>1, Zenon
  <2>2. deleted' = deleted \cup {t} /\ UNCHANGED <<sold, bought, quotaVars, otherVars>>
    BY <1>10 DEF DeleteClosed
  <2>3. RowsTypeOK'
    BY <1>0, <2>1, <2>2, Zenon DEF RowsTypeOK
  <2> QED BY <1>b, <1>c, <2>2, <2>3 DEF SaleTypeOK
<1>4. ASSUME NEW w \in Workers, ConsumeStep(w) PROVE SaleTypeOK'
  <2>1. CASE InsertSeckill(w)
    <3>1. worker[w].ticket \in Tickets
      BY <2>1, BusyAt DEF InsertSeckill, InsertOrder, At, WorkerStates
    <3>2. RowsTypeOK'
      BY <1>0, <2>1, <3>1, UserType, NumAssumption DEF InsertSeckill, Occupy, RowsTypeOK
    <3> QED BY <1>b, <1>c, <2>1, <3>2 DEF InsertSeckill, SaleTypeOK
  <2>2. CASE SettleSeckill(w) \/ AbortSeckill(w)
    <3>1. worker[w].ticket \in Tickets
      BY <2>2, BusyAt DEF SettleSeckill, AbortSeckill, Settle, Abort, At, WorkerStates
    <3>2. \/ UNCHANGED quotaVars \/ SettleScript(worker[w].ticket)
          \/ ReleaseScript(worker[w].ticket, worker[w].cause # "soldOut", worker[w].cause # "limitExceeded")
      BY <2>2 DEF SettleSeckill, AbortSeckill, Logged
    <3>3. KeysTypeOK'
      BY <1>0, <3>1, <3>2, ScriptTypes
    <3> QED BY <1>a, <1>c, <2>2, <3>3 DEF SettleSeckill, AbortSeckill, SaleTypeOK
  <2> QED BY <1>4, <1>e, <2>1, <2>2 DEF ConsumeStep, OccupyFails
<1>5. ASSUME NEW w \in Workers, RedeliveredOnce(w) PROVE SaleTypeOK'
  BY <1>5, <1>a, <1>b, <1>d, <1>0 DEF RedeliveredOnce, SaleTypeOK, PreheaterOK, ReconcilerTypeOK
<1>6. CASE PreheatRead
  <2>1. View({}) \in Views
    BY <1>0, ViewType
  <2> QED BY <1>0, <1>6, <1>a, <1>b, <2>1 DEF PreheatRead, SaleTypeOK, PreheaterOK, ReconcilerTypeOK
<1>7. CASE PreheatWrite
  <2>1. PICK v \in preheater : PreheatScript(v)
    BY <1>7 DEF PreheatWrite
  <2>2. v \in Views
    BY <1>0 DEF PreheaterOK
  <2>3. Num - v.sold \in Int /\ v.bought \in [Users -> Nat] /\ v.closed \subseteq Tickets
    <3>1. v.sold \in 0..Num /\ v.bought \in [Users -> 0..Limit] /\ v.closed \subseteq Tickets
      BY <2>2 DEF Views
    <3> QED BY <3>1, NumAssumption
  <2>4. KeysTypeOK'
    BY <1>b, <2>1, <2>3 DEF PreheatScript, KeysTypeOK
  <2> QED BY <1>0, <1>7, <1>a, <2>4 DEF PreheatWrite, SaleTypeOK, PreheaterOK, ReconcilerTypeOK
<1>8. CASE RedisLosesKeys
  <2>1. KeysTypeOK'
    <3>1. [u \in Users |-> 0] \in [Users -> Nat]
      OBVIOUS
    <3>2. touched' = touched
      BY <1>8 DEF RedisLosesKeys
    <3>3. CASE live' = FALSE /\ stock' = 0 /\ UNCHANGED <<users, inflight, returned>>
      <4>1. live' \in BOOLEAN
        BY <3>3, Zenon
      <4>2. stock' \in Int /\ UNCHANGED <<users, inflight, returned, touched>>
        BY <3>2, <3>3
      <4> QED BY <1>0, <4>1, <4>2, Zenon DEF KeysTypeOK
    <3>4. CASE users' = [u \in Users |-> 0] /\ UNCHANGED <<live, stock, inflight, returned>>
      BY <1>0, <3>1, <3>2, <3>4 DEF KeysTypeOK
    <3>5. CASE inflight' = {} /\ UNCHANGED <<live, stock, users, returned>>
      BY <1>0, <3>2, <3>5 DEF KeysTypeOK
    <3>6. CASE returned' = {} /\ UNCHANGED <<live, stock, users, inflight>>
      BY <1>0, <3>2, <3>6 DEF KeysTypeOK
    <3> QED BY <1>8, <3>3, <3>4, <3>5, <3>6, Zenon DEF RedisLosesKeys
  <2> QED BY <1>0, <1>8, <1>a, <1>d, <2>1 DEF RedisLosesKeys, SaleTypeOK, PreheaterOK, ReconcilerTypeOK
<1>9. CASE ReconcileStep \/ ReconcilerStops
  <2>1. UNCHANGED <<saleVars, preheater>>
    BY <1>9 DEF ReconcileStep, ReconcilerStops, TakeSnapshot, ReadView, ReleaseLeaked, FixDrift, CheckTicket,
       ReturnMissed, OnlyReconciler
  <2>2. mishaps' \in 0..MaxMishaps
    BY <1>0, <1>9, <1>d DEF ReconcileStep, ReconcilerStops, TakeSnapshot, ReadView, ReleaseLeaked, FixDrift, CheckTicket,
       ReturnMissed
  <2>3. KeysTypeOK'
    <3>1. CASE FixDrift
      BY <3>1, FixTypes
    <3>2. CASE TakeSnapshot
      BY <1>0, <3>2 DEF TakeSnapshot, KeysTypeOK, quotaKeys
    <3>3. CASE ReleaseLeaked
      <4>1. reconciler.ticket \in Tickets
        BY <1>0, <3>3, ReconcilerAt DEF ReleaseLeaked, Releasing
      <4> QED BY <1>0, <3>3, <4>1, ScriptTypes DEF ReleaseLeaked
    <3>4. ASSUME NEW t \in Tickets, CheckTicket(t) \/ ReturnMissed(t) PROVE KeysTypeOK'
      BY <1>0, <3>4, ScriptTypes DEF CheckTicket, ReturnMissed
    <3> QED BY <1>9, <1>b, <3>1, <3>2, <3>3, <3>4 DEF ReconcileStep, ReconcilerStops, ReadView
  <2>4. ReconcilerTypeOK'
    BY <1>9, ReconcilerStep
  <2> QED BY <1>0, <1>a, <2>1, <2>2, <2>3, <2>4 DEF SaleTypeOK, PreheaterOK
<1> QED
  BY <1>1, <1>2, <1>3, <1>4, <1>5, <1>6, <1>7, <1>8, <1>9, <1>10 DEF SeckillNext

LEMMA SaleStart == SeckillInit => SaleTypeOK
<1> SUFFICES ASSUME SeckillInit PROVE SaleTypeOK
  OBVIOUS
<1>1. [u \in Users |-> 0] \in [Users -> 0..Limit] /\ [u \in Users |-> 0] \in [Users -> Nat] /\ 0 \in 0..Num
  BY NumAssumption
<1>2. RowsTypeOK
  BY <1>1 DEF SeckillInit, RowsTypeOK
<1>3. KeysTypeOK
  <2>1. live \in BOOLEAN /\ touched \in BOOLEAN
    BY Zenon DEF SeckillInit
  <2>2. stock \in Int
    BY NumAssumption DEF SeckillInit
  <2> QED BY <1>1, <2>1, <2>2 DEF SeckillInit, KeysTypeOK
<1>4. PreheaterOK
  BY DEF SeckillInit, PreheaterOK
<1>6. ReconcilerTypeOK
  BY DEF SeckillInit, ReconcilerTypeOK
<1>5. mishaps \in 0..MaxMishaps
  BY BoundsAssumption DEF SeckillInit
<1> QED
  BY <1>2, <1>3, <1>4, <1>5, <1>6 DEF SaleTypeOK

LEMMA SaleTypeAlways == SeckillSpec => []SaleTypeOK
BY SaleStart, SaleTypeStep, AsyncAlways, PTL DEF SeckillSpec, AsyncInv

\* The sale, its Redis keys, the preheating and the reconciliation keep to
\* their types whatever fails.
THEOREM SeckillTypeCorrect == SeckillSpec => []SeckillTypeOK
<1>1. AsyncInv /\ SaleTypeOK => SeckillTypeOK
  <2> SUFFICES ASSUME AsyncInv, SaleTypeOK PROVE SeckillTypeOK
    OBVIOUS
  <2>1. Cardinality(preheater) <= 1
    <3>1. CASE preheater = {}
      BY <3>1, FS_EmptySet
    <3>2. ASSUME NEW v \in Views, preheater = {v} PROVE Cardinality(preheater) <= 1
      <4>1. Cardinality({v}) = 1
        BY FS_Singleton
      <4> QED BY <3>2, <4>1
    <3> QED BY <3>1, <3>2 DEF SaleTypeOK, PreheaterOK
  <2> QED BY <2>1, ReconcilerAt DEF AsyncInv, SaleTypeOK, RowsTypeOK, KeysTypeOK, SeckillTypeOK
<1> QED
  BY <1>1, AsyncAlways, SaleTypeAlways, PTL

-----------------------------------------------------------------------------
(* What the DB counts *)

LEMMA UserAdd ==
  ASSUME NEW S \in SUBSET Tickets, NEW t \in Tickets, t \notin S, NEW u \in Users
  PROVE  /\ Cardinality(Of(u, S)) \in Nat
         /\ Cardinality(Of(u, S \cup {t})) =
              IF u = UserOf[t] THEN Cardinality(Of(u, S)) + 1 ELSE Cardinality(Of(u, S))
<1>1. Of(u, S) \in SUBSET Tickets /\ t \notin Of(u, S)
  BY DEF Of
<1>2. CASE u = UserOf[t]
  <2>1. Of(u, S \cup {t}) = Of(u, S) \cup {t}
    BY <1>2 DEF Of
  <2> QED BY <1>1, <1>2, <2>1, TicketSets, CountAdd
<1>3. CASE u # UserOf[t]
  <2>1. Of(u, S \cup {t}) = Of(u, S)
    BY <1>3 DEF Of
  <2> QED BY <1>1, <1>3, <2>1, TicketSets
<1> QED
  BY <1>2, <1>3

LEMMA UserRemove ==
  ASSUME NEW S \in SUBSET Tickets, NEW t \in S, NEW u \in Users
  PROVE  /\ Cardinality(Of(u, S)) \in Nat
         /\ u = UserOf[t] => Cardinality(Of(u, S)) >= 1
         /\ Cardinality(Of(u, S \ {t})) =
              IF u = UserOf[t] THEN Cardinality(Of(u, S)) - 1 ELSE Cardinality(Of(u, S))
<1>1. Of(u, S) \in SUBSET Tickets
  BY DEF Of
<1>2. CASE u = UserOf[t]
  <2>1. Of(u, S \ {t}) = Of(u, S) \ {t} /\ t \in Of(u, S)
    BY <1>2 DEF Of
  <2> QED BY <1>1, <1>2, <2>1, TicketSets, CountRemove
<1>3. CASE u # UserOf[t]
  <2>1. Of(u, S \ {t}) = Of(u, S)
    BY <1>3 DEF Of
  <2> QED BY <1>1, <1>3, <2>1, TicketSets
<1> QED
  BY <1>2, <1>3

\* Orders come and go with the counters, in one transaction.
LEMMA RowsMove ==
  ASSUME AsyncTypeOK, [SeckillNext]_allVars
  PROVE  \/ UNCHANGED <<sold, bought, order>>
         \/ \E w \in Workers : InsertSeckill(w)
         \/ \E t \in Tickets : CancelSeckill(t)
<1>1. CASE UNCHANGED allVars
  BY <1>1 DEF allVars, saleVars, vars
<1>2. ASSUME NEW t \in Tickets, Grab(t) \/ GrabReplyLost(t) \/ RequestStep(t)
      PROVE  UNCHANGED <<saleVars, order>>
  BY <1>2 DEF Grab, GrabReplyLost, RequestStep, ReleaseOnError, NoQuota, EnqueueOnly, Arrive, ReserveStock,
     MarkInflight, PutPending, Publish, UndoRelease, UndoUnmark, PutPublishFailed, EnqueuerDies, ReturnError
<1>3. ASSUME NEW t \in Tickets, CloserStep(t) \/ Time(t)
      PROVE  UNCHANGED <<saleVars, order>>
  BY <1>3 DEF CloserStep, ReturnQuota, Time, NoQuota, ReleaseOnCancel, CloserDies, Return, GrowsOld, Expire
<1>6. ASSUME NEW t \in Tickets, DeleteClosed(t) PROVE UNCHANGED <<sold, bought, order>>
  BY <1>6 DEF DeleteClosed, vars
<1>4. ASSUME NEW w \in Workers, ConsumeStep(w) \/ RedeliveredOnce(w), ~InsertSeckill(w)
      PROVE  UNCHANGED <<saleVars, order>>
  BY <1>4 DEF ConsumeStep, RedeliveredOnce, OccupyFails, SettleSeckill, AbortSeckill, NoQuota, Deliver, Redelivered,
     Lookup, InsertFails, Recheck, Unmark, ReleaseOnAbort, PutResult, Settle, Abort
<1>5. CASE PreheatRead \/ PreheatWrite \/ RedisLosesKeys \/ ReconcileStep \/ ReconcilerStops
  BY <1>5 DEF PreheatRead, PreheatWrite, RedisLosesKeys, ReconcileStep, ReconcilerStops, TakeSnapshot, ReadView,
     ReleaseLeaked, FixDrift, CheckTicket, ReturnMissed, OnlyReconciler, vars, saleVars
<1> QED
  BY <1>1, <1>2, <1>3, <1>4, <1>5, <1>6 DEF SeckillNext, saleVars

LEMMA GuardsStep == AsyncTypeOK /\ RowsTypeOK /\ DBGuards /\ [SeckillNext]_allVars => DBGuards'
<1> SUFFICES ASSUME AsyncTypeOK, RowsTypeOK, DBGuards, [SeckillNext]_allVars PROVE DBGuards'
  OBVIOUS
<1>1. Open \in SUBSET Tickets /\ Cardinality(Open) \in Nat
  BY TicketSets DEF Open
<1>2. CASE UNCHANGED <<sold, bought, order>>
  BY <1>2 DEF DBGuards, Open, Of
<1>3. ASSUME NEW w \in Workers, InsertSeckill(w) PROVE DBGuards'
  <2>1. PICK t \in Tickets : t = worker[w].ticket
    BY <1>3, BusyAt DEF InsertSeckill, InsertOrder, At, WorkerStates
  <2>2. /\ order[t] = "none" /\ order' = [order EXCEPT ![t] = "WaitPay"]
        /\ sold + 1 <= Num /\ bought[UserOf[t]] + 1 <= Limit
        /\ sold' = sold + 1
        /\ bought' = [bought EXCEPT ![UserOf[t]] = @ + 1]
    BY <1>3, <2>1 DEF InsertSeckill, InsertOrder, Occupy
  <2>3. Open' = Open \cup {t} /\ t \notin Open
    BY <2>2 DEF Open, AsyncTypeOK
  <2>4. sold' = Cardinality(Open') /\ sold' <= Num
    BY <1>1, <2>2, <2>3, CountAdd DEF DBGuards
  <2>5. ASSUME NEW u \in Users PROVE bought'[u] = Cardinality(Of(u, Open \cup {t})) /\ bought'[u] <= Limit
    <3>1. bought[u] = Cardinality(Of(u, Open)) /\ bought[u] <= Limit
      BY DEF DBGuards
    <3>2. bought'[u] = IF u = UserOf[t] THEN bought[u] + 1 ELSE bought[u]
      BY <2>2 DEF RowsTypeOK
    <3> QED BY <1>1, <2>2, <2>3, <3>1, <3>2, UserAdd
  <2> QED BY <2>3, <2>4, <2>5 DEF DBGuards, Of
<1>4. ASSUME NEW t \in Tickets, CancelSeckill(t) PROVE DBGuards'
  <2>1. /\ order[t] = "WaitPay" /\ order' = [order EXCEPT ![t] = "Closed"]
        /\ sold' = IF sold >= 1 THEN sold - 1 ELSE sold
        /\ bought' = [bought EXCEPT ![UserOf[t]] = IF @ >= 1 THEN @ - 1 ELSE @]
    BY <1>4 DEF CancelSeckill, CancelTx
  <2>2. Open' = Open \ {t} /\ t \in Open
    BY <2>1 DEF Open, AsyncTypeOK
  <2>3. Cardinality(Open \ {t}) = Cardinality(Open) - 1 /\ Cardinality(Open) >= 1
    BY <1>1, <2>2, CountRemove
  <2>4. sold' = Cardinality(Open') /\ sold' <= Num
    BY <1>1, <2>1, <2>2, <2>3, NumAssumption DEF DBGuards
  <2>5. ASSUME NEW u \in Users PROVE bought'[u] = Cardinality(Of(u, Open \ {t})) /\ bought'[u] <= Limit
    <3>1. bought[u] = Cardinality(Of(u, Open)) /\ bought[u] <= Limit
      BY DEF DBGuards
    <3>2. bought'[u] = IF u = UserOf[t] /\ bought[u] >= 1 THEN bought[u] - 1 ELSE bought[u]
      BY <2>1 DEF RowsTypeOK
    <3>3. /\ Cardinality(Of(u, Open)) \in Nat
          /\ u = UserOf[t] => Cardinality(Of(u, Open)) >= 1
          /\ Cardinality(Of(u, Open \ {t})) =
               IF u = UserOf[t] THEN Cardinality(Of(u, Open)) - 1 ELSE Cardinality(Of(u, Open))
      BY <1>1, <2>2, UserRemove
    <3> QED BY <3>1, <3>2, <3>3, NumAssumption
  <2> QED BY <2>2, <2>4, <2>5 DEF DBGuards, Of
<1> QED
  BY <1>2, <1>3, <1>4, RowsMove

LEMMA GuardsStart == SeckillInit => DBGuards
<1> SUFFICES ASSUME SeckillInit PROVE DBGuards
  OBVIOUS
<1>1. Open = {} /\ \A u \in Users : Of(u, Open) = {}
  BY DEF SeckillInit, AsyncInit, Open, Of
<1>2. \A u \in Users : bought[u] = 0
  BY DEF SeckillInit
<1>3. sold = 0 /\ Num >= 0 /\ Limit >= 0
  BY NumAssumption DEF SeckillInit
<1> QED
  BY <1>1, <1>2, <1>3, FS_EmptySet DEF DBGuards

\* Whatever Redis lost, whatever was delivered twice, refused or given up: no
\* more is sold than the sale has, to nobody more than the limit, and sold and
\* bought are the orders there are.
THEOREM SeckillDBGuards == SeckillSpec => []DBGuards
<1>1. AsyncInv /\ SaleTypeOK /\ DBGuards /\ [SeckillNext]_allVars => DBGuards'
  BY GuardsStep DEF AsyncInv, SaleTypeOK
<1> QED
  BY <1>1, GuardsStart, AsyncAlways, SaleTypeAlways, PTL DEF SeckillSpec

-----------------------------------------------------------------------------
(* Where a quota is, as long as Redis keeps the keys *)

\* The same as Closed, Flying, Owed and Exact where no order was deleted before
\* its quota was given back: a deleted order is then counted nowhere.
Shut   == {t \in Tickets : order[t] = "Closed"}
Midair == {t \in inflight : order[t] = "none"}
Due    == Shut \ returned

Balanced ==
  /\ stock + Cardinality(Midair) + Cardinality(Due) = Num - sold
  /\ \A u \in Users : users[u] = bought[u] + Cardinality(Of(u, Midair \cup Due))

DeletedReturned == deleted \subseteq returned /\ deleted \cap inflight = {}

LEMMA ShutBalance ==
  ASSUME DeletedReturned, deleted \subseteq Shut
  PROVE  Midair = Flying /\ Due = Owed /\ (Balanced <=> Exact)
<1>1. Midair = Flying /\ Due = Owed
  BY DEF DeletedReturned, Midair, Flying, NoRow, Due, Owed, Shut, Closed
<1> QED
  BY <1>1 DEF Balanced, Exact

\* A request has its quota until it gives it back; a ticket that may become
\* an order keeps it.
QuotaOf(t) ==
  /\ Coming(t) \/ enqueuer[t] \in {"reserve", "mark", "put", "publish"} => t \in inflight
  /\ enqueuer[t] = "idle" => t \notin inflight

\* Before the first preheating nothing has happened.
Pristine ==
  /\ \A t \in Tickets : enqueuer[t] = "idle" /\ order[t] = "none"
  /\ sold = 0 /\ bought = [u \in Users |-> 0] /\ inflight = {} /\ returned = {}
  /\ reconciler = IdleReconciler
  /\ \A v \in preheater : v.sold = 0 /\ v.bought = [u \in Users |-> 0] /\ v.closed = {}

\* What the reconciliation has read is still true where it acts on it.
SortingOK(r) ==
  /\ r.owed \subseteq Shut
  /\ \A t \in r.flying : enqueuer[t] # "idle"
  /\ \A t \in r.flying \cap r.settled : order[t] # "none"
  /\ \A t \in r.flying \ r.settled : age[t] = "expired" => NoRow(t)

Held(snap, v) == Unsettled(snap, v) \cup (v.closed \ snap.returned)

\* A snapshot and a view between which the version did not move agree.
NoDrift(snap, v) ==
  /\ (Num - v.sold) - Cardinality(Held(snap, v)) - snap.stock = 0
  /\ \A u \in Users : v.bought[u] + Cardinality(Of(u, Held(snap, v))) = snap.users[u]

\* No order will come of the ticket, or its order has come and gone.
Forgone(t) == GivenUp(t) \/ t \in deleted

ReconcilerOK ==
  /\ reconciler.at = "view" => /\ reconciler.snap.returned \subseteq Shut
                               /\ \A t \in reconciler.snap.inflight : enqueuer[t] # "idle"
                               /\ ~touched => reconciler.snap = Snapshot
  /\ reconciler.at = "tickets" => SortingOK(reconciler)
  /\ reconciler.at = "release" => Forgone(reconciler.ticket) /\ SortingOK(reconciler.rest)
  /\ reconciler.at = "fix" /\ ~erased => NoDrift(reconciler.snap, reconciler.view)

NoRefusal == \A w \in Workers : Busy(w) => worker[w].cause = NoCause

WithinLimits == stock >= 0 /\ \A u \in Users : users[u] <= Limit

QuotaInv ==
  KeysKept =>
    /\ \A t \in Tickets : QuotaOf(t)
    /\ returned \subseteq Shut /\ deleted \subseteq Shut
    /\ ~live => Pristine
    /\ ReconcilerOK
    /\ ~erased => WithinLimits /\ NoRefusal /\ DeletedReturned /\ (live => Balanced)

Inv == AsyncInv /\ SaleTypeOK /\ DBGuards /\ QuotaInv

\* What a step does to the quotas when Redis keeps the keys.
Grabs(t) ==
  GrabScript(t) /\ enqueuer[t] = "idle" /\ enqueuer'[t] # "idle" /\ UNCHANGED <<order, sold, bought>>

GivesBack(t) ==
  /\ t \in inflight /\ Forgone(t)
  /\ inflight' = inflight \ {t} /\ touched' = TRUE
  /\ ~erased => stock' = stock + 1 /\ DecrUser(UserOf[t])
  /\ UNCHANGED <<live, returned, order, sold, bought>>

Fixes == erased /\ touched' = TRUE /\ UNCHANGED <<live, inflight, returned, order, sold, bought>>

Settles(t) ==
  /\ t \in inflight /\ order[t] # "none"
  /\ inflight' = inflight \ {t} /\ touched' = TRUE
  /\ UNCHANGED <<live, stock, users, returned, order, sold, bought>>

Returns(t) ==
  /\ t \in Shut \ returned
  /\ returned' = returned \cup {t} /\ stock' = stock + 1 /\ DecrUser(UserOf[t]) /\ touched' = TRUE
  /\ UNCHANGED <<live, inflight, order, sold, bought>>

Preheats ==
  /\ ~live /\ live' = TRUE /\ stock' = Num /\ users' = [u \in Users |-> 0] /\ inflight' = {} /\ returned' = {}
  /\ UNCHANGED <<order, sold, bought, reconciler>>

Keeps ==
  /\ UNCHANGED quotaKeys
  /\ touched' = touched \/ (TakeSnapshot /\ UNCHANGED <<order, sold, bought>>)
  /\ \/ UNCHANGED <<order, sold, bought>>
     \/ \E w \in Workers : InsertSeckill(w)
     \/ \E t \in Tickets : CancelSeckill(t)

LEMMA GivenUpNotComing ==
  ASSUME Inv, KeysKept, NEW t \in Tickets, Forgone(t)
  PROVE  ~Coming(t) /\ enqueuer[t] \notin Starting
<1>1. AgesOK /\ Course(t) /\ deleted \subseteq Shut
  BY DEF Inv, AsyncInv, Courses, KeysKept, QuotaInv
<1>2. CASE GivenUp(t)
  BY <1>1, <1>2 DEF AgesOK, GivenUp, Coming
<1>3. CASE t \in deleted
  BY <1>1, <1>3 DEF Shut, Coming, Starting, Course
<1> QED
  BY <1>2, <1>3 DEF Forgone

\* The scripts find what they expect.
LEMMA ReleaseGives ==
  ASSUME SaleTypeOK, QuotaInv, KeysKept, NEW t \in Tickets, Forgone(t), NEW toStock, NEW toUser,
         ~erased => toStock = TRUE /\ toUser = TRUE,
         ReleaseScript(t, toStock, toUser), UNCHANGED <<order, sold, bought>>
  PROVE  GivesBack(t) \/ UNCHANGED quotaVars
<1>1. t \in inflight => live
  BY DEF QuotaInv, Pristine
<1> QED
  BY <1>1 DEF ReleaseScript, GivesBack, Touch

LEMMA SettleGives ==
  ASSUME NEW t \in Tickets, order[t] # "none", SaleTypeOK, SettleScript(t), UNCHANGED <<order, sold, bought>>
  PROVE  Settles(t) \/ UNCHANGED quotaVars
<1>1. CASE t \in inflight
  <2>1. inflight' = inflight \ {t} /\ UNCHANGED <<live, stock, users, returned>>
    BY DEF SettleScript
  <2>2. touched' = TRUE
    BY <1>1, Zenon DEF SettleScript
  <2> QED BY <1>1, <2>1, <2>2 DEF Settles
<1>2. CASE t \notin inflight
  <2>1. inflight' = inflight /\ UNCHANGED <<live, stock, users, returned>>
    BY <1>2 DEF SettleScript
  <2>2. touched' = touched
    <3>1. touched \in BOOLEAN /\ touched' = (touched \/ FALSE)
      BY <1>2, Zenon DEF SettleScript, SaleTypeOK, KeysTypeOK
    <3> QED BY <3>1, Zenon
  <2> QED BY <2>1, <2>2 DEF quotaVars, quotaKeys
<1> QED
  BY <1>1, <1>2

LEMMA ReturnGives ==
  ASSUME NEW t \in Shut, ReturnScript(t), UNCHANGED <<order, sold, bought>>
  PROVE  Returns(t) \/ UNCHANGED quotaVars
BY DEF ReturnScript, Returns, Touch

\* A delivery that inserts is not refused: its quota is still in flight.
LEMMA NotRefused ==
  ASSUME Inv, KeysKept, ~erased, NEW w \in Workers, worker[w].at = "insert"
  PROVE  LET t == worker[w].ticket
         IN  order[t] = "none" => sold + 1 <= Num /\ bought[UserOf[t]] + 1 <= Limit
<1>1. PICK t \in Tickets : t = worker[w].ticket /\ On(w, t)
  BY BusyAt DEF Inv, AsyncInv, On, WorkerStates
<1> SUFFICES ASSUME order[t] = "none" PROVE sold + 1 <= Num /\ bought[UserOf[t]] + 1 <= Limit
  BY <1>1
<1>2. t \in inflight
  BY <1>1 DEF Coming, Inv, QuotaInv, QuotaOf
<1>3. live /\ Balanced /\ WithinLimits
  BY <1>2 DEF Inv, QuotaInv, Pristine
<1>4. Midair \in SUBSET Tickets /\ Due \in SUBSET Tickets /\ t \in Midair /\ Midair \cup Due \in SUBSET Tickets
  BY <1>2 DEF Midair, Due, Shut, Inv, SaleTypeOK, KeysTypeOK
<1>5. Cardinality(Midair) \in Nat /\ Cardinality(Due) \in Nat /\ Cardinality(Midair) >= 1
  BY <1>4, TicketSets, CountRemove
<1>6. stock \in Int /\ sold \in Int /\ Num \in Int
  BY NumAssumption DEF Inv, SaleTypeOK, KeysTypeOK, RowsTypeOK
<1>7. sold + 1 <= Num
  BY <1>3, <1>5, <1>6 DEF Balanced, WithinLimits
<1>8. UserOf[t] \in Users
  BY UserType
<1>9. Cardinality(Of(UserOf[t], Midair \cup Due)) >= 1 /\ Cardinality(Of(UserOf[t], Midair \cup Due)) \in Nat
  BY <1>4, <1>8, UserRemove
<1>10. bought[UserOf[t]] \in Int /\ users[UserOf[t]] \in Int /\ Limit \in Int
  <2>1. bought[UserOf[t]] \in 0..Limit /\ users[UserOf[t]] \in Nat
    BY <1>8 DEF Inv, SaleTypeOK, KeysTypeOK, RowsTypeOK
  <2> QED BY <2>1, NumAssumption
<1>11. users[UserOf[t]] = bought[UserOf[t]] + Cardinality(Of(UserOf[t], Midair \cup Due)) /\ users[UserOf[t]] <= Limit
  BY <1>3, <1>8 DEF Balanced, WithinLimits
<1>12. bought[UserOf[t]] + 1 <= Limit
  BY <1>9, <1>10, <1>11
<1> QED
  BY <1>7, <1>12

\* There is nothing to fix.
LEMMA NothingToFix ==
  ASSUME Inv, KeysKept, ~erased, FixDrift
  PROVE  UNCHANGED quotaVars
<1>1. reconciler.snap \in Snapshots /\ reconciler.view \in Views /\ NoDrift(reconciler.snap, reconciler.view)
  BY ReconcilerAt DEF Inv, SaleTypeOK, FixDrift, Fixing, QuotaInv, ReconcilerOK
<1>2. PICK snap \in Snapshots, v \in Views : snap = reconciler.snap /\ v = reconciler.view
  BY <1>1
<1>3. PICK held : held = Unsettled(snap, v) \cup (v.closed \ snap.returned)
  OBVIOUS
<1>4. /\ (Num - v.sold) - Cardinality(held) - snap.stock = 0
      /\ \A u \in Users : v.bought[u] + Cardinality(Of(u, held)) = snap.users[u]
  BY <1>1, <1>2, <1>3 DEF NoDrift, Held
<1>5. [u \in Users |-> v.bought[u] + Cardinality(Of(u, held))] = snap.users
  <2>1. snap.users \in [Users -> Nat]
    BY DEF Snapshots
  <2> QED BY <1>4, <2>1
<1> QED
  BY <1>2, <1>3, <1>4, <1>5, Zenon DEF FixDrift

LEMMA FailedGivenUp ==
  ASSUME AsyncInv, HandledOnce, NEW t \in Tickets,
         enqueuer[t] = "refused" \/ \E w \in Workers : On(w, t) /\ worker[w].at = "abort"
  PROVE  GivenUp(t)
<1>1. Course(t)
  BY DEF AsyncInv, Courses
<1>2. CASE enqueuer[t] = "refused"
  BY <1>1, <1>2 DEF Course, GivenUp, Starting
<1>3. ASSUME NEW w \in Workers, On(w, t), worker[w].at = "abort" PROVE GivenUp(t)
  BY <1>1, <1>3 DEF Course, GivenUp, Starting
<1> QED
  BY <1>2, <1>3

LEMMA QuotaMoves ==
  ASSUME Inv, KeysKept, [SeckillNext]_allVars
  PROVE  \/ Keeps \/ Preheats \/ Fixes
         \/ \E t \in Tickets : Grabs(t) \/ GivesBack(t) \/ Settles(t) \/ Returns(t)
<1> DEFINE Moves == \/ Keeps \/ Preheats \/ Fixes
                    \/ \E t \in Tickets : Grabs(t) \/ GivesBack(t) \/ Settles(t) \/ Returns(t)
<1>0. AsyncTypeOK /\ SaleTypeOK /\ QuotaInv /\ AsyncInv /\ HandledOnce /\ "redis_error" \notin faults
      /\ "keys_lost" \notin faults
  BY DEF Inv, AsyncInv, KeysKept
<1>a. UNCHANGED quotaVars /\ UNCHANGED <<order, sold, bought>> => Keeps
  BY DEF Keeps, quotaVars
<1>b. NoQuota /\ UNCHANGED order => Keeps
  BY <1>a DEF NoQuota, saleVars
<1>1. CASE UNCHANGED allVars
  BY <1>1, <1>b DEF allVars, NoQuota, vars
<1>2. ASSUME NEW t \in Tickets, Grab(t) \/ GrabReplyLost(t) PROVE Moves
  <2>1. UNCHANGED <<order, sold, bought>> /\ GrabScript(t)
    BY <1>2 DEF Grab, GrabReplyLost, Arrive, EnqueueOnly, saleVars
  <2>2. enqueuer[t] = "idle" /\ enqueuer'[t] # "idle"
    BY <1>0, <1>2 DEF Grab, GrabReplyLost, Arrive, EnqueueGoes, AsyncTypeOK
  <2> QED BY <2>1, <2>2 DEF Grabs
<1>3. ASSUME NEW t \in Tickets, RequestStep(t) PROVE Moves
  <2>1. CASE ReleaseOnError(t)
    <3>1. Forgone(t) /\ UNCHANGED <<order, sold, bought>>
      BY <1>0, <2>1, FailedGivenUp DEF Forgone, ReleaseOnError, ReturnError, EnqueueGoes, EnqueueOnly, saleVars
    <3>2. ReleaseScript(t, TRUE, TRUE)
      BY <1>0, <2>1 DEF ReleaseOnError, Logged
    <3> QED BY <1>0, <1>a, <3>1, <3>2, ReleaseGives
  <2>2. CASE ~ReleaseOnError(t)
    <3>1. NoQuota /\ UNCHANGED order
      BY <1>3, <2>2 DEF RequestStep, EnqueueOnly, ReserveStock, MarkInflight, PutPending, Publish, UndoRelease,
         UndoUnmark, PutPublishFailed, EnqueuerDies
    <3> QED BY <1>b, <3>1
  <2> QED BY <2>1, <2>2
<1>4. ASSUME NEW t \in Tickets, CancelSeckill(t) PROVE Moves
  BY <1>4 DEF CancelSeckill, Keeps, quotaVars
<1>13. ASSUME NEW t \in Tickets, DeleteClosed(t) PROVE Moves
  BY <1>13, <1>a DEF DeleteClosed, vars
<1>5. ASSUME NEW t \in Tickets, CloserStep(t) PROVE Moves
  <2>1. CASE ReturnQuota(t)
    <3>1. closer[t] = "return" /\ UNCHANGED <<order, sold, bought>> /\ ReturnScript(t)
      BY <1>0, <2>1 DEF ReturnQuota, Return, Logged, saleVars
    <3>2. t \in Shut
      BY <1>0, <3>1 DEF AsyncInv, Courses, Course, Shut
    <3> QED BY <1>a, <3>1, <3>2, ReturnGives
  <2>2. CASE ~ReturnQuota(t)
    BY <1>5, <1>b, <2>2 DEF CloserStep, ReleaseOnCancel, CloserDies
  <2> QED BY <2>1, <2>2
<1>6. ASSUME NEW t \in Tickets, Time(t) PROVE Moves
  BY <1>6, <1>b DEF Time, GrowsOld, Expire
<1>7. ASSUME NEW w \in Workers, ConsumeStep(w) PROVE Moves
  <2>1. CASE InsertSeckill(w)
    BY <2>1 DEF InsertSeckill, Keeps, quotaVars
  <2>2. CASE SettleSeckill(w)
    <3>1. PICK t \in Tickets : t = worker[w].ticket /\ On(w, t) /\ worker[w].at = "settle"
      BY <1>0, <2>2, BusyAt DEF SettleSeckill, Settle, At, On, WorkerStates
    <3>2. order[t] # "none" /\ UNCHANGED <<order, sold, bought>> /\ SettleScript(t)
      BY <1>0, <2>2, <3>1 DEF SettleSeckill, Settle, Logged, saleVars, AsyncInv, Courses, Course
    <3> QED BY <1>0, <1>a, <3>1, <3>2, SettleGives
  <2>3. CASE AbortSeckill(w)
    <3>1. PICK t \in Tickets : t = worker[w].ticket /\ On(w, t) /\ worker[w].at = "abort"
      BY <1>0, <2>3, BusyAt DEF AbortSeckill, Abort, At, On, WorkerStates
    <3>2. Forgone(t) /\ UNCHANGED <<order, sold, bought>>
      BY <1>0, <2>3, <3>1, FailedGivenUp DEF Forgone, AbortSeckill, Abort, saleVars
    <3>3. ~erased => worker[w].cause = NoCause
      BY <1>0, <3>1 DEF QuotaInv, NoRefusal, On
    <3>4. PICK a, b : a = (worker[w].cause # "soldOut") /\ b = (worker[w].cause # "limitExceeded")
      OBVIOUS
    <3>6. ~erased => a = TRUE /\ b = TRUE
      BY <3>3, <3>4 DEF NoCause
    <3>5. ReleaseScript(t, a, b)
      BY <1>0, <2>3, <3>1, <3>4 DEF AbortSeckill, Logged
    <3> QED BY <1>0, <1>a, <3>2, <3>5, <3>6, ReleaseGives
  <2>4. CASE NoQuota /\ ~InsertSeckill(w) /\ ~SettleSeckill(w) /\ ~AbortSeckill(w)
    <3>1. UNCHANGED order
      BY <1>7, <2>4 DEF ConsumeStep, OccupyFails, Deliver, Lookup, InsertFails, Recheck, Unmark, ReleaseOnAbort, PutResult
    <3> QED BY <1>b, <2>4, <3>1
  <2> QED BY <1>7, <2>1, <2>2, <2>3, <2>4 DEF ConsumeStep, OccupyFails
<1>8. ASSUME NEW w \in Workers, RedeliveredOnce(w) PROVE FALSE
  BY <1>0, <1>8 DEF RedeliveredOnce, Redelivered, HandledOnce
<1>9. CASE PreheatRead
  BY <1>9, <1>a DEF PreheatRead, saleVars, vars
<1>10. CASE PreheatWrite
  <2>1. PICK v \in preheater : PreheatScript(v)
    BY <1>10 DEF PreheatWrite
  <2>2. UNCHANGED <<order, sold, bought, reconciler>>
    BY <1>10 DEF PreheatWrite, saleVars, vars
  <2>3. CASE live /\ UNCHANGED quotaVars
    BY <1>a, <2>2, <2>3
  <2>4. CASE ~(live /\ UNCHANGED quotaVars)
    <3>1. ~live /\ live' = TRUE /\ stock' = Num - v.sold /\ users' = v.bought /\ inflight' = {} /\ returned' = v.closed
      BY <2>1, <2>4 DEF PreheatScript
    <3>2. v.sold = 0 /\ v.bought = [u \in Users |-> 0] /\ v.closed = {}
      BY <1>0, <3>1 DEF QuotaInv, Pristine
    <3> QED BY <2>2, <3>1, <3>2, NumAssumption DEF Preheats
  <2> QED BY <2>3, <2>4
<1>11. CASE RedisLosesKeys
  BY <1>0, <1>11 DEF RedisLosesKeys
<1>12. CASE ReconcileStep \/ ReconcilerStops
  <2>0. UNCHANGED <<order, sold, bought>>
    BY <1>12 DEF ReconcileStep, ReconcilerStops, TakeSnapshot, ReadView, ReleaseLeaked, FixDrift, CheckTicket,
       ReturnMissed, OnlyReconciler, vars, saleVars
  <2>1. CASE TakeSnapshot
    BY <2>0, <2>1 DEF TakeSnapshot, Keeps
  <2>2. CASE ReadView \/ ReconcilerStops
    BY <1>a, <2>0, <2>2 DEF ReadView, ReconcilerStops
  <2>3. CASE FixDrift
    <3>1. CASE ~erased
      BY <1>a, <2>0, <2>3, <3>1, NothingToFix
    <3>2. CASE erased
      <4>1. UNCHANGED quotaVars \/ (touched' = TRUE /\ UNCHANGED <<live, inflight, returned>>)
        BY <2>3 DEF FixDrift, Touch
      <4> QED BY <1>a, <2>0, <3>2, <4>1 DEF Fixes
    <3> QED BY <3>1, <3>2
  <2>4. CASE ReleaseLeaked
    <3>1. PICK t \in Tickets : t = reconciler.ticket
      BY <1>0, <2>4, ReconcilerAt DEF SaleTypeOK, ReleaseLeaked, Releasing
    <3>2. Forgone(t)
      BY <1>0, <2>4, <3>1 DEF ReleaseLeaked, QuotaInv, ReconcilerOK
    <3>3. ReleaseScript(t, TRUE, TRUE)
      BY <2>4, <3>1 DEF ReleaseLeaked
    <3> QED BY <1>0, <1>a, <2>0, <3>2, <3>3, ReleaseGives
  <2>5. ASSUME NEW t \in Tickets, CheckTicket(t) PROVE Moves
    <3>1. CASE UNCHANGED quotaVars
      BY <1>a, <2>0, <3>1
    <3>2. CASE ~UNCHANGED quotaVars
      <4>1. t \in reconciler.flying /\ t \in reconciler.settled /\ SettleScript(t) /\ reconciler.at = "tickets"
        BY <2>5, <3>2 DEF CheckTicket
      <4>2. order[t] # "none"
        BY <1>0, <4>1 DEF QuotaInv, ReconcilerOK, SortingOK
      <4> QED BY <1>0, <2>0, <3>2, <4>1, <4>2, SettleGives
    <3> QED BY <3>1, <3>2
  <2>6. ASSUME NEW t \in Tickets, ReturnMissed(t) PROVE Moves
    <3>1. t \in Shut /\ ReturnScript(t)
      BY <1>0, <2>6 DEF ReturnMissed, QuotaInv, ReconcilerOK, SortingOK
    <3> QED BY <1>a, <2>0, <3>1, ReturnGives
  <2> QED BY <1>12, <2>1, <2>2, <2>3, <2>4, <2>5, <2>6 DEF ReconcileStep
<1> QED
  BY <1>1, <1>2, <1>3, <1>4, <1>5, <1>6, <1>7, <1>8, <1>9, <1>10, <1>11, <1>12, <1>13 DEF SeckillNext

\* What was deleted stays so.
LEMMA DeletedMoves ==
  ASSUME [SeckillNext]_allVars
  PROVE  UNCHANGED <<deleted, erased>> \/ \E t \in Tickets : DeleteClosed(t)
<1>1. CASE UNCHANGED allVars
  BY <1>1 DEF allVars, saleVars
<1>2. ASSUME NEW t \in Tickets, Grab(t) \/ GrabReplyLost(t) \/ RequestStep(t) \/ CancelSeckill(t)
                                \/ CloserStep(t) \/ Time(t)
      PROVE  UNCHANGED <<deleted, erased>>
  BY <1>2 DEF Grab, GrabReplyLost, RequestStep, ReleaseOnError, NoQuota, saleVars, CancelSeckill, CloserStep,
     ReturnQuota, Time
<1>3. ASSUME NEW w \in Workers, ConsumeStep(w) \/ RedeliveredOnce(w)
      PROVE  UNCHANGED <<deleted, erased>>
  BY <1>3 DEF ConsumeStep, RedeliveredOnce, NoQuota, saleVars, InsertSeckill, Occupy, OccupyFails, SettleSeckill,
     AbortSeckill
<1>4. CASE PreheatRead \/ PreheatWrite \/ RedisLosesKeys \/ ReconcileStep \/ ReconcilerStops
  BY <1>4 DEF PreheatRead, PreheatWrite, RedisLosesKeys, ReconcileStep, ReconcilerStops, TakeSnapshot, ReadView,
     ReleaseLeaked, FixDrift, CheckTicket, ReturnMissed, OnlyReconciler, saleVars
<1> QED
  BY <1>1, <1>2, <1>3, <1>4 DEF SeckillNext

LEMMA DeletedGrows ==
  ASSUME [SeckillNext]_allVars
  PROVE  deleted \subseteq deleted' /\ (~erased' => ~erased)
<1>1. CASE UNCHANGED <<deleted, erased>>
  BY <1>1
<1>2. ASSUME NEW t \in Tickets, DeleteClosed(t)
      PROVE  deleted \subseteq deleted' /\ (~erased' => ~erased)
  <2>1. deleted \subseteq deleted'
    BY <1>2 DEF DeleteClosed
  <2>2. ~erased' => ~erased
    BY <1>2, Zenon DEF DeleteClosed
  <2> QED BY <2>1, <2>2
<1> QED
  BY <1>1, <1>2, DeletedMoves

LEMMA CountBoth ==
  ASSUME NEW S \in SUBSET Tickets, NEW T \in SUBSET Tickets, S \cap T = {}
  PROVE  Cardinality(S \cup T) = Cardinality(S) + Cardinality(T)
<1>1. IsFiniteSet(S) /\ IsFiniteSet(T) /\ Cardinality(S) \in Nat /\ Cardinality(T) \in Nat
  BY TicketSets
<1>2. Cardinality(S \cup T) = Cardinality(S) + Cardinality(T) - Cardinality(S \cap T)
  BY <1>1, FS_Union
<1>3. Cardinality(S \cap T) = 0
  BY FS_EmptySet
<1> QED
  BY <1>1, <1>2, <1>3

LEMMA DecrGives ==
  ASSUME SaleTypeOK, NEW t \in Tickets, users[UserOf[t]] >= 1, DecrUser(UserOf[t])
  PROVE  \A u \in Users : users'[u] = IF u = UserOf[t] THEN users[u] - 1 ELSE users[u]
<1>1. \A u \in Users : users[u] \in Nat
  BY DEF SaleTypeOK, KeysTypeOK
<1> QED
  BY <1>1, UserType DEF DecrUser, SaleTypeOK, KeysTypeOK

\* What is out of stock and not sold.
Out == Midair \cup Due

LEMMA OutType == SaleTypeOK => Midair \in SUBSET Tickets /\ Due \in SUBSET Tickets /\ Out \in SUBSET Tickets
BY DEF Midair, Due, Shut, Out, SaleTypeOK, KeysTypeOK

LEMMA ExactOut ==
  ASSUME SaleTypeOK, Balanced
  PROVE  /\ Cardinality(Out) \in Nat /\ stock + Cardinality(Out) = Num - sold
         /\ \A u \in Users : users[u] = bought[u] + Cardinality(Of(u, Out)) /\ Cardinality(Of(u, Out)) \in Nat
<1>1. Midair \cap Due = {}
  BY DEF Midair, Due, Shut
<1>2. Cardinality(Out) = Cardinality(Midair) + Cardinality(Due)
  BY <1>1, OutType, CountBoth DEF Out
<1>3. Cardinality(Midair) \in Nat /\ Cardinality(Due) \in Nat /\ Cardinality(Out) \in Nat
  BY OutType, TicketSets
<1>4. \A u \in Users : Of(u, Out) \in SUBSET Tickets
  BY OutType DEF Of
<1>5. stock \in Int /\ stock + Cardinality(Midair) + Cardinality(Due) = Num - sold
  BY DEF Balanced, SaleTypeOK, KeysTypeOK
<1>6. stock + Cardinality(Out) = Num - sold
  BY <1>2, <1>3, <1>5
<1>7. \A u \in Users : users[u] = bought[u] + Cardinality(Of(u, Out))
  BY DEF Balanced, Out
<1> QED
  BY <1>3, <1>4, <1>6, <1>7, TicketSets

LEMMA OutExact ==
  ASSUME SaleTypeOK', stock' + Cardinality(Out') = Num - sold',
         \A u \in Users : users'[u] = bought'[u] + Cardinality(Of(u, Out'))
  PROVE  Balanced'
<1>0. Out' = Midair' \cup Due'
  BY DEF Out
<1>1. Midair' \cap Due' = {}
  BY DEF Midair, Due, Shut
<1>2. Midair' \in SUBSET Tickets /\ Due' \in SUBSET Tickets
  BY DEF Midair, Due, Shut, SaleTypeOK, KeysTypeOK
<1>3. Cardinality(Out') = Cardinality(Midair') + Cardinality(Due')
  BY <1>0, <1>1, <1>2, CountBoth
<1>4. Cardinality(Midair') \in Nat /\ Cardinality(Due') \in Nat
  BY <1>2, TicketSets
<1>5. stock' \in Int
  BY DEF SaleTypeOK, KeysTypeOK
<1>6. stock' + Cardinality(Midair') + Cardinality(Due') = Num - sold'
  BY <1>3, <1>4, <1>5
<1> QED
  BY <1>0, <1>6 DEF Balanced, Of

\* A quota goes out: into flight, or from an order that is closed.
LEMMA GoesOut ==
  ASSUME SaleTypeOK, SaleTypeOK', Balanced, NEW t \in Tickets, t \notin Out, Out' = Out \cup {t},
         \/ /\ stock' = stock - 1 /\ sold' = sold /\ bought' = bought
            /\ \A u \in Users : users'[u] = IF u = UserOf[t] THEN users[u] + 1 ELSE users[u]
         \/ /\ stock' = stock /\ sold' = sold - 1 /\ users' = users
            /\ \A u \in Users : bought'[u] = IF u = UserOf[t] THEN bought[u] - 1 ELSE bought[u]
  PROVE  Balanced'
<1>1. Cardinality(Out') = Cardinality(Out) + 1 /\ Cardinality(Out) \in Nat
  BY OutType, CountAdd, TicketSets
<1>2. stock \in Int /\ sold \in Int /\ Num \in Int
  BY NumAssumption DEF SaleTypeOK, KeysTypeOK, RowsTypeOK
<1>3. stock' + Cardinality(Out') = Num - sold'
  BY <1>1, <1>2, ExactOut
<1>4. ASSUME NEW u \in Users PROVE users'[u] = bought'[u] + Cardinality(Of(u, Out \cup {t}))
  <2>1. users[u] = bought[u] + Cardinality(Of(u, Out)) /\ users[u] \in Int /\ bought[u] \in Int
    BY ExactOut, NumAssumption DEF SaleTypeOK, KeysTypeOK, RowsTypeOK
  <2>2. /\ Cardinality(Of(u, Out)) \in Nat
        /\ Cardinality(Of(u, Out \cup {t})) =
             IF u = UserOf[t] THEN Cardinality(Of(u, Out)) + 1 ELSE Cardinality(Of(u, Out))
    BY OutType, UserAdd
  <2> QED BY <2>1, <2>2
<1> QED
  BY <1>3, <1>4, OutExact

\* A quota comes back into stock, or becomes an order.
LEMMA ComesBack ==
  ASSUME SaleTypeOK, SaleTypeOK', Balanced, NEW t \in Out, Out' = Out \ {t},
         \/ stock' = stock + 1 /\ sold' = sold /\ bought' = bought /\ DecrUser(UserOf[t])
         \/ /\ stock' = stock /\ sold' = sold + 1 /\ users' = users
            /\ \A u \in Users : bought'[u] = IF u = UserOf[t] THEN bought[u] + 1 ELSE bought[u]
  PROVE  Balanced'
<1>0. t \in Tickets /\ UserOf[t] \in Users
  BY OutType, UserType
<1>1. Cardinality(Out') = Cardinality(Out) - 1 /\ Cardinality(Out) \in Nat
  BY OutType, CountRemove, TicketSets
<1>2. stock \in Int /\ sold \in Int /\ Num \in Int
  BY NumAssumption DEF SaleTypeOK, KeysTypeOK, RowsTypeOK
<1>3. stock' + Cardinality(Out') = Num - sold'
  BY <1>1, <1>2, ExactOut
<1>4. \A u \in Users : /\ users[u] = bought[u] + Cardinality(Of(u, Out)) /\ users[u] \in Nat /\ bought[u] \in Nat
                       /\ Cardinality(Of(u, Out)) \in Nat
                       /\ u = UserOf[t] => Cardinality(Of(u, Out)) >= 1
                       /\ Cardinality(Of(u, Out \ {t})) =
                            IF u = UserOf[t] THEN Cardinality(Of(u, Out)) - 1 ELSE Cardinality(Of(u, Out))
  <2>1. ASSUME NEW u \in Users PROVE users[u] \in Nat /\ bought[u] \in 0..Limit
    BY DEF SaleTypeOK, KeysTypeOK, RowsTypeOK
  <2> QED BY <2>1, ExactOut, OutType, UserRemove, NumAssumption
<1>5. users[UserOf[t]] >= 1
  BY <1>0, <1>4
<1>6. ASSUME NEW u \in Users PROVE users'[u] = bought'[u] + Cardinality(Of(u, Out \ {t}))
  <2>0. /\ users[u] = bought[u] + Cardinality(Of(u, Out)) /\ users[u] \in Nat /\ bought[u] \in Nat
        /\ Cardinality(Of(u, Out)) \in Nat
        /\ u = UserOf[t] => Cardinality(Of(u, Out \ {t})) = Cardinality(Of(u, Out)) - 1
        /\ u # UserOf[t] => Cardinality(Of(u, Out \ {t})) = Cardinality(Of(u, Out))
    BY <1>4
  <2>1. CASE bought' = bought /\ DecrUser(UserOf[t])
    <3>1. users'[u] = IF u = UserOf[t] THEN users[u] - 1 ELSE users[u]
      BY <1>0, <1>5, <2>1, DecrGives
    <3>2. CASE u = UserOf[t]
      BY <2>0, <2>1, <3>1, <3>2
    <3>3. CASE u # UserOf[t]
      BY <2>0, <2>1, <3>1, <3>3
    <3> QED BY <3>2, <3>3
  <2>2. CASE users' = users /\ bought'[u] = IF u = UserOf[t] THEN bought[u] + 1 ELSE bought[u]
    BY <2>0, <2>2
  <2> QED BY <2>1, <2>2
<1> QED
  BY <1>3, <1>6, OutExact

LEMMA ExactStep ==
  ASSUME Inv, KeysKept, ~erased, [SeckillNext]_allVars, SaleTypeOK', live'
  PROVE  Balanced'
<1>0. SaleTypeOK /\ AsyncTypeOK /\ QuotaInv /\ (live => Balanced) /\ returned \subseteq Shut /\ DeletedReturned
  BY DEF Inv, AsyncInv, QuotaInv
<1>1. ASSUME Keeps, UNCHANGED <<order, sold, bought>> PROVE Balanced'
  <2>1. live /\ Balanced
    BY <1>0, <1>1 DEF Keeps, quotaKeys
  <2> QED BY <1>1, <2>1 DEF Keeps, quotaKeys, Balanced, Midair, Due, Shut, Of
<1>2. ASSUME UNCHANGED quotaVars, NEW w \in Workers, InsertSeckill(w) PROVE Balanced'
  <2>1. PICK t \in Tickets : t = worker[w].ticket /\ On(w, t)
    BY <1>0, <1>2, BusyAt DEF InsertSeckill, InsertOrder, At, On, WorkerStates
  <2>2. /\ order[t] = "none" /\ order' = [order EXCEPT ![t] = "WaitPay"]
        /\ sold' = sold + 1 /\ bought' = [bought EXCEPT ![UserOf[t]] = @ + 1]
        /\ UNCHANGED <<live, stock, users, inflight, returned>>
    BY <1>2, <2>1 DEF InsertSeckill, InsertOrder, Occupy, quotaVars, quotaKeys
  <2>3. worker[w].at = "insert"
    BY <1>2 DEF InsertSeckill, InsertOrder, At
  <2>4. t \in inflight
    BY <1>0, <2>1, <2>2, <2>3 DEF QuotaInv, QuotaOf, Coming
  <2>5. t \in Out /\ Out' = Out \ {t}
    BY <1>0, <2>2, <2>4 DEF Out, Midair, Due, Shut, AsyncTypeOK, SaleTypeOK, KeysTypeOK
  <2>6. \A u \in Users : bought'[u] = IF u = UserOf[t] THEN bought[u] + 1 ELSE bought[u]
    BY <1>0, <2>2 DEF SaleTypeOK, RowsTypeOK
  <2>7. live
    BY <2>2
  <2> QED BY <1>0, <2>2, <2>5, <2>6, <2>7, ComesBack
<1>3. ASSUME UNCHANGED quotaVars, NEW t \in Tickets, CancelSeckill(t) PROVE Balanced'
  <2>1. /\ order[t] = "WaitPay" /\ order' = [order EXCEPT ![t] = "Closed"]
        /\ sold' = IF sold >= 1 THEN sold - 1 ELSE sold
        /\ bought' = [bought EXCEPT ![UserOf[t]] = IF @ >= 1 THEN @ - 1 ELSE @]
        /\ UNCHANGED <<live, stock, users, inflight, returned>>
    BY <1>3 DEF CancelSeckill, CancelTx, quotaVars, quotaKeys
  <2>2. Open \in SUBSET Tickets /\ t \in Open
    BY <2>1 DEF Open
  <2>3. Cardinality(Open) >= 1 /\ Cardinality(Of(UserOf[t], Open)) >= 1 /\ UserOf[t] \in Users
    BY <2>2, CountRemove, UserType, UserRemove
  <2>4. sold >= 1 /\ bought[UserOf[t]] >= 1
    BY <2>3 DEF Inv, DBGuards
  <2>5. t \notin Out /\ Out' = Out \cup {t}
    <3>1. t \notin returned
      BY <1>0, <2>1 DEF Shut
    <3> QED BY <1>0, <2>1, <3>1 DEF Out, Midair, Due, Shut, AsyncTypeOK, SaleTypeOK, KeysTypeOK
  <2>6. sold' = sold - 1
    BY <2>1, <2>4
  <2>7. \A u \in Users : bought'[u] = IF u = UserOf[t] THEN bought[u] - 1 ELSE bought[u]
    BY <1>0, <2>1, <2>4 DEF SaleTypeOK, RowsTypeOK
  <2>8. live
    BY <2>1
  <2> QED BY <1>0, <2>1, <2>5, <2>6, <2>7, <2>8, GoesOut
<1>4. ASSUME NEW t \in Tickets, Grabs(t) PROVE Balanced'
  <2>1. /\ live /\ stock' = stock - 1 /\ inflight' = inflight \cup {t}
        /\ users' = [users EXCEPT ![UserOf[t]] = @ + 1]
        /\ UNCHANGED <<returned, order, sold, bought>> /\ enqueuer[t] = "idle"
    BY <1>4 DEF Grabs, GrabScript
  <2>2. t \notin inflight /\ order[t] = "none"
    BY <1>0, <2>1 DEF QuotaInv, QuotaOf, KeysKept, Inv, AsyncInv, Courses, Course
  <2>3. t \notin Out /\ Out' = Out \cup {t}
    BY <2>1, <2>2 DEF Out, Midair, Due, Shut
  <2>4. \A u \in Users : users'[u] = IF u = UserOf[t] THEN users[u] + 1 ELSE users[u]
    BY <1>0, <2>1 DEF SaleTypeOK, KeysTypeOK
  <2> QED BY <1>0, <2>1, <2>3, <2>4, GoesOut
<1>5. ASSUME NEW t \in Tickets, GivesBack(t) PROVE Balanced'
  <2>1. order[t] = "none"
    BY <1>0, <1>5 DEF GivesBack, Forgone, DeletedReturned, GivenUp
  <2>2. t \in Out /\ Out' = Out \ {t}
    BY <1>5, <2>1 DEF GivesBack, Out, Midair, Due, Shut
  <2> QED BY <1>0, <1>5, <2>2, ComesBack DEF GivesBack
<1>6. ASSUME NEW t \in Tickets, Settles(t) PROVE Balanced'
  <2>1. Midair' = Midair /\ Due' = Due
    BY <1>6 DEF Settles, Midair, Due, Shut
  <2>2. Balanced /\ UNCHANGED <<stock, users, sold, bought>>
    BY <1>0, <1>6 DEF Settles
  <2> QED BY <2>1, <2>2 DEF Balanced, Of
<1>7. ASSUME NEW t \in Tickets, Returns(t) PROVE Balanced'
  <2>1. order[t] = "Closed"
    BY <1>7 DEF Returns, Shut
  <2>2. t \in Out /\ Out' = Out \ {t}
    BY <1>7, <2>1 DEF Returns, Out, Midair, Due, Shut
  <2> QED BY <1>0, <1>7, <2>2, ComesBack DEF Returns
<1>8. CASE Preheats
  <2>1. sold = 0 /\ bought = [u \in Users |-> 0] /\ \A t \in Tickets : order[t] = "none"
    BY <1>0, <1>8 DEF QuotaInv, Preheats, Pristine
  <2>2. Out' = {} /\ \A u \in Users : Of(u, Out') = {}
    BY <1>8, <2>1 DEF Preheats, Out, Midair, Due, Shut, Of
  <2>3. stock' = Num /\ sold' = 0 /\ \A u \in Users : users'[u] = 0 /\ bought'[u] = 0
    BY <1>8, <2>1 DEF Preheats
  <2>4. stock' + Cardinality(Out') = Num - sold'
    BY <2>2, <2>3, FS_EmptySet, NumAssumption
  <2>5. \A u \in Users : users'[u] = bought'[u] + Cardinality(Of(u, Out'))
    BY <2>2, <2>3, FS_EmptySet
  <2> QED BY <2>4, <2>5, OutExact
<1>9. Keeps /\ ~UNCHANGED <<order, sold, bought>> => UNCHANGED quotaVars
  BY DEF Keeps, quotaVars
<1>10. ~Fixes
  BY DEF Fixes
<1> QED
  BY <1>1, <1>2, <1>3, <1>4, <1>5, <1>6, <1>7, <1>8, <1>9, <1>10, QuotaMoves DEF Keeps

\* A request starts with its grab.
LEMMA StartsWithGrab ==
  ASSUME AsyncTypeOK, [SeckillNext]_allVars, NEW t \in Tickets, enqueuer[t] = "idle", enqueuer'[t] # "idle"
  PROVE  GrabScript(t)
<1>1. CASE UNCHANGED allVars
  BY <1>1 DEF allVars, vars
<1>2. ASSUME NEW u \in Tickets, Grab(u) \/ GrabReplyLost(u) PROVE GrabScript(t)
  BY <1>2 DEF Grab, GrabReplyLost, Arrive, EnqueueGoes, AsyncTypeOK
<1>3. ASSUME NEW u \in Tickets, RequestStep(u) PROVE FALSE
  <2>1. enqueuer[u] # "idle"
    BY <1>3 DEF RequestStep, ReserveStock, MarkInflight, PutPending, Publish, UndoRelease, UndoUnmark,
       PutPublishFailed, EnqueuerDies, ReleaseOnError, ReturnError, EnqueueGoes
  <2>2. RequestMoves(u)
    BY <1>3 DEF RequestStep, ReleaseOnError, RequestMoves
  <2> QED BY <2>1, <2>2, RequestFacts
<1>4. ASSUME NEW u \in Tickets, CancelSeckill(u) \/ CloserStep(u) \/ Time(u) PROVE FALSE
  <2>1. OrderMoves(u)
    BY <1>4 DEF CancelSeckill, CloserStep, Time, ReturnQuota, OrderMoves
  <2> QED BY <2>1, OrderFacts
<1>5. ASSUME NEW w \in Workers, ConsumeStep(w) \/ RedeliveredOnce(w) PROVE FALSE
  BY <1>5 DEF ConsumeStep, RedeliveredOnce, InsertSeckill, OccupyFails, SettleSeckill, AbortSeckill, Deliver, Redelivered,
     Lookup, InsertOrder, InsertFails, Recheck, Unmark, ReleaseOnAbort, PutResult, Settle, Abort, WorkOnly
<1>6. CASE PreheatRead \/ PreheatWrite \/ RedisLosesKeys \/ ReconcileStep \/ ReconcilerStops
  BY <1>6 DEF PreheatRead, PreheatWrite, RedisLosesKeys, ReconcileStep, ReconcilerStops, TakeSnapshot, ReadView,
     ReleaseLeaked, FixDrift, CheckTicket, ReturnMissed, OnlyReconciler, vars
<1>7. ASSUME NEW u \in Tickets, DeleteClosed(u) PROVE FALSE
  BY <1>7 DEF DeleteClosed, vars
<1> QED
  BY <1>1, <1>2, <1>3, <1>4, <1>5, <1>6, <1>7 DEF SeckillNext

\* Quotas come into flight with their requests, and leave it when no order
\* can come of the ticket any more.
LEMMA InflightMoves ==
  ASSUME Inv, KeysKept, [SeckillNext]_allVars, NEW t \in Tickets
  PROVE  /\ t \in inflight' /\ t \notin inflight => Grabs(t)
         /\ t \in inflight /\ t \notin inflight' => ~Coming(t) /\ enqueuer[t] \notin Starting
<1>0. Course(t) /\ AgesOK
  BY DEF Inv, AsyncInv, Courses, KeysKept
<1>1. CASE Keeps
  BY <1>1 DEF Keeps, quotaKeys
<1>2. CASE Preheats
  BY <1>2 DEF Preheats, Inv, QuotaInv, Pristine
<1>3. ASSUME NEW u \in Tickets, Grabs(u)
      PROVE  inflight' = inflight \cup {u}
  BY <1>3 DEF Grabs, GrabScript
<1>4. ASSUME NEW u \in Tickets, GivesBack(u)
      PROVE  inflight' = inflight \ {u} /\ ~Coming(u) /\ enqueuer[u] \notin Starting
  BY <1>4, GivenUpNotComing DEF GivesBack
<1>5. ASSUME NEW u \in Tickets, Settles(u)
      PROVE  inflight' = inflight \ {u} /\ ~Coming(u) /\ enqueuer[u] \notin Starting
  BY <1>5 DEF Settles, Coming, Starting, Inv, AsyncInv, Courses, Course, KeysKept
<1>6. ASSUME NEW u \in Tickets, Returns(u)
      PROVE  inflight' = inflight
  BY <1>6 DEF Returns
<1>7. CASE Fixes
  BY <1>7 DEF Fixes
<1> QED
  BY <1>1, <1>2, <1>3, <1>4, <1>5, <1>6, <1>7, QuotaMoves

LEMMA QuotaOfStep ==
  ASSUME Inv, KeysKept, [SeckillNext]_allVars, NEW t \in Tickets
  PROVE  QuotaOf(t)'
<1>0. AsyncTypeOK /\ Courses /\ HandledOnce /\ [AsyncNext]_vars /\ QuotaOf(t)
  BY AsyncPart DEF Inv, AsyncInv, KeysKept, QuotaInv
<1>1. ASSUME Coming(t)' \/ enqueuer'[t] \in {"reserve", "mark", "put", "publish"}
      PROVE  t \in inflight'
  <2>1. CASE Coming(t) \/ enqueuer[t] \in {"reserve", "mark", "put", "publish"}
    BY <1>0, <2>1, InflightMoves DEF QuotaOf, Starting
  <2>2. CASE ~(Coming(t) \/ enqueuer[t] \in {"reserve", "mark", "put", "publish"})
    <3>1. ~Coming(t)' /\ Arrive(t)
      BY <1>0, <1>1, <2>2, ComingStep, EnqueuerMoves DEF PutPending, MarkInflight, EnqueueGoes
    <3>2. enqueuer[t] = "idle" /\ enqueuer'[t] # "idle"
      BY <1>0, <3>1 DEF Arrive, EnqueueGoes, AsyncTypeOK
    <3>3. GrabScript(t)
      BY <1>0, <3>2, StartsWithGrab
    <3> QED BY <3>3 DEF GrabScript
  <2> QED BY <2>1, <2>2
<1>2. ASSUME enqueuer'[t] = "idle" PROVE t \notin inflight'
  <2>1. enqueuer[t] = "idle" /\ t \notin inflight
    BY <1>0, <1>2, EnqueuerMoves DEF QuotaOf
  <2> QED BY <1>2, <2>1, InflightMoves DEF Grabs
<1> QED
  BY <1>1, <1>2 DEF QuotaOf

LEMMA LimitsStep ==
  ASSUME Inv, KeysKept, ~erased, [SeckillNext]_allVars
  PROVE  WithinLimits'
<1>0. /\ SaleTypeOK /\ stock >= 0 /\ \A u \in Users : users[u] <= Limit
      /\ stock \in Int /\ Num \in Nat /\ Limit \in Nat
  BY NumAssumption DEF Inv, KeysKept, QuotaInv, WithinLimits, SaleTypeOK, KeysTypeOK
<1>a. \A u \in Users : users[u] \in Nat
  BY <1>0 DEF SaleTypeOK, KeysTypeOK
<1>b. ASSUME NEW t \in Tickets, DecrUser(UserOf[t]) PROVE \A u \in Users : users'[u] <= Limit
  <2>1. \A u \in Users : users'[u] = users[u] \/ users'[u] = users[u] - 1 \/ users'[u] = 0
    BY <1>0, <1>b, UserType DEF DecrUser, SaleTypeOK, KeysTypeOK
  <2> QED BY <1>0, <1>a, <2>1
<1>1. CASE Keeps
  BY <1>0, <1>1 DEF Keeps, quotaKeys, WithinLimits
<1>2. CASE Preheats
  BY <1>0, <1>2 DEF Preheats, WithinLimits
<1>3. ASSUME NEW t \in Tickets, Grabs(t) PROVE WithinLimits'
  <2>1. stock > 0 /\ stock' = stock - 1 /\ users[UserOf[t]] < Limit
        /\ users' = [users EXCEPT ![UserOf[t]] = @ + 1]
    BY <1>3 DEF Grabs, GrabScript
  <2>2. \A u \in Users : users'[u] = IF u = UserOf[t] THEN users[u] + 1 ELSE users[u]
    BY <1>0, <2>1 DEF SaleTypeOK, KeysTypeOK
  <2>3. \A u \in Users : users'[u] <= Limit
    BY <1>0, <1>a, <2>1, <2>2
  <2> QED BY <1>0, <2>1, <2>3 DEF WithinLimits
<1>4. ASSUME NEW t \in Tickets, GivesBack(t) \/ Returns(t) PROVE WithinLimits'
  BY <1>0, <1>b, <1>4 DEF GivesBack, Returns, WithinLimits
<1>5. ASSUME NEW t \in Tickets, Settles(t) PROVE WithinLimits'
  BY <1>0, <1>5 DEF Settles, WithinLimits
<1>6. ~Fixes
  BY DEF Fixes
<1> QED
  BY <1>1, <1>2, <1>3, <1>4, <1>5, <1>6, QuotaMoves

\* No refusal of the DB: a delivery keeps the cause "none" it began with.
LEMMA GoesCause ==
  ASSUME AsyncTypeOK, NEW w \in Workers, worker[w].at \in WorkerStates, NEW s \in WorkerStates, Goes(w, s)
  PROVE  worker'[w].cause = worker[w].cause /\ Busy(w)
<1>1. worker[w] \in Delivery /\ Busy(w)
  BY BusyAt
<1>2. worker' = [worker EXCEPT ![w] = [worker[w] EXCEPT !.at = s]]
  BY <1>1 DEF Goes, AsyncTypeOK
<1>3. worker'[w] = [worker[w] EXCEPT !.at = s]
  BY <1>2 DEF AsyncTypeOK
<1> QED
  BY <1>1, <1>3 DEF Delivery

LEMMA RefusalStep ==
  ASSUME Inv, KeysKept, ~erased, [SeckillNext]_allVars
  PROVE  NoRefusal'
<1>0. AsyncTypeOK /\ NoRefusal /\ HandledOnce /\ [AsyncNext]_vars
  BY AsyncPart DEF Inv, AsyncInv, KeysKept, QuotaInv
<1>1. CASE UNCHANGED worker
  BY <1>0, <1>1 DEF NoRefusal, Busy
<1>2. ASSUME NEW w \in Workers, WorkerMoves(w), Busy(w)' => worker'[w].cause = NoCause
      PROVE  NoRefusal'
  BY <1>0, <1>2, WorkerAges DEF NoRefusal, Busy
<1>3. ASSUME NEW w \in Workers, ConsumeStep(w) PROVE NoRefusal'
  <2>1. WorkerMoves(w)
    <3>1. NoCause \in Causes \cup {NoCause} /\ "soldOut" \in Causes \cup {NoCause}
          /\ "limitExceeded" \in Causes \cup {NoCause}
      BY CausesAssumption
    <3> QED BY <1>3, <3>1 DEF ConsumeStep, InsertSeckill, OccupyFails, SettleSeckill, AbortSeckill, WorkerMoves
  <2>2. CASE Deliver(w)
    <3>1. PICK t \in queue : worker' = [worker EXCEPT ![w] = [at |-> "lookup", ticket |-> t,
                                                             holds |-> TRUE, cause |-> NoCause]]
      BY <2>2 DEF Deliver
    <3>2. worker'[w].cause = NoCause
      BY <1>0, <3>1 DEF AsyncTypeOK
    <3> QED BY <1>2, <2>1, <3>2
  <2>3. ASSUME NEW s \in WorkerStates, worker[w].at \in WorkerStates, Goes(w, s) PROVE NoRefusal'
    BY <1>0, <1>2, <2>1, <2>3, GoesCause DEF NoRefusal
  <2>4. ASSUME Busy(w), Ends(w) PROVE NoRefusal'
    BY <1>0, <1>2, <2>1, <2>4, EndsOver DEF Over
  <2>5. CASE Lookup(w) \/ Recheck(w)
    <3>1. worker[w].at \in WorkerStates /\ (Ends(w) \/ \E s \in WorkerStates : Goes(w, s))
      BY <2>5 DEF Lookup, Recheck, At, WorkerStates
    <3> QED BY <1>0, <2>3, <2>4, <3>1, BusyAt
  <2>6. CASE Unmark(w) \/ ReleaseOnAbort(w) \/ InsertSeckill(w) \/ SettleSeckill(w) \/ AbortSeckill(w)
    <3>1. worker[w].at \in WorkerStates /\ \E s \in WorkerStates : Goes(w, s)
      BY <2>6 DEF Unmark, ReleaseOnAbort, InsertSeckill, InsertOrder, SettleSeckill, Settle, AbortSeckill, Abort,
         At, WorkerStates
    <3> QED BY <2>3, <3>1
  <2>7. CASE PutResult(w)
    <3>1. Busy(w) /\ Ends(w)
      BY <1>0, <2>7, BusyAt DEF PutResult, WorkerStates
    <3> QED BY <2>4, <3>1
  <2>8. CASE InsertFails(w, NoCause)
    <3>1. worker[w] \in Delivery /\ worker' = [worker EXCEPT ![w].at = "recheck", ![w].cause = NoCause]
      BY <1>0, <2>8, BusyAt DEF InsertFails, At, WorkerStates
    <3>2. worker'[w] = [worker[w] EXCEPT !.at = "recheck", !.cause = NoCause]
      BY <1>0, <3>1 DEF AsyncTypeOK
    <3>3. worker'[w].cause = NoCause
      BY <3>1, <3>2 DEF Delivery
    <3> QED BY <1>2, <2>1, <3>3
  <2>9. CASE OccupyFails(w)
    <3>1. worker[w].at = "insert" /\ order[worker[w].ticket] = "none" /\ worker[w].ticket \in Tickets
      BY <1>0, <2>9, BusyAt DEF OccupyFails, At, WorkerStates
    <3>2. sold + 1 <= Num /\ bought[UserOf[worker[w].ticket]] + 1 <= Limit
      BY <3>1, NotRefused
    <3>3. sold \in Int /\ Num \in Int /\ bought[UserOf[worker[w].ticket]] \in Int /\ Limit \in Int
      <4>1. bought[UserOf[worker[w].ticket]] \in 0..Limit
        BY <3>1, UserType DEF Inv, SaleTypeOK, RowsTypeOK
      <4> QED BY <4>1, NumAssumption DEF Inv, SaleTypeOK, RowsTypeOK
    <3> QED BY <2>9, <3>2, <3>3 DEF OccupyFails
  <2> QED BY <1>3, <2>2, <2>5, <2>6, <2>7, <2>8, <2>9 DEF ConsumeStep
<1>4. ASSUME NEW w \in Workers, RedeliveredOnce(w) PROVE FALSE
  BY <1>0, <1>4 DEF RedeliveredOnce, Redelivered, HandledOnce
<1>5. ASSUME NEW t \in Tickets, Grab(t) \/ GrabReplyLost(t) \/ RequestStep(t) \/ CancelSeckill(t)
                                \/ CloserStep(t) \/ Time(t)
      PROVE  UNCHANGED worker
  <2>1. CASE Grab(t) \/ GrabReplyLost(t) \/ RequestStep(t)
    BY <2>1 DEF Grab, GrabReplyLost, RequestStep, ReleaseOnError, EnqueueOnly, Arrive, ReserveStock,
       MarkInflight, PutPending, Publish, UndoRelease, UndoUnmark, PutPublishFailed, EnqueuerDies, ReturnError
  <2>2. CASE CancelSeckill(t) \/ CloserStep(t) \/ Time(t)
    BY <2>2 DEF CancelSeckill, CloserStep, ReturnQuota, Time, CloseOnly, CancelTx, ReleaseOnCancel, CloserDies, Return,
       GrowsOld, Expire
  <2> QED BY <1>5, <2>1, <2>2
<1>7. ASSUME NEW t \in Tickets, DeleteClosed(t) PROVE UNCHANGED worker
  BY <1>7 DEF DeleteClosed, vars
<1>6. CASE PreheatRead \/ PreheatWrite \/ RedisLosesKeys \/ ReconcileStep \/ ReconcilerStops \/ UNCHANGED allVars
  BY <1>1, <1>6 DEF PreheatRead, PreheatWrite, RedisLosesKeys, ReconcileStep, ReconcilerStops, TakeSnapshot, ReadView,
     ReleaseLeaked, FixDrift, CheckTicket, ReturnMissed, OnlyReconciler, vars, allVars
<1> QED
  BY <1>1, <1>3, <1>4, <1>5, <1>6, <1>7 DEF SeckillNext

LEMMA ClosedStays ==
  ASSUME AsyncTypeOK, [AsyncNext]_vars, NEW t \in Tickets
  PROVE  /\ order[t] = "Closed" => order'[t] = "Closed"
         /\ order[t] # "none" => order'[t] # "none"
         /\ AgesOK /\ age[t] = "expired" /\ order[t] = "none" => order'[t] = "none"
<1>1. CASE UNCHANGED order
  BY <1>1
<1>2. ASSUME NEW u \in Tickets, OrderMoves(u) PROVE order'[t] = "none" <=> order[t] = "none"
  BY <1>2, OrderFacts
<1>3. ASSUME NEW u \in Tickets, OrderMoves(u), order[t] = "Closed" PROVE order'[t] = "Closed"
  BY <1>3, OrderFacts
<1>4. ASSUME NEW w \in Workers, WorkerMoves(w), order'[t] # order[t]
      PROVE  order[t] = "none" /\ On(w, t) /\ worker[w].at = "insert"
  <2>1. ~Deliver(w) /\ ~Redelivered(w)
    BY <1>4 DEF Deliver, Redelivered
  <2>2. At(w, "insert") /\ order[worker[w].ticket] = "none" /\ order' = [order EXCEPT ![worker[w].ticket] = "WaitPay"]
        /\ Busy(w)
    BY <1>4, <2>1, Stages
  <2> QED BY <1>4, <2>2 DEF AsyncTypeOK, On, At
<1>5. \/ UNCHANGED order
      \/ \E u \in Tickets : OrderMoves(u)
      \/ \E w \in Workers : WorkerMoves(w)
  BY RequestFacts DEF AsyncNext, vars
<1> QED
  BY <1>1, <1>2, <1>3, <1>4, <1>5 DEF AgesOK

LEMMA ReturnedStep ==
  ASSUME Inv, KeysKept, [SeckillNext]_allVars
  PROVE  returned' \subseteq Shut' /\ deleted' \subseteq Shut'
<1>0. AsyncTypeOK /\ [AsyncNext]_vars /\ returned \subseteq Shut /\ deleted \subseteq Shut
  BY AsyncPart DEF Inv, AsyncInv, KeysKept, QuotaInv
<1>1. Shut \subseteq Shut'
  BY <1>0, ClosedStays DEF Shut
<1>2. returned' \subseteq Shut
  BY <1>0, QuotaMoves DEF Keeps, quotaKeys, Preheats, Grabs, GrabScript, GivesBack, Settles, Returns, Fixes
<1>3. deleted' \subseteq Shut
  BY <1>0, DeletedMoves DEF DeleteClosed, Closed, Shut
<1> QED
  BY <1>1, <1>2, <1>3

\* Where no order was deleted too early, the deleted ones owe nothing.
LEMMA DeletedStep ==
  ASSUME Inv, KeysKept, [SeckillNext]_allVars, ~erased'
  PROVE  DeletedReturned'
<1>0. ~erased /\ DeletedReturned /\ deleted \subseteq Shut /\ Courses /\ HandledOnce /\ QuotaInv
  BY DeletedGrows DEF Inv, AsyncInv, KeysKept, QuotaInv
<1>1. ASSUME NEW t \in Tickets, DeleteClosed(t) PROVE DeletedReturned'
  BY <1>0, <1>1 DEF DeleteClosed, DeletedReturned, quotaVars, quotaKeys
<1>2. CASE UNCHANGED <<deleted, erased>>
  <2>1. CASE Keeps
    BY <1>0, <1>2, <2>1 DEF Keeps, quotaKeys, DeletedReturned
  <2>2. CASE Preheats
    BY <1>0, <1>2, <2>2 DEF Preheats, QuotaInv, Pristine, DeletedReturned
  <2>3. ASSUME NEW t \in Tickets, Grabs(t) PROVE DeletedReturned'
    <3>1. order[t] = "none" /\ inflight' = inflight \cup {t} /\ returned' = returned
      BY <1>0, <2>3 DEF Courses, Course, Grabs, GrabScript
    <3>2. t \notin deleted
      BY <1>0, <3>1 DEF Shut
    <3> QED BY <1>0, <1>2, <3>1, <3>2 DEF DeletedReturned
  <2>4. ASSUME NEW t \in Tickets, GivesBack(t) \/ Settles(t) \/ Returns(t) PROVE DeletedReturned'
    BY <1>0, <1>2, <2>4 DEF GivesBack, Settles, Returns, DeletedReturned
  <2>5. ~Fixes
    BY <1>0 DEF Fixes
  <2> QED BY <2>1, <2>2, <2>3, <2>4, <2>5, QuotaMoves
<1> QED
  BY <1>1, <1>2, DeletedMoves

\* Without its stock key the sale does not begin.
LEMMA PristineStep ==
  ASSUME Inv, KeysKept, [SeckillNext]_allVars, ~live'
  PROVE  Pristine'
<1>0. AsyncTypeOK /\ Courses /\ HandledOnce /\ live \in BOOLEAN
  BY DEF Inv, AsyncInv, KeysKept, SaleTypeOK, KeysTypeOK
<1>1. ~live /\ Pristine
  <2>1. ~live
    BY QuotaMoves DEF Keeps, quotaKeys, Preheats, Grabs, GrabScript, GivesBack, Settles, Returns, Fixes, Inv, QuotaInv,
       Pristine
  <2> QED BY <2>1 DEF Inv, QuotaInv
<1>2. /\ \A t \in Tickets : enqueuer[t] = "idle" /\ order[t] = "none" /\ closer[t] = "idle" /\ t \notin queue
      /\ \A w \in Workers : ~Busy(w)
      /\ reconciler = IdleReconciler /\ reconciler.at = "idle"
  <2>1. \A t \in Tickets : enqueuer[t] = "idle" /\ order[t] = "none" /\ Course(t)
    BY <1>0, <1>1 DEF Pristine, Courses
  <2>2. \A w \in Workers : Busy(w) => On(w, worker[w].ticket) /\ worker[w].ticket \in Tickets
    BY <1>0, BusyType DEF On
  <2> QED BY <1>1, <2>1, <2>2 DEF Course, Pristine, IdleReconciler
<1> DEFINE Still == UNCHANGED <<enqueuer, order, sold, bought, inflight, returned, reconciler, preheater>>
<1>3. Still => Pristine'
  BY <1>1 DEF Pristine
<1> HIDE DEF Still
<1>4. CASE UNCHANGED allVars
  <2>1. Still
    BY <1>4 DEF Still, allVars, vars, saleVars, quotaVars, quotaKeys, otherVars
  <2> QED BY <1>3, <2>1
<1>5. ASSUME NEW t \in Tickets, Grab(t) \/ GrabReplyLost(t) \/ RequestStep(t) PROVE FALSE
  <2>1. ~(Grab(t) \/ GrabReplyLost(t))
    BY <1>1 DEF Grab, GrabReplyLost, GrabScript
  <2> QED
    BY <1>2, <1>5, <2>1 DEF RequestStep, ReserveStock, MarkInflight, PutPending, Publish, UndoRelease, UndoUnmark,
       PutPublishFailed, EnqueuerDies, ReleaseOnError, ReturnError, EnqueueGoes
<1>6. ASSUME NEW t \in Tickets, CancelSeckill(t) \/ CloserStep(t) \/ DeleteClosed(t) PROVE FALSE
  BY <1>2, <1>6 DEF DeleteClosed, Closed, CancelSeckill, CancelTx, CloserStep, ReturnQuota, Return, ReleaseOnCancel, CloserDies
<1>7. ASSUME NEW t \in Tickets, Time(t) PROVE Pristine'
  <2>1. Still
    BY <1>7 DEF Still, Time, GrowsOld, Expire, NoQuota, saleVars, quotaVars, quotaKeys, otherVars
  <2> QED BY <1>3, <2>1
<1>8. ASSUME NEW w \in Workers, ConsumeStep(w) \/ RedeliveredOnce(w) PROVE FALSE
  <2>1. ~Deliver(w) /\ ~Redelivered(w)
    BY <1>0, <1>2 DEF Deliver, Redelivered, AsyncTypeOK
  <2>2. worker[w].at \notin WorkerStates
    BY <1>0, <1>2, BusyAt
  <2> QED
    BY <1>8, <2>1, <2>2 DEF ConsumeStep, RedeliveredOnce, InsertSeckill, OccupyFails, SettleSeckill, AbortSeckill,
       Lookup, InsertOrder, InsertFails, Recheck, Unmark, ReleaseOnAbort, PutResult, Settle, Abort, At, WorkerStates
<1>9. CASE PreheatRead
  <2>1. preheater' = {View({})} /\ UNCHANGED <<enqueuer, order, sold, bought, inflight, returned, reconciler>>
    BY <1>9 DEF PreheatRead, vars, saleVars, quotaVars, quotaKeys
  <2>2. View({}).sold = 0 /\ View({}).bought = [u \in Users |-> 0] /\ View({}).closed = {}
    BY <1>1 DEF View, Closed, Pristine
  <2>3. \A v \in preheater' : v.sold = 0 /\ v.bought = [u \in Users |-> 0] /\ v.closed = {}
    BY <2>1, <2>2
  <2> QED BY <1>1, <2>1, <2>3 DEF Pristine
<1>10. CASE PreheatWrite
  BY <1>1, <1>10 DEF PreheatWrite, PreheatScript
<1>11. CASE RedisLosesKeys
  BY <1>11 DEF RedisLosesKeys, KeysKept
<1>12. CASE ReconcileStep \/ ReconcilerStops
  BY <1>1, <1>2, <1>12 DEF ReconcileStep, ReconcilerStops, TakeSnapshot, ReadView, ReleaseLeaked, FixDrift, CheckTicket,
     ReturnMissed
<1> QED
  BY <1>4, <1>5, <1>6, <1>7, <1>8, <1>9, <1>10, <1>11, <1>12 DEF SeckillNext

-----------------------------------------------------------------------------
(* The reconciliation acts on what is still true *)

\* What it does while others move.
LEMMA ReconcilerRests ==
  ASSUME AsyncTypeOK, [SeckillNext]_allVars
  PROVE  \/ ReconcileStep \/ ReconcilerStops
         \/ /\ reconciler' = reconciler
            /\ \A t \in Tickets : age'[t] = "expired" /\ age[t] = "stale"
                                    => reconciler.at \notin {"tickets", "release"}
<1>1. CASE UNCHANGED allVars
  BY <1>1 DEF allVars, otherVars, vars, ticketVars
<1>2. ASSUME NEW t \in Tickets, Grab(t) \/ GrabReplyLost(t) \/ RequestStep(t)
      PROVE  UNCHANGED <<reconciler, age>>
  BY <1>2 DEF Grab, GrabReplyLost, RequestStep, ReleaseOnError, NoQuota, otherVars, EnqueueOnly, Arrive, ReserveStock,
     MarkInflight, PutPending, Publish, UndoRelease, UndoUnmark, PutPublishFailed, EnqueuerDies, ReturnError
<1>7. ASSUME NEW t \in Tickets, DeleteClosed(t) PROVE UNCHANGED <<reconciler, age>>
  BY <1>7 DEF DeleteClosed, otherVars, vars, ticketVars
<1>3. ASSUME NEW t \in Tickets, CancelSeckill(t) \/ CloserStep(t) PROVE UNCHANGED <<reconciler, age>>
  BY <1>3 DEF CancelSeckill, CloserStep, ReturnQuota, NoQuota, otherVars, CloseOnly, ticketVars, CancelTx, ReleaseOnCancel,
     CloserDies, Return
<1>4. ASSUME NEW t \in Tickets, Time(t)
      PROVE  /\ reconciler' = reconciler
             /\ \A u \in Tickets : age'[u] = "expired" /\ age[u] = "stale"
                                     => reconciler.at \notin {"tickets", "release"}
  <2>1. reconciler' = reconciler
    BY <1>4 DEF Time, NoQuota, otherVars
  <2>2. CASE GrowsOld(t)
    <3>1. ASSUME NEW u \in Tickets, u # t PROVE ~(age'[u] = "expired" /\ age[u] = "stale")
      BY <2>2, <3>1 DEF GrowsOld, AsyncTypeOK
    <3> QED BY <1>4, <2>1, <3>1 DEF Time
  <2>3. CASE Expire(t)
    BY <1>4, <2>1, <2>3 DEF Expire
  <2> QED BY <1>4, <2>2, <2>3 DEF Time
<1>5. ASSUME NEW w \in Workers, ConsumeStep(w) \/ RedeliveredOnce(w) PROVE UNCHANGED <<reconciler, age>>
  BY <1>5 DEF ConsumeStep, RedeliveredOnce, InsertSeckill, OccupyFails, SettleSeckill, AbortSeckill, NoQuota, otherVars,
     Deliver, Redelivered, Lookup, InsertOrder, InsertFails, Recheck, Unmark, ReleaseOnAbort, PutResult, Settle, Abort,
     WorkOnly
<1>6. CASE PreheatRead \/ PreheatWrite \/ RedisLosesKeys
  BY <1>6 DEF PreheatRead, PreheatWrite, RedisLosesKeys, vars, ticketVars
<1> QED
  BY <1>1, <1>2, <1>3, <1>4, <1>5, <1>6, <1>7 DEF SeckillNext

LEMMA SortingStays ==
  ASSUME Inv, [AsyncNext]_vars, deleted \subseteq deleted', NEW r \in Sorting, SortingOK(r),
         \A t \in Tickets : age'[t] = "expired" => age[t] = "expired"
  PROVE  SortingOK(r)'
<1>1. AsyncTypeOK /\ AgesOK
  BY DEF Inv, AsyncInv
<1>2. r.owed \subseteq Tickets /\ r.flying \subseteq Tickets
  BY DEF Sorting
<1>3. r.owed \subseteq Shut'
  BY <1>1, <1>2, ClosedStays DEF SortingOK, Shut
<1>4. \A t \in r.flying : enqueuer'[t] # "idle"
  BY <1>1, <1>2, EnqueuerMoves DEF SortingOK
<1>5. \A t \in r.flying \cap r.settled : order'[t] # "none"
  BY <1>1, <1>2, ClosedStays DEF SortingOK
<1>6. \A t \in r.flying \ r.settled : age'[t] = "expired" => NoRow(t)'
  <2> SUFFICES ASSUME NEW t \in r.flying \ r.settled, age'[t] = "expired" PROVE NoRow(t)'
    OBVIOUS
  <2>1. t \in Tickets /\ age[t] = "expired" /\ NoRow(t)
    BY <1>2 DEF SortingOK
  <2>2. order[t] = "none" => order'[t] = "none"
    BY <1>1, <2>1, ClosedStays
  <2> QED BY <2>1, <2>2 DEF NoRow
<1> QED
  BY <1>3, <1>4, <1>5, <1>6 DEF SortingOK

\* A ticket that the reconciliation takes for a leak will never be an order.
LEMMA LeakedGivenUp ==
  ASSUME Inv, KeysKept, NEW t \in Tickets, enqueuer[t] # "idle", age[t] = "expired" => NoRow(t), Leaked(t)
  PROVE  Forgone(t)
<1> SUFFICES ASSUME t \notin deleted PROVE GivenUp(t)
  BY DEF Forgone
<1>1. TicketOK(t) /\ AgesOK /\ Course(t)
  BY DEF Inv, AsyncInv, TicketsOK, Told, KeysKept, Courses
<1>2. CASE status[t] = "failed"
  BY <1>1, <1>2 DEF TicketOK
<1>3. CASE status[t] = "none" /\ enqueuer[t] \notin {"reserve", "mark", "put"}
  <2>1. enqueuer[t] \notin Starting
    BY <1>1, <1>3 DEF TicketOK, Starting
  <2>2. age[t] = "expired" \/ NeverPublished(t)
    BY <1>1, <1>3 DEF TicketOK
  <2> QED BY <2>1, <2>2 DEF GivenUp, NeverPublished, NoRow
<1> QED
  BY <1>2, <1>3 DEF Leaked, OrphanGraceOver

LEMMA ForgoneStays ==
  ASSUME Inv, KeysKept, [SeckillNext]_allVars, NEW t \in Tickets, Forgone(t)
  PROVE  Forgone(t)'
<1>1. AsyncTypeOK /\ Courses /\ HandledOnce /\ AgesOK /\ [AsyncNext]_vars
  BY AsyncPart DEF Inv, AsyncInv, KeysKept
<1> QED
  BY <1>1, GivenUpStays, DeletedGrows DEF Forgone

\* A view that was read while the version did not move agrees with Redis.
LEMMA ViewAgrees ==
  ASSUME Inv, KeysKept, ~erased, live
  PROVE  NoDrift(Snapshot, View(inflight))
<1>1. Balanced /\ SaleTypeOK /\ DeletedReturned
  BY DEF Inv, QuotaInv
<1>2. PICK s, v : s = Snapshot /\ v = View(inflight)
  OBVIOUS
<1>3. /\ s.inflight = inflight /\ s.returned = returned /\ s.stock = stock /\ s.users = users
      /\ v.sold = sold /\ v.bought = bought /\ v.settled = {t \in inflight : ~NoRow(t)} /\ v.closed = Shut \ deleted
  BY <1>2 DEF Snapshot, View, Closed, Shut
<1>4. Held(s, v) = Out
  BY <1>1, <1>3 DEF Held, Unsettled, Out, Midair, Due, DeletedReturned, NoRow
<1>5. Cardinality(Out) \in Nat /\ stock + Cardinality(Out) = Num - sold /\ stock \in Int /\ sold \in Int /\ Num \in Int
  BY <1>1, ExactOut, NumAssumption DEF SaleTypeOK, KeysTypeOK, RowsTypeOK
<1>6. (Num - v.sold) - Cardinality(Held(s, v)) - s.stock = 0
  BY <1>3, <1>4, <1>5
<1>7. \A u \in Users : v.bought[u] + Cardinality(Of(u, Held(s, v))) = s.users[u]
  BY <1>1, <1>3, <1>4, ExactOut
<1> QED
  BY <1>2, <1>6, <1>7 DEF NoDrift

LEMMA ReconcilerTypeNext ==
  ASSUME SaleTypeOK'
  PROVE  /\ reconciler'.at = "view" => reconciler' \in Viewing
         /\ reconciler'.at = "tickets" => reconciler' \in Sorting
         /\ reconciler'.at = "release" => reconciler' \in Releasing
         /\ reconciler'.at = "fix" => reconciler' \in Fixing
<1> USE DEF IdleReconciler
<1>1. reconciler' \in {IdleReconciler} \cup Viewing \cup Sorting \cup Releasing \cup Repeating \cup Fixing
  BY DEF SaleTypeOK, ReconcilerTypeOK
<1>2. /\ \A r \in Viewing : r.at = "view"
      /\ \A r \in Sorting : r.at = "tickets"
      /\ \A r \in Releasing : r.at = "release"
      /\ \A r \in Repeating : r.at = "again"
      /\ \A r \in Fixing : r.at = "fix"
  BY DEF Viewing, Sorting, Releasing, Repeating, Fixing
<1>3. [at |-> "idle"].at = "idle"
  OBVIOUS
<1> QED
  BY <1>1, <1>2, <1>3

\* The parts of ReconcilerOK' for a reconciler that is (now) r.
LEMMA ReconcilerNow ==
  ASSUME NEW r, reconciler' = r,
         r.at = "view" => /\ r.snap.returned \subseteq Shut'
                          /\ \A t \in r.snap.inflight : enqueuer'[t] # "idle"
                          /\ ~touched' => r.snap = Snapshot',
         r.at = "tickets" => SortingOK(r)',
         r.at = "release" => Forgone(r.ticket)' /\ SortingOK(r.rest)',
         r.at = "fix" /\ ~erased' => NoDrift(r.snap, r.view)
  PROVE  ReconcilerOK'
BY DEF ReconcilerOK, SortingOK, NoRow, Forgone, GivenUp, NoDrift, Held, Unsettled, Of, On, Busy

LEMMA SnapshotStays ==
  ASSUME Inv, KeysKept, [SeckillNext]_allVars, ~TakeSnapshot, reconciler.at = "view", ~touched'
  PROVE  ~touched /\ UNCHANGED quotaKeys
<1>1. live
  BY DEF Inv, QuotaInv, Pristine, IdleReconciler
<1>2. CASE Keeps
  BY <1>2 DEF Keeps
<1>3. CASE Preheats
  BY <1>1, <1>3 DEF Preheats
<1>4. ASSUME NEW t \in Tickets, Grabs(t) \/ GivesBack(t) \/ Settles(t) \/ Returns(t) PROVE touched' = TRUE
  BY <1>4 DEF Grabs, GrabScript, Touch, GivesBack, Settles, Returns
<1>5. Fixes => touched' = TRUE
  BY DEF Fixes
<1> QED
  BY <1>2, <1>3, <1>4, <1>5, QuotaMoves

LEMMA ReconcilerStepOK ==
  ASSUME Inv, KeysKept, [SeckillNext]_allVars, SaleTypeOK'
  PROVE  ReconcilerOK'
<1>0. AsyncTypeOK /\ Courses /\ HandledOnce /\ AgesOK /\ [AsyncNext]_vars /\ SaleTypeOK /\ ReconcilerTypeOK
      /\ ReconcilerOK /\ returned \subseteq Shut /\ \A t \in Tickets : QuotaOf(t)
  BY AsyncPart DEF Inv, AsyncInv, KeysKept, SaleTypeOK, QuotaInv
<1>d. deleted \subseteq deleted' /\ (~erased' => ~erased)
  BY DeletedGrows
<1>a. PICK r : r = reconciler'
  OBVIOUS
<1>b. ASSUME r = IdleReconciler PROVE ReconcilerOK'
  BY <1>a, <1>b, ReconcilerNow DEF IdleReconciler
<1>c. ASSUME NEW p \in Sorting, SortingOK(p), r = p, UNCHANGED vars PROVE ReconcilerOK'
  <2>1. SortingOK(p)'
    <3>1. \A t \in Tickets : age'[t] = "expired" => age[t] = "expired"
      BY <1>c DEF vars, ticketVars
    <3> QED BY <1>0, <1>c, <1>d, <3>1, SortingStays
  <2>2. p.at = "tickets"
    BY DEF Sorting
  <2> QED BY <1>a, <1>c, <2>1, <2>2, ReconcilerNow
<1>1. CASE TakeSnapshot
  <2>1. PICK n : r = [at |-> "view", attempt |-> n, snap |-> Snapshot]
    BY <1>1, <1>a DEF TakeSnapshot
  <2>2. UNCHANGED <<vars, quotaKeys>>
    BY <1>1 DEF TakeSnapshot, OnlyReconciler
  <2>3. r.at = "view" /\ r.snap = Snapshot /\ Snapshot.returned = returned /\ Snapshot.inflight = inflight
    BY <2>1 DEF Snapshot
  <2>4. Snapshot' = Snapshot /\ Shut' = Shut /\ enqueuer' = enqueuer
    BY <2>2 DEF quotaKeys, vars, Snapshot, Shut
  <2>5. inflight \subseteq Tickets
    BY <1>0 DEF SaleTypeOK, KeysTypeOK
  <2>6. \A t \in r.snap.inflight : enqueuer'[t] # "idle"
    BY <1>0, <2>3, <2>4, <2>5 DEF QuotaOf
  <2> QED BY <1>0, <1>a, <2>3, <2>4, <2>6, ReconcilerNow
<1>2. CASE ReadView
  <2>1. reconciler \in Viewing /\ reconciler.at = "view"
    BY <1>0, <1>2, ReconcilerAt DEF ReadView
  <2>2. PICK snap \in Snapshots : snap = reconciler.snap
    BY <2>1 DEF Viewing
  <2>3. PICK v : v = View(snap.inflight)
    OBVIOUS
  <2>4. UNCHANGED vars
    BY <1>2 DEF ReadView, OnlyReconciler
  <2>5. CASE r = [at |-> "tickets", settled |-> v.settled, flying |-> snap.inflight, owed |-> v.closed \ snap.returned]
    <3>1. /\ r.settled = {t \in snap.inflight : ~NoRow(t)} /\ r.flying = snap.inflight
          /\ r.owed \subseteq Shut
      BY <2>3, <2>5 DEF View, Closed, Shut
    <3>2. r \in Sorting
      <4>1. v.settled \in SUBSET Tickets /\ snap.inflight \in SUBSET Tickets /\ v.closed \ snap.returned \in SUBSET Tickets
        BY <2>3 DEF View, Closed, Snapshots
      <4> QED BY <2>5, <4>1 DEF Sorting
    <3>3. \A t \in snap.inflight : enqueuer[t] # "idle"
      BY <1>0, <2>1, <2>2 DEF ReconcilerOK
    <3>4. SortingOK(r)
      BY <3>1, <3>3 DEF SortingOK, NoRow
    <3> QED BY <1>c, <2>4, <3>2, <3>4
  <2>6. CASE r = [at |-> "fix", snap |-> snap, view |-> v] /\ ~touched
    <3>1. snap = Snapshot /\ live
      BY <1>0, <2>1, <2>2, <2>6 DEF ReconcilerOK, Inv, QuotaInv, Pristine, IdleReconciler
    <3>2. snap.inflight = inflight
      BY <3>1 DEF Snapshot
    <3>3. ~erased' => NoDrift(snap, v)
      BY <1>d, <2>3, <3>1, <3>2, ViewAgrees
    <3>4. r.at = "fix" /\ r.snap = snap /\ r.view = v
      BY <2>6
    <3> QED BY <1>a, <3>3, <3>4, ReconcilerNow
  <2>7. CASE \E n : r = [at |-> "again", attempt |-> n]
    <3>1. r.at = "again"
      BY <2>7
    <3> QED BY <1>a, <3>1, ReconcilerNow
  <2> QED BY <1>2, <1>a, <1>b, <2>2, <2>3, <2>5, <2>6, <2>7, Zenon DEF ReadView
<1>3. ASSUME NEW t \in Tickets, CheckTicket(t) PROVE ReconcilerOK'
  <2>1. reconciler \in Sorting /\ SortingOK(reconciler) /\ t \in reconciler.flying /\ reconciler.at = "tickets"
    BY <1>0, <1>3, ReconcilerAt DEF CheckTicket, ReconcilerOK
  <2>2. PICK rest \in Sorting : rest = [reconciler EXCEPT !.flying = @ \ {t}]
    BY <2>1 DEF Sorting
  <2>3. rest.owed = reconciler.owed /\ rest.settled = reconciler.settled /\ rest.flying = reconciler.flying \ {t}
    BY <2>1, <2>2 DEF Sorting
  <2>4. SortingOK(rest)
    BY <2>1, <2>3 DEF SortingOK
  <2>5. UNCHANGED vars
    BY <1>3 DEF CheckTicket, OnlyReconciler
  <2>6. CASE r = rest
    BY <1>c, <2>4, <2>5, <2>6
  <2>7. CASE r = [at |-> "release", ticket |-> t, rest |-> rest] /\ t \notin reconciler.settled /\ Leaked(t)
    <3>1. r.at = "release" /\ r.ticket = t /\ r.rest = rest
      BY <2>7
    <3>2. enqueuer[t] # "idle" /\ (age[t] = "expired" => NoRow(t))
      BY <2>1, <2>7 DEF SortingOK
    <3>3. Forgone(t)'
      BY <2>7, <3>2, LeakedGivenUp, ForgoneStays
    <3>4. SortingOK(rest)'
      <4>1. \A u \in Tickets : age'[u] = "expired" => age[u] = "expired"
        BY <2>5 DEF vars, ticketVars
      <4> QED BY <1>0, <1>d, <2>4, <4>1, SortingStays
    <3> QED BY <1>a, <3>1, <3>3, <3>4, ReconcilerNow
  <2> QED BY <1>3, <1>a, <2>2, <2>6, <2>7, Zenon DEF CheckTicket
<1>4. CASE ReleaseLeaked
  <2>1. reconciler \in Releasing /\ SortingOK(reconciler.rest) /\ r = reconciler.rest /\ UNCHANGED vars
    BY <1>0, <1>4, <1>a, ReconcilerAt DEF ReleaseLeaked, ReconcilerOK, OnlyReconciler
  <2>2. PICK p \in Sorting : p = reconciler.rest
    BY <2>1 DEF Releasing
  <2> QED BY <1>c, <2>1, <2>2
<1>5. CASE FixDrift
  BY <1>5, <1>a, <1>b DEF FixDrift
<1>6. ASSUME NEW t \in Tickets, ReturnMissed(t) PROVE ReconcilerOK'
  <2>1. reconciler \in Sorting /\ SortingOK(reconciler)
    BY <1>0, <1>6, ReconcilerAt DEF ReturnMissed, ReconcilerOK
  <2>2. PICK p \in Sorting : p = [reconciler EXCEPT !.owed = @ \ {t}]
    BY <2>1 DEF Sorting
  <2>3. p.owed \subseteq reconciler.owed /\ p.settled = reconciler.settled /\ p.flying = reconciler.flying
    BY <2>1, <2>2 DEF Sorting
  <2>4. SortingOK(p)
    BY <2>1, <2>3 DEF SortingOK
  <2>5. r = p /\ UNCHANGED vars
    BY <1>6, <1>a, <2>2 DEF ReturnMissed, OnlyReconciler
  <2> QED BY <1>c, <2>4, <2>5
<1>7. CASE ReconcilerStops
  <2>1. r \in {IdleReconciler} \cup (IF reconciler.at = "release" THEN {reconciler.rest} ELSE {}) /\ UNCHANGED vars
    BY <1>7, <1>a DEF ReconcilerStops, OnlyReconciler
  <2>2. CASE reconciler.at = "release" /\ r = reconciler.rest
    <3>1. PICK p \in Sorting : p = reconciler.rest
      BY <1>0, <2>2, ReconcilerAt DEF Releasing
    <3> QED BY <1>0, <1>c, <2>1, <2>2, <3>1 DEF ReconcilerOK
  <2> QED BY <1>b, <2>1, <2>2
<1>8. CASE /\ reconciler' = reconciler /\ ~TakeSnapshot
           /\ \A t \in Tickets : age'[t] = "expired" /\ age[t] = "stale" => reconciler.at \notin {"tickets", "release"}
  <2>1. reconciler = r
    BY <1>8, <1>a
  <2>2. ASSUME reconciler.at \in {"tickets", "release"}, NEW t \in Tickets, age'[t] = "expired"
        PROVE  age[t] = "expired"
    <3>1. age[t] # "stale"
      BY <1>8, <2>2
    <3>2. age[t] = "fresh" => age'[t] # "expired"
      BY <1>0, RequestFacts, WorkerAges DEF AsyncNext, OrderMoves, CancelTx, ReleaseOnCancel, Return, CloserDies, GrowsOld,
         Expire, CloseOnly, ticketVars, vars, AsyncTypeOK
    <3> QED BY <1>0, <2>2, <3>1, <3>2 DEF AsyncTypeOK
  <2>3. ASSUME r.at = "view"
        PROVE  /\ r.snap.returned \subseteq Shut'
               /\ \A t \in r.snap.inflight : enqueuer'[t] # "idle"
               /\ ~touched' => r.snap = Snapshot'
    <3>1. r.snap \in Snapshots
      BY <1>0, <2>1, <2>3, ReconcilerAt DEF Viewing
    <3>2. r.snap.returned \subseteq Shut /\ r.snap.inflight \subseteq Tickets
      BY <1>0, <2>1, <2>3, <3>1 DEF ReconcilerOK, Snapshots
    <3>3. Shut \subseteq Shut'
      BY <1>0, ClosedStays DEF Shut
    <3>4. \A t \in r.snap.inflight : enqueuer'[t] # "idle"
      BY <1>0, <2>1, <2>3, <3>2, EnqueuerMoves DEF ReconcilerOK
    <3>5. ASSUME ~touched' PROVE r.snap = Snapshot'
      <4>1. ~touched /\ UNCHANGED quotaKeys
        BY <1>8, <2>1, <2>3, <3>5, SnapshotStays
      <4> QED BY <1>0, <2>1, <2>3, <4>1 DEF ReconcilerOK, quotaKeys, Snapshot
    <3> QED BY <3>2, <3>3, <3>4, <3>5
  <2>4. ASSUME r.at = "tickets" PROVE SortingOK(r)'
    <3>1. r \in Sorting /\ SortingOK(r)
      BY <1>0, <2>1, <2>4, ReconcilerAt DEF ReconcilerOK
    <3> QED BY <1>0, <1>d, <2>1, <2>2, <2>4, <3>1, SortingStays
  <2>5. ASSUME r.at = "release" PROVE Forgone(r.ticket)' /\ SortingOK(r.rest)'
    <3>1. r \in Releasing /\ Forgone(r.ticket) /\ SortingOK(r.rest)
      BY <1>0, <2>1, <2>5, ReconcilerAt DEF ReconcilerOK
    <3>2. r.ticket \in Tickets /\ r.rest \in Sorting
      BY <3>1 DEF Releasing
    <3>3. Forgone(r.ticket)'
      BY <3>1, <3>2, ForgoneStays
    <3>4. SortingOK(r.rest)'
      BY <1>0, <1>d, <2>1, <2>2, <2>5, <3>1, <3>2, SortingStays
    <3> QED BY <3>3, <3>4
  <2>6. r.at = "fix" /\ ~erased' => NoDrift(r.snap, r.view)
    BY <1>0, <1>d, <2>1 DEF ReconcilerOK
  <2> QED BY <1>a, <2>3, <2>4, <2>5, <2>6, ReconcilerNow
<1> QED
  BY <1>0, <1>1, <1>2, <1>3, <1>4, <1>5, <1>6, <1>7, <1>8, ReconcilerRests DEF ReconcileStep

-----------------------------------------------------------------------------
(* The theorems about the quotas *)

LEMMA QuotaStart == SeckillInit => QuotaInv
<1> SUFFICES ASSUME SeckillInit, KeysKept PROVE QuotaInv
  BY DEF QuotaInv
<1>1. \A w \in Workers : ~Busy(w)
  BY DEF SeckillInit, AsyncInit, Busy
<1>2. \A t \in Tickets : QuotaOf(t)
  BY <1>1 DEF SeckillInit, AsyncInit, QuotaOf, Coming, On
<1>3. returned \subseteq Shut /\ deleted \subseteq Shut /\ NoRefusal /\ DeletedReturned
  BY <1>1 DEF SeckillInit, NoRefusal, DeletedReturned
<1>4. WithinLimits
  <2>1. stock >= 0
    BY NumAssumption DEF SeckillInit
  <2>2. \A u \in Users : users[u] = 0
    BY DEF SeckillInit
  <2> QED BY <2>1, <2>2, NumAssumption DEF WithinLimits
<1>5. Pristine
  BY DEF SeckillInit, AsyncInit, Pristine
<1>6. live => Balanced
  <2>1. Midair = {} /\ Due = {} /\ \A u \in Users : Of(u, Midair \cup Due) = {}
    BY DEF SeckillInit, AsyncInit, Midair, Due, Shut, Of
  <2>2. live => stock = Num
    BY DEF SeckillInit
  <2>3. sold = 0 /\ \A u \in Users : users[u] = 0 /\ bought[u] = 0
    BY DEF SeckillInit
  <2> QED BY <2>1, <2>2, <2>3, FS_EmptySet, NumAssumption DEF Balanced
<1>7. ReconcilerOK
  BY DEF SeckillInit, ReconcilerOK, IdleReconciler
<1> QED
  BY <1>2, <1>3, <1>4, <1>5, <1>6, <1>7 DEF QuotaInv

LEMMA QuotaStep == Inv /\ SaleTypeOK' /\ [SeckillNext]_allVars => QuotaInv'
<1> SUFFICES ASSUME Inv, SaleTypeOK', [SeckillNext]_allVars PROVE QuotaInv'
  OBVIOUS
<1>1. UNCHANGED faults
  BY AsyncPart, FaultsStay DEF Inv, AsyncInv
<1>2. KeysKept' <=> KeysKept
  BY <1>1 DEF KeysKept, HandledOnce
<1> SUFFICES ASSUME KeysKept
             PROVE  /\ \A t \in Tickets : QuotaOf(t)'
                    /\ returned' \subseteq Shut' /\ deleted' \subseteq Shut'
                    /\ ~live' => Pristine'
                    /\ ReconcilerOK'
                    /\ ~erased' => WithinLimits' /\ NoRefusal' /\ DeletedReturned' /\ (live' => Balanced')
  BY <1>2 DEF QuotaInv
<1>3. ~erased' => ~erased
  BY DeletedGrows
<1> QED
  BY <1>3, QuotaOfStep, ReturnedStep, LimitsStep, RefusalStep, PristineStep, ExactStep, DeletedStep, ReconcilerStepOK

LEMMA SaleAlways == SeckillSpec => []Inv
<1>1. SeckillInit => Inv
  BY AsyncStart, SaleStart, GuardsStart, QuotaStart DEF Inv, SeckillInit
<1>2. Inv /\ [SeckillNext]_allVars => Inv'
  <2> SUFFICES ASSUME Inv, [SeckillNext]_allVars PROVE Inv'
    OBVIOUS
  <2>1. AsyncInv' /\ SaleTypeOK' /\ DBGuards'
    BY AsyncStep, SaleTypeStep, GuardsStep DEF Inv, AsyncInv, SaleTypeOK
  <2> QED BY <2>1, QuotaStep DEF Inv
<1> QED
  BY <1>1, <1>2, PTL DEF SeckillSpec

\* A ticket that may still become an order keeps its quota: neither an error
\* that is undone, nor a preheating, nor the reconciliation at any moment,
\* gives it to somebody else.
THEOREM SeckillQueuedKeepsQuota == SeckillSpec => []QueuedKeepsQuota
<1>1. Inv => QueuedKeepsQuota
  <2>1. \A t \in Tickets : Queued(t) => Coming(t)
    BY DEF Queued, Coming, On
  <2> QED BY <2>1 DEF Inv, QuotaInv, QuotaOf, QueuedKeepsQuota
<1> QED
  BY <1>1, SaleAlways, PTL

\* The quotas add up after every step, for the sale and for each user, as
\* long as the buyer deletes no closed order before its quota is given back.
THEOREM SeckillQuotaExact == SeckillSpec => []QuotaExact
<1>1. Inv => QuotaExact
  BY ShutBalance DEF Inv, QuotaInv, QuotaExact
<1> QED
  BY <1>1, SaleAlways, PTL
=============================================================================

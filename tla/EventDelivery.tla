---------------------------- MODULE EventDelivery ----------------------------
(***************************************************************************)
(* The transactional outbox and the queue of one consumer behind it.       *)
(* Publishers (one per process) claim rows in batches, publish them and    *)
(* mark them; a claim older than publishingReclaimAfter belongs to nobody. *)
(* The consumer acknowledges, moves a message to the next delay queue or   *)
(* to the dead-letter queue; the broker delivers again what was not        *)
(* acknowledged.  Nothing here is exactly once.  A message in the dead-    *)
(* letter queue carries the reason: poison, or the limit of deliveries     *)
(* ("dead").                                                               *)
(***************************************************************************)
EXTENDS Integers, Sequences, FiniteSets

CONSTANTS Events,
          MaxRows,             \* bound: events of a behaviour
          Funds,               \* those whose routing key isFundsRoutingKey
          Publishers,
          BatchSize,
          OutboxMaxAttempts,
          Levels,              \* delay queues of the consumer's queue
          MaxDeliveryAttempts,
          MaxCopies            \* bound: copies of one event in the broker

ASSUME FundsAssumption   == Funds \subseteq Events
ASSUME LevelsAssumption  == Levels \in Nat \ {0} /\ MaxDeliveryAttempts \in Nat \ {0}
ASSUME OutboxAssumption  ==
  OutboxMaxAttempts \in Nat \ {0} /\ BatchSize \in Nat \ {0} /\ MaxCopies \in Nat \ {0}
  /\ MaxRows \in Nat

VARIABLES
  row,       \* outbox_event: status, attempts, and what the time says of it
  publisher, \* drainBatch: the rest of the batch, as it was read
  bound,     \* a queue is bound to the routing key
  queue,     \* copies of each event in the broker
  landed,    \* the event was in the queue at some time
  handled,   \* the consumer has handled it
  unheard    \* history: events published without a confirm that did not arrive

deliveryVars == <<row, publisher, bound, queue, landed, handled, unheard>>

NoRow     == [status |-> "none", attempts |-> 0, due |-> TRUE, old |-> FALSE]
IdlePublisher == [at |-> "idle", batch |-> <<>>]
NoCopy    == [at |-> "none", retries |-> 0, redelivered |-> FALSE]
Retries   == 0..(MaxDeliveryAttempts + Levels)

DeliveryTypeOK ==
  /\ row \in [Events -> [status : {"none", "pending", "publishing", "sent", "dead"},
                         attempts : 0..OutboxMaxAttempts, due : BOOLEAN, old : BOOLEAN]]
  /\ \A p \in Publishers :
       /\ publisher[p].at \in {"idle", "publish", "sent", "failed"}
       /\ publisher[p].batch \in Seq(Events \X (0..OutboxMaxAttempts))
       /\ Len(publisher[p].batch) <= BatchSize
  /\ bound \in BOOLEAN
  /\ queue \in [Events \X (1..MaxCopies) ->
        [at : {"none", "ready", "delayed", "taken", "dead", "poison"}, retries : Retries, redelivered : BOOLEAN]]
  /\ landed \in [Events -> BOOLEAN] /\ handled \in [Events -> BOOLEAN]
  /\ unheard \subseteq Events

DeliveryInit ==
  /\ row = [e \in Events |-> NoRow]
  /\ publisher = [p \in Publishers |-> IdlePublisher]
  /\ bound \in BOOLEAN
  /\ queue = [c \in Events \X (1..MaxCopies) |-> NoCopy]
  /\ landed = [e \in Events |-> FALSE] /\ handled = [e \in Events |-> FALSE]
  /\ unheard = {}

-----------------------------------------------------------------------------
(* The outbox *)

InOutbox == UNCHANGED <<bound, queue, landed, handled, unheard>>

\* With the transaction whose event it is.
Insert(e) ==
  /\ row[e].status = "none"
  /\ Cardinality({f \in Events : row[f].status # "none"}) < MaxRows
  /\ row' = [row EXCEPT ![e].status = "pending"]
  /\ InOutbox /\ UNCHANGED publisher

RetryDue(e) ==
  /\ ~row[e].due /\ row' = [row EXCEPT ![e].due = TRUE]
  /\ InOutbox /\ UNCHANGED publisher

ClaimGrowsOld(e) ==
  /\ row[e].status = "publishing" /\ ~row[e].old
  /\ row' = [row EXCEPT ![e].old = TRUE]
  /\ InOutbox /\ UNCHANGED publisher

\* Mutant: a claim is for ever.
MutClaimable(e) == row[e].status = "pending" /\ row[e].due

Claimable(e) ==
  \/ row[e].status = "pending" /\ row[e].due
  \/ row[e].status = "publishing" /\ row[e].old

\* Two transactions at once share the rows out (SKIP LOCKED), so that a batch
\* is any part of the rows that can be claimed.
FetchBatch(p) ==
  /\ publisher[p] = IdlePublisher
  /\ \E n \in 1..BatchSize : \E batch \in [1..n -> {e \in Events : Claimable(e)}] :
       /\ \A i, j \in 1..n : i # j => batch[i] # batch[j]
       /\ publisher' = [publisher EXCEPT ![p] =
            [at |-> "publish", batch |-> [i \in 1..n |-> <<batch[i], row[batch[i]].attempts>>]]]
       /\ row' = [e \in Events |-> IF \E i \in 1..n : batch[i] = e
                    THEN [row[e] EXCEPT !.status = "publishing", !.old = FALSE] ELSE row[e]]
  /\ InOutbox

Current(p) == Head(publisher[p].batch)[1]

Free(e) == {i \in 1..MaxCopies : queue[<<e, i>>].at = "none"}

Arrives(e) == \E i \in Free(e) :
  /\ queue' = [queue EXCEPT ![<<e, i>>].at = "ready"]
  /\ landed' = [landed EXCEPT ![e] = TRUE]

\* Mutant: any event that no queue wants counts as sent.
MutPublishDomainEvent(p) ==
  LET to(x) == publisher' = [publisher EXCEPT ![p].at = x] IN
  /\ publisher[p].at = "publish"
  /\ \/ bound /\ Arrives(Current(p)) /\ to("sent")
     \/ to("failed") /\ UNCHANGED <<queue, landed>>
     \/ ~bound /\ to("sent") /\ UNCHANGED <<queue, landed>>
  /\ UNCHANGED <<row, bound, handled, unheard>>

\* The channel was not put into confirm mode: the message is published all the
\* same, and counts as sent whether it arrives, gets lost or is returned.
LostUnheard(e) ==
  /\ UNCHANGED <<queue, landed>>
  /\ unheard' = unheard \cup {e}

\* PublishDomainEvent and what drainBatch makes of its outcome: confirmed,
\* returned (a business event nobody wants counts as sent), or unknown.
PublishDomainEvent(p) ==
  LET e     == Current(p)
      to(x) == publisher' = [publisher EXCEPT ![p].at = x]
  IN
  /\ publisher[p].at = "publish"
  /\ \/ /\ \/ bound /\ Arrives(e) /\ to("sent")
           \/ bound /\ Arrives(e) /\ to("failed")
           \/ to("failed") /\ UNCHANGED <<queue, landed>>
           \/ ~bound /\ e \notin Funds /\ to("sent") /\ UNCHANGED <<queue, landed>>
        /\ UNCHANGED unheard
     \/ to("sent") /\ LostUnheard(e)
  /\ UNCHANGED <<row, bound, handled>>

NextOf(p) ==
  LET rest == Tail(publisher[p].batch) IN
  publisher' = [publisher EXCEPT ![p] =
    IF rest = <<>> THEN IdlePublisher ELSE [at |-> "publish", batch |-> rest]]

\* Whatever the row has become in the meantime.
MarkSent(p) ==
  /\ publisher[p].at = "sent" /\ NextOf(p)
  /\ row' = [row EXCEPT ![Current(p)].status = "sent"]
  /\ InOutbox

\* The attempts decide that the batch was read with; events about money go on.
MarkFailed(p) ==
  LET e    == Current(p)
      dead == e \notin Funds /\ Head(publisher[p].batch)[2] + 1 >= OutboxMaxAttempts
  IN
  /\ publisher[p].at = "failed" /\ NextOf(p)
  /\ row' = [row EXCEPT
       ![e].attempts = IF @ < OutboxMaxAttempts THEN @ + 1 ELSE @,
       ![e].status = IF dead THEN "dead" ELSE "pending",
       ![e].due = dead]
  /\ InOutbox

\* The UPDATE fails and is only logged.
MarkLost(p) ==
  /\ publisher[p].at \in {"sent", "failed"} /\ NextOf(p)
  /\ InOutbox /\ UNCHANGED row

PublisherDies(p) ==
  /\ publisher[p] # IdlePublisher
  /\ publisher' = [publisher EXCEPT ![p] = IdlePublisher]
  /\ InOutbox /\ UNCHANGED row

-----------------------------------------------------------------------------
(* The queue *)

InBroker == UNCHANGED <<row, publisher, unheard>>

\* The consumer's process has started for the first time.
BindDomainQueue ==
  /\ ~bound /\ bound' = TRUE
  /\ InBroker /\ UNCHANGED <<queue, landed, handled>>

Moves(c, from, to) == queue[c].at = from /\ queue' = [queue EXCEPT ![c] = to]

\* An acknowledged copy is gone.
Acked(c) == Moves(c, "taken", NoCopy)

\* A Nack, a closed channel, an acknowledgement that did not get through.
Requeued(c) == [queue[c] EXCEPT !.at = "ready", !.redelivered = TRUE]

Take(c) ==
  /\ Moves(c, "ready", [queue[c] EXCEPT !.at = "taken"])
  /\ InBroker /\ UNCHANGED <<bound, landed, handled>>

ChannelCloses(c) ==
  /\ Moves(c, "taken", Requeued(c))
  /\ InBroker /\ UNCHANGED <<bound, landed, handled>>

\* The handler's transaction commits; the acknowledgement may get lost.
HandlerSucceeds(c) ==
  /\ Acked(c) \/ Moves(c, "taken", Requeued(c))
  /\ handled' = [handled EXCEPT ![c[1]] = TRUE]
  /\ InBroker /\ UNCHANGED <<bound, landed>>

deliveryCount(c) ==
  IF queue[c].retries > 0 THEN queue[c].retries + 1
  ELSE IF queue[c].redelivered THEN 2 ELSE 1

TheLarger(a, b) == IF a >= b THEN a ELSE b
DeliveryLimit == TheLarger(MaxDeliveryAttempts, Levels + 1)

\* The delay queue a retry goes to; each has its own delay.
retryLevel(c) == IF queue[c].retries + 1 <= Levels THEN queue[c].retries + 1 ELSE Levels

\* The copy that goes on, published first and then acknowledged: between the
\* two the original may come back, as it does when publishing fails.
GoesOn(c, copy) ==
  /\ queue[c].at = "taken"
  /\ \/ queue' = [queue EXCEPT ![c] = copy]
     \/ \E i \in Free(c[1]) : queue' = [queue EXCEPT ![<<c[1], i>>] = copy, ![c] = Requeued(c)]
     \/ queue' = [queue EXCEPT ![c] = Requeued(c)]

RetryToQueueOrDLQ(c) ==
  /\ IF deliveryCount(c) >= DeliveryLimit
       THEN GoesOn(c, [queue[c] EXCEPT !.at = "dead", !.redelivered = FALSE])
       ELSE GoesOn(c, [at |-> "delayed", retries |-> queue[c].retries + 1, redelivered |-> FALSE])
  /\ InBroker /\ UNCHANGED <<bound, landed, handled>>

\* RouteToDLQ by error class: what the handler can make nothing of goes to the
\* dead-letter queue at once, past the delay queues (its retries do not count
\* any more).
PoisonToDLQ(c) ==
  /\ GoesOn(c, [NoCopy EXCEPT !.at = "poison"])
  /\ InBroker /\ UNCHANGED <<bound, landed, handled>>

\* The delay queue hands the message back after its time.
DelayEnds(c) ==
  /\ Moves(c, "delayed", [queue[c] EXCEPT !.at = "ready"])
  /\ InBroker /\ UNCHANGED <<bound, landed, handled>>

ConsumerWorks(c) == HandlerSucceeds(c) \/ RetryToQueueOrDLQ(c) \/ PoisonToDLQ(c)

DeliveryNext ==
  \/ \E e \in Events : Insert(e) \/ RetryDue(e) \/ ClaimGrowsOld(e)
  \/ \E p \in Publishers : \/ FetchBatch(p) \/ PublishDomainEvent(p) \/ MarkSent(p)
                           \/ MarkFailed(p) \/ MarkLost(p) \/ PublisherDies(p)
  \/ BindDomainQueue
  \/ \E c \in Events \X (1..MaxCopies) : \/ Take(c) \/ ChannelCloses(c) \/ ConsumerWorks(c)
                                         \/ DelayEnds(c)

DeliverySpec == DeliveryInit /\ [][DeliveryNext]_deliveryVars

-----------------------------------------------------------------------------
(* Properties *)

Copies(e) == {<<e, i>> : i \in 1..MaxCopies}
DeadLettered(e) == \E c \in Copies(e) : queue[c].at \in {"dead", "poison"}

\* An event that moves money is marked as sent only if a queue has had it,
\* however claims, late marks and returned messages cross; but for one that was
\* published on a channel without confirms and did not arrive.
SentHasLanded ==
  \A e \in Funds : row[e].status = "sent" => landed[e] \/ e \in unheard

\* An event in a queue is not lost: it waits there, or was handled, or lies in
\* the dead-letter queue.
LandedIsKept ==
  \A e \in Events : landed[e] => handled[e] \/ \E c \in Copies(e) : queue[c].at # "none"

\* "Each level is gone through at least once": a message that is not poison gets
\* into the dead-letter queue only after it went through every delay queue.
EachLevelOnce ==
  \A e \in Events : \A c \in Copies(e) : queue[c].at = "dead" => queue[c].retries >= Levels

\* No event is lost on its way from the outbox through the queue.
EventsKept == SentHasLanded /\ LandedIsKept /\ EachLevelOnce

\* An event that moves money is handled or reaches the operators, although
\* processes die with it, marks are lost and its queue is bound late: unless it
\* was published without a confirm and got lost.
FundsUndelivered ==
  \E e \in Funds \ unheard : row[e].status # "none" /\ ~handled[e] /\ ~DeadLettered(e)

FundsDelivered == FundsUndelivered ~> ~FundsUndelivered
=============================================================================

--------------------------- MODULE StockReconcile ---------------------------
(***************************************************************************)
(* The tasks that repair the Redis counters of OrderStock:                 *)
(*   RunStockReservationReconcile  commits what SetStockCommitPending left *)
(*                  and gives leaked pieces of reserved back to available; *)
(*   ReconcileAvailable  corrects available from product.num;              *)
(*   SeedFromDB     creates a missing bucket when a process starts;        *)
(*   RunOrderTimeoutCheck  cancels orders nobody pays: the fairness of     *)
(*                  CancelTx.                                              *)
(* Both reconcilers read the DB and Redis one query after the other while  *)
(* the handlers go on, sample twice with a sleep between, and act when the *)
(* samples agree.  Redis may lose its keys.                                *)
(*                                                                         *)
(* Time appears in two places.  recent is the 30 s after a row entered     *)
(* WaitShip (stockCommitGrace): it outlasts the payment handler's commit.  *)
(* The sleep between two samples (stockReconcileGrace) outlasts what was   *)
(* in flight at the first one.                                             *)
(***************************************************************************)
EXTENDS OrderStock

CONSTANTS Tasks,      \* the reconcilers whose crons run
          MaxMishaps  \* bound on the times that Redis loses keys, a process
                      \* starts, or a task is cut short

ASSUME TasksAssumption == Tasks \subseteq {"reserved", "available"}
ASSUME MishapsAssumption == MaxMishaps \in Nat

VARIABLES recent,   \* updated_at of a WaitShip row is within stockCommitGrace
          task,     \* RunStockReservationReconcile
          fixer,    \* ReconcileAvailable
          seeding,  \* product.num as SeedFromDB holds it; {} when it runs not
          mishaps

taskVars == <<recent, task, fixer, seeding, mishaps>>
allVars  == <<vars, taskVars>>

IdleTask == [at |-> "idle", round |-> 1, list |-> {}, claim |-> {},
             base |-> 0, leak |-> 0, waitFor |-> {}]
IdleFixer == [at |-> "idle", round |-> 1, lo |-> 0, hi |-> 0, num |-> 0,
              available |-> 0, drift |-> 0]

ReconcileInit ==
  /\ Init
  /\ recent = [o \in Orders |-> FALSE]
  /\ task = IdleTask
  /\ fixer = IdleFixer
  /\ seeding = {}
  /\ mishaps = 0

ReconcileTypeOK ==
  /\ TypeOK
  /\ recent \in [Orders -> BOOLEAN]
  /\ task \in [at : {"idle", "retry", "commit", "pending", "reserved", "sleep", "release"},
               round : {1, 2}, list : SUBSET Orders, claim : SUBSET Orders,
               base : Nat, leak : Nat, waitFor : SUBSET Orders]
  /\ fixer \in [at : {"idle", "lo", "hi", "num", "available", "reserved", "sleep", "apply"},
                round : {1, 2}, lo : Nat, hi : Nat, num : Nat, available : Int, drift : Int]
  /\ seeding \in SUBSET Nat /\ Cardinality(seeding) <= 1
  /\ mishaps \in 0..MaxMishaps

-----------------------------------------------------------------------------
(* The handlers, and time *)

\* Any UPDATE that takes a row to WaitShip refreshes its updated_at.
\* SetStockCommitPending does not (UpdateColumn).
Handler(o, Step) ==
  /\ Step
  /\ recent' = [recent EXCEPT ![o] = @ \/ (type'[o] = "WaitShip" /\ type[o] # "WaitShip")]
  /\ UNCHANGED <<task, fixer, seeding, mishaps>>

GraceEnds(o) ==
  /\ recent[o] /\ committer[o] # "due"
  /\ recent' = [recent EXCEPT ![o] = FALSE]
  /\ UNCHANGED <<vars, task, fixer, seeding, mishaps>>

Mishap == mishaps < MaxMishaps /\ mishaps' = mishaps + 1

\* Eviction or a restart without the data, of either key or of both.
RedisLosesKeys ==
  /\ Mishap
  /\ \/ seeded' = FALSE /\ available' = 0 /\ reserved' \in {0, reserved}
     \/ reserved' = 0 /\ UNCHANGED <<seeded, available>>
  /\ UNCHANGED <<lifeVars, dbVars, createVars, closer, commitVars, restocker,
                 recent, task, fixer, seeding>>

SeedRead ==
  /\ Mishap
  /\ seeding = {}
  /\ seeding' = {num}
  /\ UNCHANGED <<vars, recent, task, fixer>>

SeedWrite(n) ==
  /\ n \in seeding
  /\ InitIfAbsentScript(n)
  /\ seeding' = {}
  /\ UNCHANGED <<lifeVars, dbVars, createVars, closer, commitVars, restocker,
                 recent, task, fixer, mishaps>>

-----------------------------------------------------------------------------
(* RunStockReservationReconcile *)

OnlyTask == UNCHANGED <<lifeVars, num, restocked, createVars, closer, commitVars,
                        restocker, recent, fixer, seeding>>

ReadOnly == UNCHANGED <<commitPending, redisVars>>

ListStockCommitPending ==
  /\ "reserved" \in Tasks
  /\ task.at = "idle"
  /\ task' = [IdleTask EXCEPT !.at = "retry", !.list = {o \in Orders : commitPending[o]}]
  /\ OnlyTask /\ ReadOnly

\* The flag is cleared before the commit, so that no other instance repeats it.
RetryClaim(o) ==
  /\ task.at = "retry" /\ o \in task.list
  /\ commitPending' = [commitPending EXCEPT ![o] = FALSE]
  /\ task' = [task EXCEPT !.list = @ \ {o},
                          !.at = IF commitPending[o] THEN "commit" ELSE "retry",
                          !.claim = IF commitPending[o] THEN {o} ELSE {}]
  /\ OnlyTask /\ UNCHANGED redisVars

RetryCommit ==
  /\ task.at = "commit"
  /\ CommitScript \/ (reserved < 1 /\ UNCHANGED redisVars)
  /\ task' = [task EXCEPT !.at = "retry", !.claim = {}]
  /\ OnlyTask /\ UNCHANGED commitPending

\* The flag is given back for the next run.
RetryCommitFails(o) ==
  /\ Mishap
  /\ task.at = "commit" /\ o \in task.claim
  /\ \/ UNCHANGED redisVars
     \/ "lost_reply" \in Faults /\ CommitScript
  /\ commitPending' = [commitPending EXCEPT ![o] = TRUE]
  /\ task' = [task EXCEPT !.at = "retry", !.claim = {}]
  /\ OnlyTask

\* What a handler of the last moment may still have to give back or insert.
InFlight == {o \in Orders : \/ creator[o] \in {"reserved", "release"}
                            \/ closer[o] = "due" \/ committer[o] = "due"}

\* Mutant: cancelled orders count as holders of a reservation.
MutSumReserved ==
  /\ \/ task.at = "retry" /\ task.list = {}
     \/ task.at = "sleep" /\ task.waitFor \cap InFlight = {}
  /\ task' = [task EXCEPT !.at = "pending", !.waitFor = {},
                          !.base = Cardinality({o \in Orders : type[o] \in {"WaitPay", "Closed"}})]
  /\ OnlyTask /\ ReadOnly

\* sampleReservationLeak, in the order of its queries.
SumReserved ==
  /\ \/ task.at = "retry" /\ task.list = {}
     \/ task.at = "sleep" /\ task.waitFor \cap InFlight = {}
  /\ task' = [task EXCEPT !.at = "pending", !.base = Cardinality(Unpaid), !.waitFor = {}]
  /\ OnlyTask /\ ReadOnly

\* Mutant: every order that waits for shipment is waiting for its commit.
MutRecentlyPaid == {o \in Orders : type[o] = "WaitShip"}

RecentlyPaid == {o \in Orders : type[o] = "WaitShip" /\ recent[o]}
Flagged      == {o \in Orders : commitPending[o]}

SumCommitPending ==
  /\ task.at = "pending"
  /\ task' = [task EXCEPT !.at = "reserved", !.base = @ + Cardinality(RecentlyPaid \cup Flagged)]
  /\ OnlyTask /\ ReadOnly

\* The second sample keeps the smaller leak; nothing leaked ends the run.
ReadReserved ==
  /\ task.at = "reserved"
  /\ LET diff == reserved - task.base
         leak == IF task.round = 2 /\ task.leak < diff THEN task.leak ELSE diff
     IN  task' = IF leak <= 0 THEN IdleTask
                 ELSE IF task.round = 1
                 THEN [IdleTask EXCEPT !.at = "sleep", !.round = 2, !.leak = leak, !.waitFor = InFlight]
                 ELSE [IdleTask EXCEPT !.at = "release", !.leak = leak]
  /\ OnlyTask /\ ReadOnly

ReleaseLeak ==
  /\ task.at = "release"
  /\ \/ ReleaseScript(task.leak)
     \/ reserved < task.leak /\ UNCHANGED redisVars
  /\ task' = IdleTask
  /\ OnlyTask /\ UNCHANGED commitPending

\* A query fails, or the process dies: a claimed flag stays cleared.
TaskStops ==
  /\ Mishap
  /\ Faults # {} /\ task.at # "idle"
  /\ task' = IdleTask
  /\ OnlyTask /\ ReadOnly

-----------------------------------------------------------------------------
(* ReconcileAvailable *)

OnlyFixer == UNCHANGED <<lifeVars, dbVars, seeded, reserved, createVars, closer, commitVars,
                         restocker, recent, task, seeding>>

\* Mutant: available is corrected downwards only.
MutPickDrift(base, lo, hi) == IF base + hi < 0 THEN base + hi ELSE 0

\* pickDrift
PickDrift(base, lo, hi) ==
  IF base + lo > 0 THEN base + lo ELSE IF base + hi < 0 THEN base + hi ELSE 0

\* Round 1 reads lo, hi and then the rows; round 2 reads the row first.
FixerReadLo ==
  /\ "available" \in Tasks
  /\ fixer.at \in {"idle", "lo"}
  /\ fixer' = [fixer EXCEPT !.at = "hi", !.lo = Cardinality(Flagged)]
  /\ OnlyFixer /\ UNCHANGED available

FixerReadHi ==
  /\ fixer.at = "hi"
  /\ fixer' = [fixer EXCEPT !.at = IF fixer.round = 1 THEN "num" ELSE "apply",
                            !.hi = Cardinality(RecentlyPaid \cup Flagged)]
  /\ OnlyFixer /\ UNCHANGED available

FixerReadNum ==
  /\ fixer.at \in {"num", "sleep"}
  /\ fixer' = [fixer EXCEPT !.at = IF fixer.round = 1 THEN "available" ELSE "lo", !.num = num]
  /\ OnlyFixer /\ UNCHANGED available

\* A product without a bucket is left to SeedFromDB and OrderCreate.
FixerReadAvailable ==
  /\ fixer.at = "available"
  /\ fixer' = IF seeded THEN [fixer EXCEPT !.at = "reserved", !.available = available] ELSE IdleFixer
  /\ OnlyFixer /\ UNCHANGED available

FixerReadReserved ==
  /\ fixer.at = "reserved"
  /\ LET drift == PickDrift(fixer.num - reserved - fixer.available, fixer.lo, fixer.hi)
     IN  fixer' = IF drift = 0 THEN IdleFixer
                  ELSE [IdleFixer EXCEPT !.at = "sleep", !.round = 2, !.drift = drift]
  /\ OnlyFixer /\ UNCHANGED available

\* WATCH on both keys makes the second comparison and the write one step.
ApplyAvailableDrift ==
  /\ fixer.at = "apply"
  /\ available' = IF /\ seeded
                     /\ PickDrift(fixer.num - reserved - available, fixer.lo, fixer.hi) = fixer.drift
                  THEN available + fixer.drift ELSE available
  /\ fixer' = IdleFixer
  /\ OnlyFixer

FixerStops ==
  /\ Mishap
  /\ Faults # {} /\ fixer.at # "idle"
  /\ fixer' = IdleFixer
  /\ OnlyFixer /\ UNCHANGED available

-----------------------------------------------------------------------------
TaskStep ==
  /\ \/ ListStockCommitPending \/ RetryCommit \/ SumReserved \/ SumCommitPending
     \/ ReadReserved \/ ReleaseLeak
     \/ \E o \in Orders : RetryClaim(o)
  /\ UNCHANGED mishaps

FixerStep ==
  /\ \/ FixerReadLo \/ FixerReadHi \/ FixerReadNum \/ FixerReadAvailable
     \/ FixerReadReserved \/ ApplyAvailableDrift
  /\ UNCHANGED mishaps

ReconcileNext ==
  \/ \E o \in Orders :
       \/ Handler(o, CreateStep(o) \/ PayStep(o) \/ CancelStep(o) \/ RestockStep(o) \/ MoveRow(o))
       \/ GraceEnds(o) \/ RetryCommitFails(o)
  \/ RedisLosesKeys \/ SeedRead \/ (\E n \in seeding : SeedWrite(n))
  \/ TaskStep \/ TaskStops \/ FixerStep \/ FixerStops

ReconcileSpec == ReconcileInit /\ [][ReconcileNext]_allVars

\* Handlers finish or die, the grace ends, RunOrderTimeoutCheck cancels the
\* orders nobody pays, and the crons run again and again.  A task that fails
\* starts over at its next run: mishaps are finitely many.
Fairness ==
  /\ \A o \in Orders :
       /\ WF_allVars(creator[o] # "idle" /\ Handler(o, CreateStep(o)))
       /\ WF_allVars(committer[o] = "due" /\ Handler(o, PayStep(o)))
       /\ WF_allVars(Handler(o, CancelStep(o)))
       /\ WF_allVars(Handler(o, RestockRedis(o)))
       /\ WF_allVars(GraceEnds(o))
  /\ WF_allVars(TaskStep)
  /\ WF_allVars(FixerStep)

FairSpec == ReconcileSpec /\ Fairness

-----------------------------------------------------------------------------
\* No piece is reserved for an order that does not wait for payment; in the end
\* none waits.
ReservedAtRest == reserved = 0

\* The relation of syncer.go that holds at rest: a bucket that exists adds up
\* with reserved to product.num and the paid pieces that SetStockCommitPending
\* remembers.
AvailableAtRest == seeded => available + reserved = num + Cardinality(Flagged)

\* Whatever died, failed or was lost, both buckets come back to what the DB
\* says of them and stay there, the two reconcilers at work at once.
BothHeal == <>[](ReservedAtRest /\ AvailableAtRest)

\* A piece whose order is unpaid, or is being inserted, is not taken for a
\* leak: what the code says of the two samples (task.go: a leak is in both, a
\* reservation in flight at the first is in the DB at the second).
LiveReservations == {o \in Orders : creator[o] = "reserved" \/ type[o] = "WaitPay"}

LiveNotReleased == Cardinality(LiveReservations) <= reserved
=============================================================================

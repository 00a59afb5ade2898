------------------------------ MODULE MCHeals ------------------------------
(***************************************************************************)
(* StockReconcile for TLC, each reconciler alone and with what it may meet *)
(* in a small state space: the repair of reserved with two orders, crashes *)
(* and errors of Redis, and the repair of available with one order, which  *)
(* is refunded and restocked.                                              *)
(***************************************************************************)
EXTENDS StockReconcile

CONSTANT o1

VARIABLE alone  \* the reconciler that runs

Available == INSTANCE StockReconcile
             WITH Orders <- {o1}, MaxRefunds <- 1, Faults <- {"redis_error"}, Tasks <- {"available"}

Reserved(A)   == alone = "reserved" /\ A /\ UNCHANGED alone
Availables(A) == alone = "available" /\ A /\ UNCHANGED alone

AloneInit ==
  \/ alone = "reserved" /\ ReconcileInit
  \/ alone = "available" /\ Available!ReconcileInit

AloneNext == Reserved(ReconcileNext) \/ Availables(Available!ReconcileNext)

\* The fairness of the two specifications, condition by condition.
AloneFairness ==
  /\ \A o \in Orders :
       /\ WF_<<allVars, alone>>(\/ Reserved(creator[o] # "idle" /\ Handler(o, CreateStep(o)))
             \/ Availables(o = o1 /\ creator[o] # "idle" /\ Available!Handler(o, Available!CreateStep(o))))
       /\ WF_<<allVars, alone>>(\/ Reserved(committer[o] = "due" /\ Handler(o, PayStep(o)))
             \/ Availables(o = o1 /\ committer[o] = "due" /\ Available!Handler(o, Available!PayStep(o))))
       /\ WF_<<allVars, alone>>(\/ Reserved(Handler(o, CancelStep(o)))
             \/ Availables(o = o1 /\ Available!Handler(o, Available!CancelStep(o))))
       /\ WF_<<allVars, alone>>(\/ Reserved(Handler(o, RestockRedis(o)))
             \/ Availables(o = o1 /\ Available!Handler(o, Available!RestockRedis(o))))
       /\ WF_<<allVars, alone>>(\/ Reserved(GraceEnds(o)) \/ Availables(o = o1 /\ Available!GraceEnds(o)))
  /\ WF_<<allVars, alone>>(Reserved(TaskStep) \/ Availables(Available!FixerStep))

AloneSpec == AloneInit /\ [][AloneNext]_<<allVars, alone>> /\ AloneFairness

\* Each reconciler brings its bucket back to what the DB says of it, and it
\* stays there.
EachHeals ==
  <>[](IF alone = "reserved" THEN ReservedAtRest ELSE Available!AvailableAtRest)
=============================================================================

--------------------------- MODULE CircuitBreaker ---------------------------
(***************************************************************************)
(* The circuit breaker in front of payment: atomics that allow reads       *)
(* without the lock, one by one, before it takes it, and report, which     *)
(* works under the lock.  Requests let through carry the generation of     *)
(* their round of probes.                                                  *)
(***************************************************************************)
EXTENDS Integers, FiniteSets

CONSTANTS Calls,            \* requests at a time
          FailureThreshold,
          HalfOpenMaxReq,
          MaxGeneration     \* bound: rounds of probes that may fail

ASSUME BreakerAssumption ==
  /\ IsFiniteSet(Calls)
  /\ FailureThreshold \in Nat \ {0} /\ HalfOpenMaxReq \in Nat \ {0} /\ MaxGeneration \in Nat \ {0}

VARIABLES
  circuit,    \* state
  rested,     \* OpenTimeout has passed since openedAt
  failures, halfOpenReq, halfOpenSuccess, generation,
  call,       \* where each request is
  backendWell \* requests succeed from now on

breakerVars ==
  <<circuit, rested, failures, halfOpenReq, halfOpenSuccess, generation, call, backendWell>>

IdleCall == [at |-> "idle", gen |-> 0, probe |-> FALSE]

BreakerTypeOK ==
  /\ circuit \in {"closed", "open", "half_open"} /\ rested \in BOOLEAN
  /\ failures \in 0..FailureThreshold
  /\ halfOpenReq \in 0..(HalfOpenMaxReq + 1)
  /\ halfOpenSuccess \in 0..HalfOpenMaxReq
  /\ generation \in 0..MaxGeneration
  /\ call \in [Calls -> [at : {"idle", "closed", "lock", "running", "failed", "succeeded"},
                         gen : 0..MaxGeneration, probe : BOOLEAN]]
  /\ backendWell \in BOOLEAN

BreakerInit ==
  /\ circuit = "closed" /\ rested = FALSE
  /\ failures = 0 /\ halfOpenReq = 0 /\ halfOpenSuccess = 0 /\ generation = 0
  /\ call = [c \in Calls |-> IdleCall]
  /\ backendWell = FALSE

Counters == <<failures, halfOpenReq, halfOpenSuccess, generation>>

-----------------------------------------------------------------------------
(* allow *)

\* The state is read without the lock.
Allow(c) ==
  /\ call[c].at = "idle"
  /\ \/ circuit = "closed" /\ call' = [call EXCEPT ![c].at = "closed"]
     \/ circuit = "open" /\ rested /\ call' = [call EXCEPT ![c].at = "lock"]
     \/ circuit = "half_open" /\ call' = [call EXCEPT ![c].at = "lock"]
  /\ UNCHANGED <<circuit, rested, Counters, backendWell>>

Enters(c, probe, gen) ==
  call' = [call EXCEPT ![c] = [at |-> "running", gen |-> gen, probe |-> probe]]

\* The fast path reads the generation after the state.
AllowClosed(c) ==
  /\ call[c].at = "closed" /\ Enters(c, FALSE, generation)
  /\ UNCHANGED <<circuit, rested, Counters, backendWell>>

\* The slow path looks again, under the lock.  Bound: of the requests it refuses,
\* halfOpenReq counts one.
AllowLocked(c) ==
  LET opens == circuit = "open" /\ rested
      probes == opens \/ circuit = "half_open"
      taken == IF opens THEN 1 ELSE IF halfOpenReq > HalfOpenMaxReq THEN halfOpenReq
               ELSE halfOpenReq + 1
      round == IF opens THEN generation + 1 ELSE generation
  IN
  /\ call[c].at = "lock"
  /\ circuit' = IF opens THEN "half_open" ELSE circuit
  /\ generation' = round
  /\ halfOpenReq' = IF probes THEN taken ELSE halfOpenReq
  /\ halfOpenSuccess' = IF opens THEN 0 ELSE halfOpenSuccess
  /\ \/ probes /\ taken <= HalfOpenMaxReq /\ Enters(c, TRUE, round)
     \/ circuit = "closed" /\ Enters(c, FALSE, generation)
     \/ /\ (probes /\ taken > HalfOpenMaxReq) \/ (circuit = "open" /\ ~rested)
        /\ call' = [call EXCEPT ![c] = IdleCall]
  /\ UNCHANGED <<rested, failures, backendWell>>

\* Bound: after MaxGeneration rounds of probes the backend fails no more.
Failing == ~backendWell /\ generation < MaxGeneration

\* Mutant: a panic is not reported.
MutCallEnds(c) ==
  /\ call[c].at = "running"
  /\ \/ call' = [call EXCEPT ![c].at = "succeeded"]
     \/ Failing /\ call' \in {[call EXCEPT ![c].at = "failed"], [call EXCEPT ![c] = IdleCall]}
  /\ UNCHANGED <<circuit, rested, Counters, backendWell>>

\* The handler returns, or panics, which is reported as a failure.
CallEnds(c) ==
  /\ call[c].at = "running"
  /\ \/ call' = [call EXCEPT ![c].at = "succeeded"]
     \/ Failing /\ call' = [call EXCEPT ![c].at = "failed"]
  /\ UNCHANGED <<circuit, rested, Counters, backendWell>>

-----------------------------------------------------------------------------
(* report *)

TripOpenLocked ==
  /\ circuit' = "open" /\ rested' = FALSE
  /\ failures' = 0 /\ halfOpenReq' = 0 /\ halfOpenSuccess' = 0

ReportFailed(c) ==
  /\ call[c].at = "failed"
  /\ \/ circuit = "half_open" /\ TripOpenLocked
     \/ circuit = "closed" /\ failures + 1 >= FailureThreshold /\ TripOpenLocked
     \/ /\ circuit = "closed" /\ failures + 1 < FailureThreshold
        /\ failures' = failures + 1
        /\ UNCHANGED <<circuit, rested, halfOpenReq, halfOpenSuccess>>
     \/ circuit = "open" /\ UNCHANGED <<circuit, rested, failures, halfOpenReq, halfOpenSuccess>>

ReportSucceeded(c) ==
  LET enough == halfOpenSuccess + 1 >= HalfOpenMaxReq IN
  /\ call[c].at = "succeeded"
  /\ circuit' = IF circuit = "half_open" /\ enough THEN "closed" ELSE circuit
  /\ failures' = IF circuit' = "closed" THEN 0 ELSE failures
  /\ halfOpenSuccess' = IF circuit = "half_open" THEN halfOpenSuccess + 1 ELSE halfOpenSuccess
  /\ UNCHANGED <<rested, halfOpenReq>>

\* What an earlier round has to say is too late.
Report(c) ==
  /\ \/ call[c].gen = generation /\ (ReportFailed(c) \/ ReportSucceeded(c))
     \/ /\ call[c].at \in {"failed", "succeeded"} /\ call[c].gen # generation
        /\ UNCHANGED <<circuit, rested, failures, halfOpenReq, halfOpenSuccess>>
  /\ call' = [call EXCEPT ![c] = IdleCall]
  /\ UNCHANGED <<generation, backendWell>>

OpenTimeoutPasses ==
  /\ circuit = "open" /\ ~rested /\ rested' = TRUE
  /\ UNCHANGED <<circuit, Counters, call, backendWell>>

BackendRecovers ==
  /\ ~backendWell /\ backendWell' = TRUE
  /\ UNCHANGED <<circuit, rested, Counters, call>>

CallWorks(c) == AllowClosed(c) \/ AllowLocked(c) \/ CallEnds(c) \/ Report(c)

BreakerNext ==
  \/ \E c \in Calls : Allow(c) \/ CallWorks(c)
  \/ OpenTimeoutPasses \/ BackendRecovers

BreakerSpec == BreakerInit /\ [][BreakerNext]_breakerVars

-----------------------------------------------------------------------------
(* Properties *)

Probes == {c \in Calls : call[c].probe /\ call[c].at # "idle" /\ call[c].gen = generation}

\* However the unlocked reads cross, a backend that is being probed gets no
\* more than HalfOpenMaxReq probes at a time, and none when the circuit is open
\* but those of the round that opened it.
ProbesLimited ==
  /\ Cardinality(Probes) <= HalfOpenMaxReq
  /\ circuit = "half_open" => Cardinality(Probes) <= halfOpenReq

\* A breaker comes out of any state, with late reports, panics and refused
\* requests behind it, once the backend is well: nothing keeps it half open.
BreakerShut     == backendWell /\ circuit # "closed"
BreakerRecovers == BreakerShut ~> ~BreakerShut
=============================================================================

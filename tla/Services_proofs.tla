--------------------------- MODULE Services_proofs --------------------------
(***************************************************************************)
(* Proofs about what stands between a client and a handler (the circuit    *)
(* breaker, the idempotency token, the rate limits, the sessions) and      *)
(* about the copies of a product (the cache, the search index), for any    *)
(* number of requests, ticks, links, editors and events.  The last part    *)
(* puts the services and the campaigns together as MCServices does.        *)
(***************************************************************************)
EXTENDS MCServices, Channels_proofs, RedPacket_proofs

-----------------------------------------------------------------------------
(* The circuit breaker                                                     *)

CallRow == [at : {"idle", "closed", "lock", "running", "failed", "succeeded"},
            gen : 0..MaxGeneration, probe : BOOLEAN]

BreakerConstants ==
  /\ IsFiniteSet(Calls)
  /\ FailureThreshold \in Nat \ {0} /\ HalfOpenMaxReq \in Nat \ {0} /\ MaxGeneration \in Nat \ {0}

LEMMA BreakerConstantsOK == BreakerConstants
BY BreakerAssumption DEF BreakerConstants

BreakerTyped ==
  /\ circuit \in {"closed", "open", "half_open"} /\ rested \in BOOLEAN
  /\ failures \in 0..FailureThreshold /\ halfOpenReq \in 0..(HalfOpenMaxReq + 1)
  /\ halfOpenSuccess \in 0..HalfOpenMaxReq /\ generation \in 0..MaxGeneration
  /\ call \in [Calls -> CallRow] /\ backendWell \in BOOLEAN

\* A request that has not been let through is no probe, and none is of a round
\* to come.
CallsKnown ==
  \A c \in Calls :
    /\ call[c].at \in {"idle", "closed", "lock"} => ~ call[c].probe
    /\ call[c].gen <= generation

\* The probes that are due are those the round has counted.
ProbesCounted ==
  /\ Cardinality(Probes) <= HalfOpenMaxReq
  /\ circuit = "half_open" => Cardinality(Probes) <= halfOpenReq

\* The bounds of the model: nothing fails in the last round, so that it does
\* not end in another one.
RoundsEnd ==
  /\ circuit = "half_open" => halfOpenSuccess < HalfOpenMaxReq
  /\ \A c \in Calls : call[c].at = "failed" => call[c].gen < MaxGeneration
  /\ generation = MaxGeneration => circuit # "open"

BreakerInv == BreakerTyped /\ CallsKnown /\ ProbesCounted /\ RoundsEnd

LEMMA ProbeSets ==
  ASSUME NEW S \in SUBSET Calls
  PROVE  IsFiniteSet(S) /\ Cardinality(S) \in Nat
BY BreakerConstantsOK, FS_Subset, FS_CardinalityType DEF BreakerConstants

\* Where no request becomes a probe of the round there are no more than before.
LEMMA ProbesFewer ==
  ASSUME ProbesCounted, BreakerTyped, UNCHANGED halfOpenReq, circuit' = "half_open" => circuit = "half_open",
         \A c \in Calls : c \in Probes' => c \in Probes
  PROVE  ProbesCounted'
<1>1. Probes' \in SUBSET Calls /\ Probes \in SUBSET Calls /\ Probes' \subseteq Probes
  BY DEF Probes
<1>2. Cardinality(Probes') <= Cardinality(Probes)
  BY <1>1, ProbeSets, FS_Subset
<1>3. Cardinality(Probes') \in Nat /\ Cardinality(Probes) \in Nat
  BY <1>1, ProbeSets
<1> QED
  BY <1>2, <1>3, BreakerConstantsOK DEF ProbesCounted, BreakerTyped, BreakerConstants

\* A step that only moves a request on, or ends it.
LEMMA CallMoves ==
  ASSUME BreakerInv, NEW c \in Calls, NEW r \in CallRow,
         call' = [call EXCEPT ![c] = r], r.gen <= generation,
         r.probe /\ r.gen = generation /\ r.at # "idle" => c \in Probes,
         r.at \in {"idle", "closed", "lock"} => ~ r.probe,
         UNCHANGED generation
  PROVE  /\ call' \in [Calls -> CallRow] /\ CallsKnown'
         /\ \A d \in Calls : d \in Probes' => d \in Probes
<1>1. call'[c] = r /\ \A d \in Calls : d # c => call'[d] = call[d]
  BY DEF BreakerInv, BreakerTyped
<1>2. call' \in [Calls -> CallRow]
  BY DEF BreakerInv, BreakerTyped
<1>3. CallsKnown'
  BY <1>1 DEF BreakerInv, CallsKnown
<1>4. ASSUME NEW d \in Calls, d \in Probes' PROVE d \in Probes
  <2>1. CASE d = c
    BY <1>1, <1>4, <2>1 DEF Probes
  <2>2. CASE d # c
    BY <1>1, <1>4, <2>2 DEF Probes
  <2> QED
    BY <2>1, <2>2
<1> QED
  BY <1>2, <1>3, <1>4

LEMMA AllowStep ==
  ASSUME BreakerInv, NEW c \in Calls, Allow(c)
  PROVE  BreakerInv'
<1>1. PICK at \in {"closed", "lock"} : call' = [call EXCEPT ![c] = [call[c] EXCEPT !.at = at]]
  BY DEF Allow
<1> DEFINE r == [call[c] EXCEPT !.at = at]
<1>2. r \in CallRow /\ r.at = at /\ r.gen = call[c].gen /\ r.probe = call[c].probe
  BY <1>1 DEF BreakerInv, BreakerTyped, CallRow
<1>3. ~ r.probe /\ r.gen <= generation
  BY <1>2 DEF Allow, BreakerInv, CallsKnown
<1> HIDE DEF r
<1>4. UNCHANGED <<circuit, rested, Counters, backendWell>>
  BY DEF Allow
<1>5. /\ call' \in [Calls -> CallRow] /\ CallsKnown'
      /\ \A d \in Calls : d \in Probes' => d \in Probes
  BY <1>1, <1>2, <1>3, <1>4, CallMoves DEF r, Counters
<1>6. ProbesCounted'
  BY <1>4, <1>5, ProbesFewer DEF BreakerInv, Counters
<1>7. BreakerTyped'
  BY <1>4, <1>5 DEF BreakerInv, BreakerTyped, Counters
<1>8. RoundsEnd'
  <2>1. \A d \in Calls : call'[d].at = "failed" => call'[d] = call[d]
    BY <1>1, <1>2 DEF r, BreakerInv, BreakerTyped
  <2> QED
    BY <1>4, <2>1 DEF BreakerInv, RoundsEnd, Counters
<1> QED
  BY <1>5, <1>6, <1>7, <1>8 DEF BreakerInv

LEMMA AllowClosedStep ==
  ASSUME BreakerInv, NEW c \in Calls, AllowClosed(c)
  PROVE  BreakerInv'
<1> DEFINE r == [at |-> "running", gen |-> generation, probe |-> FALSE]
<1>1. call' = [call EXCEPT ![c] = r] /\ UNCHANGED <<circuit, rested, Counters, backendWell>>
  BY DEF AllowClosed, Enters
<1>2. r \in CallRow /\ r.at = "running" /\ ~ r.probe /\ r.gen <= generation
  BY BreakerConstantsOK DEF BreakerInv, BreakerTyped, CallRow, BreakerConstants
<1> HIDE DEF r
<1>3. /\ call' \in [Calls -> CallRow] /\ CallsKnown'
      /\ \A d \in Calls : d \in Probes' => d \in Probes
  BY <1>1, <1>2, CallMoves DEF Counters
<1>4. ProbesCounted'
  BY <1>1, <1>3, ProbesFewer DEF BreakerInv, Counters
<1>5. BreakerTyped'
  BY <1>1, <1>3 DEF BreakerInv, BreakerTyped, Counters
<1>6. RoundsEnd'
  <2>1. \A d \in Calls : call'[d].at = "failed" => call'[d] = call[d]
    BY <1>1, <1>2 DEF BreakerInv, BreakerTyped
  <2> QED
    BY <1>1, <2>1 DEF BreakerInv, RoundsEnd, Counters
<1> QED
  BY <1>3, <1>4, <1>5, <1>6 DEF BreakerInv

LEMMA AllowLockedStep ==
  ASSUME BreakerInv, NEW c \in Calls, AllowLocked(c)
  PROVE  BreakerInv'
<1> DEFINE opens == circuit = "open" /\ rested
           probes == opens \/ circuit = "half_open"
           asked == IF opens THEN 1 ELSE IF halfOpenReq > HalfOpenMaxReq THEN halfOpenReq
                    ELSE halfOpenReq + 1
<1> USE BreakerConstantsOK DEF BreakerConstants
<1>1. c \notin Probes
  BY DEF AllowLocked, Probes, BreakerInv, CallsKnown
<1>2. Probes \in SUBSET Calls /\ IsFiniteSet(Probes) /\ Cardinality(Probes) \in Nat
  <2>1. Probes \in SUBSET Calls
    BY DEF Probes
  <2> QED
    BY <2>1, ProbeSets
<1>3. CASE opens
  \* The first probe of a new round: those of earlier rounds count no more.
  <2> DEFINE r == [at |-> "running", gen |-> generation + 1, probe |-> TRUE]
  <2>1. /\ circuit' = "half_open" /\ generation' = generation + 1 /\ halfOpenReq' = 1
        /\ halfOpenSuccess' = 0 /\ UNCHANGED <<rested, failures, backendWell>>
        /\ call' = [call EXCEPT ![c] = r]
    BY <1>3 DEF AllowLocked, Enters
  <2>2. generation + 1 \in 0..MaxGeneration
    BY <1>3 DEF BreakerInv, RoundsEnd, BreakerTyped
  <2>3. r \in CallRow /\ r.at = "running" /\ r.gen = generation + 1
    BY <2>2 DEF CallRow
  <2> HIDE DEF r
  <2>4. call' \in [Calls -> CallRow] /\ call'[c] = r /\ \A d \in Calls : d # c => call'[d] = call[d]
    BY <2>1, <2>3 DEF BreakerInv, BreakerTyped
  <2>5. ASSUME NEW d \in Calls, d # c PROVE d \notin Probes'
    <3>1. call'[d].gen <= generation /\ call'[d].gen \in Nat /\ generation \in Nat
      BY <2>4, <2>5 DEF BreakerInv, CallsKnown, BreakerTyped, CallRow
    <3> QED
      BY <2>1, <3>1 DEF Probes
  <2>6. Probes' \subseteq {c}
    BY <2>5 DEF Probes
  <2>7. Cardinality(Probes') \in Nat /\ Cardinality(Probes') <= 1
    <3>1. IsFiniteSet({c}) /\ Cardinality({c}) = 1
      BY FS_Singleton
    <3> QED
      BY <2>6, <3>1, FS_Subset, FS_CardinalityType
  <2>8. ProbesCounted'
    BY <2>1, <2>7 DEF ProbesCounted
  <2>9. CallsKnown'
    <3> SUFFICES ASSUME NEW d \in Calls
                 PROVE  /\ call'[d].at \in {"idle", "closed", "lock"} => ~ call'[d].probe
                        /\ call'[d].gen <= generation'
      BY DEF CallsKnown
    <3>1. CASE d = c
      BY <2>1, <2>2, <2>3, <2>4, <3>1
    <3>2. CASE d # c
      BY <2>1, <2>4, <3>2 DEF BreakerInv, CallsKnown, BreakerTyped, CallRow
    <3> QED
      BY <3>1, <3>2
  <2>10. BreakerTyped'
    BY <2>1, <2>2, <2>4 DEF BreakerInv, BreakerTyped
  <2>11. RoundsEnd'
    <3>1. \A d \in Calls : call'[d].at = "failed" => call'[d] = call[d]
      BY <2>3, <2>4
    <3> QED
      BY <2>1, <3>1 DEF BreakerInv, RoundsEnd
  <2> QED
    BY <2>8, <2>9, <2>10, <2>11 DEF BreakerInv
<1>4. CASE ~ opens /\ circuit = "half_open" /\ asked <= HalfOpenMaxReq
  <2> DEFINE r == [at |-> "running", gen |-> generation, probe |-> TRUE]
  <2>0. asked = halfOpenReq + 1 /\ asked \in 0..HalfOpenMaxReq
    BY <1>4 DEF BreakerInv, BreakerTyped
  <2>1. /\ circuit' = circuit /\ generation' = generation /\ halfOpenReq' = halfOpenReq + 1
        /\ halfOpenSuccess' = halfOpenSuccess /\ UNCHANGED <<rested, failures, backendWell>>
        /\ call' = [call EXCEPT ![c] = r]
    BY <1>4, <2>0 DEF AllowLocked, Enters
  <2>2. r \in CallRow /\ r.at = "running" /\ r.gen = generation
    BY DEF CallRow, BreakerInv, BreakerTyped
  <2> HIDE DEF r
  <2>3. call' \in [Calls -> CallRow] /\ call'[c] = r /\ \A d \in Calls : d # c => call'[d] = call[d]
    BY <2>1, <2>2 DEF BreakerInv, BreakerTyped
  <2>4. Probes' \subseteq Probes \cup {c}
    BY <2>1, <2>3 DEF Probes
  <2>5. Cardinality(Probes') \in Nat /\ Cardinality(Probes') <= Cardinality(Probes) + 1
    <3>1. IsFiniteSet(Probes \cup {c}) /\ Cardinality(Probes \cup {c}) = Cardinality(Probes) + 1
      BY <1>1, <1>2, FS_AddElement
    <3> QED
      BY <2>4, <3>1, FS_Subset, FS_CardinalityType
  <2>6. ProbesCounted'
    BY <1>2, <1>4, <2>0, <2>1, <2>5 DEF ProbesCounted, BreakerInv, BreakerTyped
  <2>7. CallsKnown'
    <3> SUFFICES ASSUME NEW d \in Calls
                 PROVE  /\ call'[d].at \in {"idle", "closed", "lock"} => ~ call'[d].probe
                        /\ call'[d].gen <= generation'
      BY DEF CallsKnown
    <3>1. CASE d = c
      BY <2>1, <2>2, <2>3, <3>1 DEF BreakerInv, BreakerTyped
    <3>2. CASE d # c
      BY <2>1, <2>3, <3>2 DEF BreakerInv, CallsKnown
    <3> QED
      BY <3>1, <3>2
  <2>8. BreakerTyped'
    BY <2>0, <2>1, <2>3 DEF BreakerInv, BreakerTyped
  <2>9. RoundsEnd'
    <3>1. \A d \in Calls : call'[d].at = "failed" => call'[d] = call[d]
      BY <2>2, <2>3
    <3> QED
      BY <2>1, <3>1 DEF BreakerInv, RoundsEnd
  <2> QED
    BY <2>6, <2>7, <2>8, <2>9 DEF BreakerInv
<1>5. CASE ~ opens /\ ~ (circuit = "half_open" /\ asked <= HalfOpenMaxReq)
  \* Refused, or let through by a circuit that has been closed meanwhile.
  <2>1. PICK r \in {[at |-> "running", gen |-> generation, probe |-> FALSE], IdleCall} :
          call' = [call EXCEPT ![c] = r]
    BY <1>5 DEF AllowLocked, Enters
  <2>2. /\ circuit' = circuit /\ generation' = generation
        /\ halfOpenReq' \in 0..(HalfOpenMaxReq + 1) /\ halfOpenReq <= halfOpenReq'
        /\ halfOpenSuccess' = halfOpenSuccess /\ UNCHANGED <<rested, failures, backendWell>>
    BY <1>5 DEF AllowLocked, BreakerInv, BreakerTyped
  <2>3. r \in CallRow /\ r.at \in {"running", "idle"} /\ ~ r.probe /\ r.gen <= generation
    <3>1. generation \in 0..MaxGeneration /\ 0 \in 0..MaxGeneration
      BY DEF BreakerInv, BreakerTyped
    <3>2. CASE r = IdleCall
      BY <3>1, <3>2 DEF CallRow, IdleCall
    <3>3. CASE r = [at |-> "running", gen |-> generation, probe |-> FALSE]
      BY <3>1, <3>3 DEF CallRow
    <3> QED
      BY <2>1, <3>2, <3>3
  <2>4. /\ call' \in [Calls -> CallRow] /\ CallsKnown'
        /\ \A d \in Calls : d \in Probes' => d \in Probes
    BY <2>1, <2>2, <2>3, CallMoves
  <2>5. Cardinality(Probes') \in Nat /\ Cardinality(Probes') <= Cardinality(Probes)
    <3>1. Probes' \subseteq Probes
      BY <2>4 DEF Probes
    <3> QED
      BY <3>1, <1>2, FS_Subset, FS_CardinalityType
  <2>6. ProbesCounted'
    BY <1>2, <2>2, <2>5 DEF ProbesCounted, BreakerInv, BreakerTyped
  <2>7. BreakerTyped'
    BY <2>2, <2>4 DEF BreakerInv, BreakerTyped
  <2>8. RoundsEnd'
    <3>1. \A d \in Calls : call'[d].at = "failed" => call'[d] = call[d]
      BY <2>1, <2>3 DEF BreakerInv, BreakerTyped
    <3> QED
      BY <2>2, <3>1 DEF BreakerInv, RoundsEnd
  <2> QED
    BY <2>4, <2>6, <2>7, <2>8 DEF BreakerInv
<1> QED
  BY <1>3, <1>4, <1>5

LEMMA CallEndsStep ==
  ASSUME BreakerInv, NEW c \in Calls, CallEnds(c)
  PROVE  BreakerInv'
<1>1. PICK at \in {"succeeded", "failed"} :
        /\ call' = [call EXCEPT ![c] = [call[c] EXCEPT !.at = at]]
        /\ at = "failed" => Failing
  BY DEF CallEnds
<1> DEFINE r == [call[c] EXCEPT !.at = at]
<1>2. r \in CallRow /\ r.at = at /\ r.gen = call[c].gen /\ r.probe = call[c].probe
  BY <1>1 DEF BreakerInv, BreakerTyped, CallRow
<1>3. r.gen <= generation /\ r.gen \in Nat
  BY <1>2 DEF BreakerInv, CallsKnown, CallRow
<1>4. UNCHANGED <<circuit, rested, Counters, backendWell>> /\ call[c].at = "running"
  BY DEF CallEnds
<1>5. r.probe /\ r.gen = generation => c \in Probes
  BY <1>2, <1>4 DEF Probes
<1> HIDE DEF r
<1>6. /\ call' \in [Calls -> CallRow] /\ CallsKnown'
      /\ \A d \in Calls : d \in Probes' => d \in Probes
  BY <1>1, <1>2, <1>3, <1>4, <1>5, CallMoves DEF r, Counters
<1>7. ProbesCounted'
  BY <1>4, <1>6, ProbesFewer DEF BreakerInv, Counters
<1>8. BreakerTyped'
  BY <1>4, <1>6 DEF BreakerInv, BreakerTyped, Counters
<1>9. RoundsEnd'
  <2>1. call'[c] = r /\ \A d \in Calls : d # c => call'[d] = call[d]
    BY <1>1 DEF r, BreakerInv, BreakerTyped
  <2>2. r.at = "failed" => r.gen < MaxGeneration
    BY <1>1, <1>2, <1>3, BreakerConstantsOK DEF Failing, BreakerInv, BreakerTyped, BreakerConstants
  <2> QED
    BY <1>4, <2>1, <2>2 DEF BreakerInv, RoundsEnd, Counters
<1> QED
  BY <1>6, <1>7, <1>8, <1>9 DEF BreakerInv

LEMMA ReportStep ==
  ASSUME BreakerInv, NEW c \in Calls, Report(c)
  PROVE  BreakerInv'
<1> USE BreakerConstantsOK DEF BreakerConstants
<1>1. call' = [call EXCEPT ![c] = IdleCall] /\ UNCHANGED <<generation, backendWell>>
  BY DEF Report
<1>2. IdleCall \in CallRow /\ IdleCall.at = "idle" /\ ~ IdleCall.probe /\ IdleCall.gen <= generation
  BY DEF IdleCall, CallRow, BreakerInv, BreakerTyped
<1>3. /\ call' \in [Calls -> CallRow] /\ CallsKnown'
      /\ \A d \in Calls : d \in Probes' => d \in Probes
  BY <1>1, <1>2, CallMoves
<1>4. \A d \in Calls : call'[d].at = "failed" => call'[d] = call[d]
  BY <1>1, <1>2 DEF BreakerInv, BreakerTyped
<1>5. CASE UNCHANGED <<circuit, rested, failures, halfOpenReq, halfOpenSuccess>>
  <2>1. ProbesCounted'
    BY <1>3, <1>5, ProbesFewer DEF BreakerInv
  <2> QED
    BY <1>1, <1>3, <1>4, <1>5, <2>1 DEF BreakerInv, BreakerTyped, RoundsEnd
<1>6. CASE call[c].gen = generation /\ ReportFailed(c)
  <2>1. generation # MaxGeneration
    BY <1>6 DEF ReportFailed, BreakerInv, RoundsEnd, BreakerTyped
  <2>2. CASE TripOpenLocked
    <3>1. ProbesCounted'
      <4>1. Probes' \subseteq Probes /\ Probes \in SUBSET Calls
        BY <1>3 DEF Probes
      <4>2. Cardinality(Probes') <= Cardinality(Probes) /\ Cardinality(Probes') \in Nat
            /\ Cardinality(Probes) \in Nat
        BY <4>1, ProbeSets, FS_Subset
      <4> QED
        BY <2>2, <4>2 DEF TripOpenLocked, ProbesCounted, BreakerInv
    <3>2. BreakerTyped'
      <4>1. /\ circuit' = "open" /\ rested' = FALSE
            /\ failures' = 0 /\ halfOpenReq' = 0 /\ halfOpenSuccess' = 0
        BY <2>2 DEF TripOpenLocked
      <4>2. /\ failures' \in 0..FailureThreshold /\ halfOpenReq' \in 0..(HalfOpenMaxReq + 1)
            /\ halfOpenSuccess' \in 0..HalfOpenMaxReq
        BY <4>1
      <4>3. generation' \in 0..MaxGeneration /\ backendWell' \in BOOLEAN
        BY <1>1 DEF BreakerInv, BreakerTyped
      <4> QED
        BY <1>3, <4>1, <4>2, <4>3 DEF BreakerTyped
    <3>3. RoundsEnd'
      BY <1>1, <1>4, <2>1, <2>2 DEF TripOpenLocked, BreakerInv, RoundsEnd
    <3> QED
      BY <1>3, <3>1, <3>2, <3>3 DEF BreakerInv
  <2>3. CASE /\ failures + 1 < FailureThreshold /\ failures' = failures + 1
             /\ UNCHANGED <<circuit, rested, halfOpenReq, halfOpenSuccess>>
    <3>1. ProbesCounted'
      BY <1>3, <2>3, ProbesFewer DEF BreakerInv
    <3> QED
      BY <1>1, <1>3, <1>4, <2>3, <3>1 DEF BreakerInv, BreakerTyped, RoundsEnd
  <2> QED
    BY <1>5, <1>6, <2>2, <2>3 DEF ReportFailed
<1>7. CASE call[c].gen = generation /\ ReportSucceeded(c)
  <2>1. /\ UNCHANGED <<rested, halfOpenReq>> /\ circuit' \in {circuit, "closed"}
        /\ failures' \in {0, failures}
    BY <1>7 DEF ReportSucceeded
  <2>2. ProbesCounted'
    BY <1>3, <2>1, ProbesFewer DEF BreakerInv
  <2>3. /\ halfOpenSuccess' \in 0..HalfOpenMaxReq
        /\ circuit' = "half_open" => halfOpenSuccess' < HalfOpenMaxReq
    BY <1>7 DEF ReportSucceeded, BreakerInv, BreakerTyped, RoundsEnd
  <2>4. generation = MaxGeneration => circuit' # "open"
    BY <2>1 DEF BreakerInv, RoundsEnd
  <2>5. RoundsEnd'
    BY <1>1, <1>4, <2>3, <2>4 DEF BreakerInv, RoundsEnd
  <2>6. BreakerTyped'
    BY <1>1, <1>3, <2>1, <2>3 DEF BreakerInv, BreakerTyped
  <2> QED
    BY <1>3, <2>2, <2>5, <2>6 DEF BreakerInv
<1> QED
  BY <1>5, <1>6, <1>7 DEF Report

LEMMA BreakerStep ==
  ASSUME BreakerInv, [BreakerNext]_breakerVars
  PROVE  BreakerInv'
<1>1. CASE UNCHANGED <<circuit, Counters, call>> /\ rested' \in BOOLEAN /\ backendWell' \in BOOLEAN
  BY <1>1 DEF BreakerInv, BreakerTyped, CallsKnown, ProbesCounted, RoundsEnd, Probes, Counters
<1>2. CASE UNCHANGED breakerVars \/ OpenTimeoutPasses \/ BackendRecovers
  BY <1>1, <1>2 DEF breakerVars, OpenTimeoutPasses, BackendRecovers, BreakerInv, BreakerTyped, Counters
<1>3. ASSUME NEW c \in Calls, Allow(c) \/ CallWorks(c) PROVE BreakerInv'
  BY <1>3, AllowStep, AllowClosedStep, AllowLockedStep, CallEndsStep, ReportStep DEF CallWorks
<1> QED
  BY <1>2, <1>3 DEF BreakerNext

LEMMA BreakerCorrect == BreakerSpec => []BreakerInv
<1>1. BreakerInit => BreakerInv
  <2> SUFFICES ASSUME BreakerInit PROVE BreakerInv
    OBVIOUS
  <2> USE BreakerConstantsOK DEF BreakerConstants
  <2>1. IdleCall \in CallRow /\ IdleCall.at = "idle" /\ ~ IdleCall.probe /\ IdleCall.gen = 0
    BY DEF IdleCall, CallRow
  <2>2. call \in [Calls -> CallRow] /\ \A c \in Calls : call[c] = IdleCall
    BY <2>1 DEF BreakerInit
  <2>3. Probes = {} /\ Cardinality(Probes) = 0
    <3>1. Probes = {}
      BY <2>1, <2>2 DEF Probes
    <3> QED
      BY <3>1, FS_EmptySet
  <2>4. BreakerTyped
    <3>1. /\ failures \in 0..FailureThreshold /\ halfOpenReq \in 0..(HalfOpenMaxReq + 1)
          /\ halfOpenSuccess \in 0..HalfOpenMaxReq /\ generation \in 0..MaxGeneration
      BY DEF BreakerInit
    <3>2. circuit \in {"closed", "open", "half_open"} /\ rested \in BOOLEAN /\ backendWell \in BOOLEAN
      BY DEF BreakerInit
    <3> QED
      BY <2>2, <3>1, <3>2 DEF BreakerTyped
  <2>5. CallsKnown
    BY <2>1, <2>2 DEF BreakerInit, CallsKnown
  <2>6. ProbesCounted
    BY <2>3 DEF BreakerInit, ProbesCounted
  <2>7. RoundsEnd
    BY <2>1, <2>2 DEF BreakerInit, RoundsEnd
  <2> QED
    BY <2>4, <2>5, <2>6, <2>7 DEF BreakerInv
<1> QED
  BY <1>1, BreakerStep, PTL DEF BreakerSpec

\* Types of the atomics and of the requests, the rounds within their bound.
THEOREM BreakerTypeCorrect == BreakerSpec => []BreakerTypeOK
<1>1. BreakerInv => BreakerTypeOK
  BY DEF BreakerInv, BreakerTyped, BreakerTypeOK, CallRow
<1> QED
  BY <1>1, BreakerCorrect, PTL

\* A backend that is probed gets as many probes as it may, for any number of
\* requests that read the state before the lock and report after their round.
THEOREM ProbesStayLimited == BreakerSpec => []ProbesLimited
<1>1. BreakerInv => ProbesLimited
  BY DEF BreakerInv, ProbesCounted, ProbesLimited
<1> QED
  BY <1>1, BreakerCorrect, PTL

-----------------------------------------------------------------------------
(* The idempotency token                                                   *)

SendRow == [at : {"idle", "handler", "commit", "release"}, tries : 0..CommitTries]

\* What a request that holds the record knows of it: while its handler is under
\* way or has failed nothing is done and no one else can acquire the record,
\* and after the handler's success the record is not given free again.
HolderKnows(s) ==
  /\ send[s].at \in {"handler", "release"} => effects = 0 /\ tokenState \in {"missing", "processing"}
  /\ send[s].at = "commit" => effects = 1 /\ tokenState # "init"

TokenInv ==
  /\ tokenState \in {"missing", "init", "processing", "done"}
  /\ send \in [Sends -> SendRow]
  /\ effects \in {0, 1} /\ effects \in 0..MaxEffects /\ replayed \in BOOLEAN
  /\ \A s, t \in Sends : send[s].at # "idle" /\ send[t].at # "idle" => s = t
  /\ \A s \in Sends : HolderKnows(s)
  /\ tokenState = "init" => effects = 0 /\ \A s \in Sends : send[s].at = "idle"
  /\ tokenState = "done" \/ replayed => effects = 1

\* A request that ends, or whose process dies, takes its knowledge with it.
LEMMA SendEnds ==
  ASSUME TokenInv, NEW s \in Sends, send' = [send EXCEPT ![s] = IdleSend]
  PROVE  /\ send' \in [Sends -> SendRow]
         /\ \A t \in Sends : t # s => send'[t] = send[t]
         /\ send'[s].at = "idle"
         /\ \A t, u \in Sends : send'[t].at # "idle" /\ send'[u].at # "idle" => t = u
<1>1. IdleSend \in SendRow /\ IdleSend.at = "idle"
  BY CommitAssumption DEF IdleSend, SendRow
<1> QED
  BY <1>1 DEF TokenInv

LEMMA TokenStep ==
  ASSUME TokenInv, [TokenNext]_tokenVars
  PROVE  TokenInv'
<1> USE CommitAssumption
<1>1. CASE UNCHANGED tokenVars
  BY <1>1 DEF TokenInv, HolderKnows, tokenVars
<1>2. CASE IssueToken
  BY <1>2 DEF IssueToken, TokenInv, HolderKnows, IdleSend
<1>3. CASE TokenExpires
  BY <1>3 DEF TokenExpires, TokenInv, HolderKnows
<1>4. ASSUME NEW s \in Sends, Acquire(s) PROVE TokenInv'
  <2>1. CASE /\ tokenState = "init" /\ tokenState' = "processing"
             /\ send' = [send EXCEPT ![s].at = "handler"] /\ UNCHANGED <<replayed, effects>>
    <3>1. effects = 0 /\ \A t \in Sends : send[t].at = "idle"
      BY <2>1 DEF TokenInv
    <3>2. /\ send' \in [Sends -> SendRow] /\ send'[s].at = "handler"
          /\ \A t \in Sends : t # s => send'[t].at = "idle"
      BY <2>1, <3>1 DEF TokenInv, SendRow
    <3>3. \A t \in Sends : HolderKnows(t)'
      BY <2>1, <3>1, <3>2 DEF HolderKnows
    <3> QED
      BY <2>1, <3>1, <3>2, <3>3 DEF TokenInv
  <2>2. CASE /\ tokenState = "init" /\ tokenState' = "processing"
             /\ UNCHANGED <<send, replayed, effects>>
    BY <2>2 DEF TokenInv, HolderKnows
  <2>3. CASE tokenState = "done" /\ replayed' = TRUE /\ UNCHANGED <<tokenState, send, effects>>
    BY <2>3 DEF TokenInv, HolderKnows
  <2> QED
    BY <1>4, <2>1, <2>2, <2>3 DEF Acquire
<1>5. ASSUME NEW s \in Sends, HandlerReturns(s) PROVE TokenInv'
  <2>0. /\ effects = 0 /\ tokenState \in {"missing", "processing"} /\ ~ replayed
        /\ \A t \in Sends : t # s => send[t].at = "idle"
    BY <1>5 DEF HandlerReturns, TokenInv, HolderKnows
  <2>1. CASE effects < MaxEffects /\ effects' = effects + 1 /\ send' = [send EXCEPT ![s].at = "commit"]
    <3>1. /\ send' \in [Sends -> SendRow] /\ send'[s].at = "commit"
          /\ \A t \in Sends : t # s => send'[t].at = "idle"
      BY <2>0, <2>1 DEF TokenInv, SendRow
    <3> QED
      BY <1>5, <2>0, <2>1, <3>1 DEF HandlerReturns, TokenInv, HolderKnows
  <2>2. CASE UNCHANGED effects /\ send' = [send EXCEPT ![s].at = "release"]
    <3>1. /\ send' \in [Sends -> SendRow] /\ send'[s].at = "release"
          /\ \A t \in Sends : t # s => send'[t].at = "idle"
      BY <2>0, <2>2 DEF TokenInv, SendRow
    <3> QED
      BY <1>5, <2>0, <2>2, <3>1 DEF HandlerReturns, TokenInv, HolderKnows
  <2> QED
    BY <1>5, <2>1, <2>2 DEF HandlerReturns
<1>6. ASSUME NEW s \in Sends, send[s].at = "commit", tokenState' \in {tokenState, "done"},
             send' = [send EXCEPT ![s] = IdleSend], UNCHANGED <<effects, replayed>>
      PROVE  TokenInv'
  <2>1. effects = 1 /\ tokenState # "init"
    BY <1>6 DEF TokenInv, HolderKnows
  <2> QED
    BY <1>6, <2>1, SendEnds DEF TokenInv, HolderKnows
<1>7. ASSUME NEW s \in Sends, CommitResult(s) PROVE TokenInv'
  BY <1>6, <1>7 DEF CommitResult
<1>8. ASSUME NEW s \in Sends, CommitResultFails(s) PROVE TokenInv'
  <2>1. CASE ~ (send[s].tries + 1 < CommitTries)
    BY <1>6, <1>8, <2>1 DEF CommitResultFails
  <2>2. CASE send[s].tries + 1 < CommitTries
    <3>1. send' = [send EXCEPT ![s] = [send[s] EXCEPT !.tries = send[s].tries + 1]]
      BY <1>8, <2>2 DEF CommitResultFails
    <3>2. [send[s] EXCEPT !.tries = send[s].tries + 1] \in SendRow
      BY <2>2 DEF TokenInv, SendRow
    <3>3. /\ send' \in [Sends -> SendRow]
          /\ \A t \in Sends : send'[t].at = send[t].at
      BY <3>1, <3>2 DEF TokenInv, SendRow
    <3>4. effects = 1 /\ tokenState # "init"
      BY <1>8 DEF CommitResultFails, TokenInv, HolderKnows
    <3>5. \A t \in Sends : send[t].at \notin {"handler", "release"}
      BY <3>4 DEF TokenInv, HolderKnows
    <3> QED
      BY <1>8, <3>3, <3>4, <3>5 DEF CommitResultFails, TokenInv, HolderKnows
  <2> QED
    BY <2>1, <2>2
<1>9. ASSUME NEW s \in Sends, ReleaseToken(s) PROVE TokenInv'
  <2>1. /\ effects = 0 /\ tokenState \in {"missing", "processing"} /\ ~ replayed
        /\ \A t \in Sends : t # s => send[t].at = "idle"
    BY <1>9 DEF ReleaseToken, TokenInv, HolderKnows
  <2>2. send' \in [Sends -> SendRow] /\ \A t \in Sends : send'[t].at = "idle"
    BY <1>9, <2>1, SendEnds DEF ReleaseToken
  <2> QED
    BY <1>9, <2>1, <2>2 DEF ReleaseToken, TokenInv, HolderKnows
<1>10. ASSUME NEW s \in Sends, SendDies(s) PROVE TokenInv'
  <2>1. /\ send' \in [Sends -> SendRow]
        /\ \A t \in Sends : t # s => send'[t] = send[t]
        /\ send'[s].at = "idle"
        /\ \A t, u \in Sends : send'[t].at # "idle" /\ send'[u].at # "idle" => t = u
    BY <1>10, SendEnds DEF SendDies
  <2>2. \A t \in Sends : send'[t].at = "idle" \/ send'[t] = send[t]
    BY <2>1
  <2>3. tokenState' = "init" => \A t \in Sends : send'[t].at = "idle"
    BY <1>10, <2>2 DEF SendDies, TokenInv
  <2>4. ASSUME NEW t \in Sends PROVE HolderKnows(t)'
    BY <1>10, <2>2 DEF SendDies, TokenInv, HolderKnows
  <2>5. UNCHANGED <<tokenState, effects, replayed>>
    BY <1>10 DEF SendDies
  <2> QED
    BY <2>1, <2>3, <2>4, <2>5 DEF TokenInv
<1> QED
  BY <1>1, <1>2, <1>3, <1>4, <1>5, <1>7, <1>8, <1>9, <1>10 DEF TokenNext

LEMMA TokenCorrect == TokenSpec => []TokenInv
<1>1. TokenInit => TokenInv
  <2> SUFFICES ASSUME TokenInit PROVE TokenInv
    OBVIOUS
  <2>1. IdleSend \in SendRow /\ IdleSend.at = "idle"
    BY CommitAssumption DEF IdleSend, SendRow
  <2>2. send \in [Sends -> SendRow] /\ \A s \in Sends : send[s].at = "idle"
    BY <2>1 DEF TokenInit
  <2>3. effects \in {0, 1} /\ effects \in 0..MaxEffects
    BY CommitAssumption DEF TokenInit
  <2>4. tokenState = "missing" /\ effects = 0 /\ replayed = FALSE
    BY DEF TokenInit
  <2>5. \A s \in Sends : HolderKnows(s)
    BY <2>2 DEF HolderKnows
  <2>6. ~ (tokenState = "done" \/ replayed) /\ tokenState # "init"
    BY <2>4
  <2> QED
    BY <2>2, <2>3, <2>4, <2>5, <2>6 DEF TokenInv
<1> QED
  BY <1>1, TokenStep, PTL DEF TokenSpec

\* Types of the token's record and of the requests that carry it.
THEOREM TokenTypeCorrect == TokenSpec => []TokenTypeOK
<1>1. TokenInv => TokenTypeOK
  BY DEF TokenInv, TokenTypeOK, SendRow
<1> QED
  BY <1>1, TokenCorrect, PTL

\* A token has one effect, for any number of requests that carry it, whatever
\* expires, is lost or dies.
THEOREM TokenHasOneEffect == TokenSpec => []OncePerToken
<1>1. TokenInv => OncePerToken
  <2> SUFFICES ASSUME TokenInv PROVE OncePerToken
    OBVIOUS
  <2> DEFINE B == {s \in Sends : send[s].at # "idle"}
  <2>1. B = {} \/ \E s \in Sends : B = {s}
    BY DEF TokenInv
  <2>2. Cardinality(B) <= 1
    <3>1. CASE B = {}
      BY <3>1, FS_EmptySet
    <3>2. ASSUME NEW s \in Sends, B = {s} PROVE Cardinality(B) <= 1
      <4>1. Cardinality({s}) = 1
        BY FS_Singleton
      <4> QED
        BY <3>2, <4>1
    <3> QED
      BY <2>1, <3>1, <3>2
  <2> QED
    BY <2>2 DEF TokenInv, OncePerToken
<1> QED
  BY <1>1, TokenCorrect, PTL

-----------------------------------------------------------------------------
(* The rate limits                                                         *)

ThrottleConstants ==
  /\ MaxTick \in Nat /\ MaxBurst \in Nat
  /\ WindowTicks \in Nat \ {0} /\ WindowLimit \in Nat \ {0} /\ MaxSkew \in Nat /\ MaxSkew < WindowTicks
  /\ Refill \in Nat \ {0} /\ BucketSize \in Nat
  /\ IdleTicks \in Nat /\ IdleTicks * Refill >= BucketSize /\ NoBucket = -1

LEMMA ThrottleConstantsOK == ThrottleConstants
BY ThrottleAssumption DEF ThrottleConstants, NoBucket

LEMMA TicksFinite == IsFiniteSet(Ticks) /\ \A t \in Ticks : t \in Nat /\ t <= MaxTick
BY ThrottleConstantsOK, FS_Interval DEF Ticks, ThrottleConstants

\* The total of a stretch is a sum over all ticks, of what counts in the stretch.
Stretch(f, from, to) == [t \in Ticks |-> IF from <= t /\ t <= to THEN f[t] ELSE 0]

LEMMA TotalIs ==
  ASSUME NEW f \in [Ticks -> Int], NEW from \in Nat, NEW to \in Int, to <= MaxTick
  PROVE  /\ Stretch(f, from, to) \in [Ticks -> Int]
         /\ Total(f, from, to) = SumFunctionOnSet(Stretch(f, from, to), Ticks)
<1> DEFINE S == from..to
           p == [t \in S |-> t]
           h == [t \in S |-> f[t]]
           g == Stretch(f, from, to)
<1>1. S \subseteq Ticks /\ IsFiniteSet(S) /\ \A t \in Ticks : t \in S <=> from <= t /\ t <= to
  <2>1. S \subseteq Ticks /\ \A t \in Ticks : t \in S <=> from <= t /\ t <= to
    BY ThrottleConstantsOK DEF Ticks, ThrottleConstants
  <2>2. IsFiniteSet(S)
    BY FS_Interval
  <2> QED
    BY <2>1, <2>2
<1>2. g \in [Ticks -> Int] /\ \A t \in Ticks : g[t] = IF t \in S THEN f[t] ELSE 0
  BY <1>1 DEF Stretch
<1>3. p \in [S -> Ticks] /\ h \in [S -> Int] /\ \A t \in S : p[t] = t /\ h[t] = f[t]
  BY <1>1
<1> HIDE DEF S, p, h, g
<1>4. Carries(p, S, h, Ticks, g)
  BY <1>1, <1>2, <1>3 DEF Carries
<1>5. SumFunctionOnSet(h, S) = SumFunctionOnSet(g, Ticks)
  BY <1>1, <1>4, TicksFinite, SumCarried
<1>6. SumFunctionOnSet(f, S) = SumFunctionOnSet(h, S)
  BY <1>1, <1>3, SumSame
<1> QED
  BY <1>2, <1>5, <1>6 DEF Total, S, g

LEMMA TotalInt ==
  ASSUME NEW f \in [Ticks -> Int], NEW from \in Nat, NEW to \in Int, to <= MaxTick
  PROVE  Total(f, from, to) \in Int
BY TotalIs, TicksFinite, SumInt

\* One value changes.
LEMMA TotalUpdate ==
  ASSUME NEW f \in [Ticks -> Int], NEW h \in [Ticks -> Int], NEW x \in Ticks,
         \A t \in Ticks : t # x => h[t] = f[t],
         NEW from \in Nat, NEW to \in Int, to <= MaxTick
  PROVE  Total(h, from, to) = Total(f, from, to) + (IF from <= x /\ x <= to THEN h[x] - f[x] ELSE 0)
<1> DEFINE F == Stretch(f, from, to)
           H == Stretch(h, from, to)
<1>1. /\ F \in [Ticks -> Int] /\ Total(f, from, to) = SumFunctionOnSet(F, Ticks)
      /\ H \in [Ticks -> Int] /\ Total(h, from, to) = SumFunctionOnSet(H, Ticks)
  BY TotalIs
<1>2. \A t \in Ticks : t # x => H[t] = F[t]
  BY DEF Stretch
<1>3. H[x] - F[x] = IF from <= x /\ x <= to THEN h[x] - f[x] ELSE 0
  BY DEF Stretch
<1>4. H[x] \in Int /\ F[x] \in Int
  BY <1>1
<1> HIDE DEF F, H
<1>5. SumFunctionOnSet(H, Ticks) = SumFunctionOnSet(F, Ticks) + H[x] - F[x]
  BY <1>1, <1>2, TicksFinite, SumUpdate
<1>6. SumFunctionOnSet(F, Ticks) \in Int
  BY <1>1, TicksFinite, SumInt
<1> QED
  BY <1>1, <1>3, <1>4, <1>5, <1>6

\* What is more in more places is more in all.
LEMMA TotalMore ==
  ASSUME NEW f \in [Ticks -> Nat], NEW h \in [Ticks -> Nat],
         NEW from \in Nat, NEW to \in Int, to <= MaxTick,
         NEW from2 \in Nat, NEW to2 \in Int, to2 <= MaxTick,
         \A t \in Ticks : from <= t /\ t <= to => f[t] = 0 \/ (from2 <= t /\ t <= to2 /\ f[t] <= h[t])
  PROVE  Total(f, from, to) <= Total(h, from2, to2)
<1> DEFINE F == Stretch(f, from, to)
           H == Stretch(h, from2, to2)
<1>0. f \in [Ticks -> Int] /\ h \in [Ticks -> Int]
  OBVIOUS
<1>1. /\ F \in [Ticks -> Int] /\ Total(f, from, to) = SumFunctionOnSet(F, Ticks)
      /\ H \in [Ticks -> Int] /\ Total(h, from2, to2) = SumFunctionOnSet(H, Ticks)
  BY <1>0, TotalIs
<1>2. \A t \in Ticks : F[t] <= H[t]
  BY DEF Stretch
<1> HIDE DEF F, H
<1> QED
  BY <1>1, <1>2, TicksFinite, SumMonotone

LEMMA TotalNone ==
  ASSUME NEW f \in [Ticks -> Int], NEW from \in Nat, NEW to \in Int, to <= MaxTick,
         \A t \in Ticks : from <= t /\ t <= to => f[t] = 0
  PROVE  Total(f, from, to) = 0
<1> DEFINE F == Stretch(f, from, to)
<1>1. Total(f, from, to) = SumFunctionOnSet(F, Ticks)
  BY TotalIs
<1>2. \A t \in Ticks : F[t] = 0
  BY DEF Stretch
<1> HIDE DEF F
<1> QED
  BY <1>1, <1>2, TicksFinite, SumZero

LEMMA TotalNat ==
  ASSUME NEW f \in [Ticks -> Nat], NEW from \in Nat, NEW to \in Int, to <= MaxTick
  PROVE  Total(f, from, to) \in Nat
<1> DEFINE F == Stretch(f, from, to)
<1>1. f \in [Ticks -> Int]
  OBVIOUS
<1>2. Total(f, from, to) = SumFunctionOnSet(F, Ticks)
  BY <1>1, TotalIs
<1>3. F \in [Ticks -> Nat]
  BY DEF Stretch
<1> HIDE DEF F
<1> QED
  BY <1>2, <1>3, TicksFinite, SumNat

\* A stretch that is longer by a tick in which nothing counts.
LEMMA TotalNext ==
  ASSUME NEW f \in [Ticks -> Int], NEW from \in Nat, NEW to \in Nat, to + 1 <= MaxTick, f[to + 1] = 0
  PROVE  Total(f, from, to + 1) = Total(f, from, to)
<1>1. Stretch(f, from, to + 1) = Stretch(f, from, to)
  <2>1. ASSUME NEW x \in Ticks
        PROVE  (IF from <= x /\ x <= to + 1 THEN f[x] ELSE 0) = (IF from <= x /\ x <= to THEN f[x] ELSE 0)
    BY TicksFinite
  <2> QED
    BY <2>1 DEF Stretch
<1>2. to \in Int /\ to + 1 \in Int /\ to <= MaxTick
  BY ThrottleConstantsOK DEF ThrottleConstants
<1> QED
  BY <1>1, <1>2, TotalIs

-----------------------------------------------------------------------------
\* What a full bucket gives: no more than it has now, after what has passed.
Have == IF tokens = NoBucket THEN BucketSize ELSE tokens

ThrottleTyped ==
  /\ tick \in Ticks
  /\ zset \in [Ticks -> 0..WindowLimit] /\ windowLeft \in 0..WindowTicks
  /\ openTicks \subseteq Ticks
  /\ passedWindow \in [Ticks -> Nat] /\ passedBucket \in [Ticks -> 0..MaxBurst]
  /\ tokens \in NoBucket..BucketSize /\ idleTicks \in 0..(IdleTicks + 1)

\* The earliest score of a request that passed in tick t.
Earliest(t) == IF t >= MaxSkew THEN t - MaxSkew ELSE 0

\* From tick t on every request that passed has its entry, and none is old.
Watched(t) == t > tick - (WindowTicks - MaxSkew) /\ openTicks \cap (t..tick) = {}

\* The set has an entry for each request that passed, and lives until the last
\* of them has left the window.
WindowKept ==
  /\ \A t \in Ticks : t > tick => passedWindow[t] = 0 /\ zset[t] = 0
  /\ \A t \in 0..tick : Watched(t) => Total(passedWindow, t, tick) <= Total(zset, Earliest(t), tick)
  /\ \A t \in Ticks : passedWindow[t] > 0 => t + WindowTicks <= tick + windowLeft

WindowHolds ==
  \A t \in Ticks : LET to == t + WindowTicks - MaxSkew - 1 IN
    to <= MaxTick /\ openTicks \cap (t..to) = {} => Total(passedWindow, t, to) <= WindowLimit

\* What has passed since any tick and what the bucket still has is no more than a
\* full bucket and the refill since; a bucket that nobody touches fills.
BucketKept ==
  /\ \A t \in Ticks : t > tick => passedBucket[t] = 0
  /\ \A t \in 0..tick : Total(passedBucket, t, tick) + Have <= BucketSize + Refill * (tick - t)
  /\ \A u \in 0..tick : \A t \in 0..u : Total(passedBucket, t, u) <= BucketSize + Refill * (u - t)
  /\ tokens # NoBucket => tokens >= Least(BucketSize, Refill * idleTicks)

ThrottleInv == ThrottleTyped /\ WindowKept /\ WindowHolds /\ BucketKept

LEMMA RefillGrows ==
  /\ \A a \in Nat : Refill * a \in Nat /\ Refill * (a + 1) = Refill * a + Refill
  /\ \A a, b \in Nat : a <= b => Refill * a <= Refill * b
  /\ Refill * 0 = 0
<1>1. Refill \in Nat /\ Refill > 0
  BY ThrottleConstantsOK DEF ThrottleConstants
<1>2. \A a \in Nat : Refill * a \in Nat /\ Refill * (a + 1) = Refill * a + Refill
  BY <1>1
<1>3. ASSUME NEW a \in Nat, NEW b \in Nat, a <= b PROVE Refill * a <= Refill * b
  <2>1. Refill * (b - a) \in Nat
    BY <1>1, <1>3
  <2>2. Refill * b = Refill * a + Refill * (b - a)
    BY <1>1, <1>3
  <2> QED
    BY <1>1, <2>1, <2>2
<1> QED
  BY <1>1, <1>2, <1>3

LEMMA HaveTyped ==
  ASSUME ThrottleTyped
  PROVE  Have \in 0..BucketSize
BY ThrottleConstantsOK DEF ThrottleTyped, Have, ThrottleConstants

\* Time goes on: the window forgets, the bucket fills.
LEMMA TickStep ==
  ASSUME ThrottleInv, Tick
  PROVE  ThrottleInv'
<1> USE ThrottleConstantsOK DEF ThrottleConstants
<1>1. /\ tick < MaxTick /\ tick' = tick + 1
      /\ windowLeft' = (IF windowLeft > 0 THEN windowLeft - 1 ELSE 0)
      /\ zset' = (IF windowLeft <= 1 THEN [t \in Ticks |-> 0] ELSE zset)
      /\ tokens' = (IF tokens = NoBucket THEN tokens ELSE Least(BucketSize, tokens + Refill))
      /\ idleTicks' = (IF tokens = NoBucket THEN 0 ELSE Least(IdleTicks + 1, idleTicks + 1))
      /\ passedWindow' = passedWindow /\ openTicks' = openTicks /\ passedBucket' = passedBucket
  BY DEF Tick
<1>2. ThrottleTyped /\ WindowKept /\ WindowHolds /\ BucketKept
  BY DEF ThrottleInv
<1>3. /\ tick \in Nat /\ tick <= MaxTick /\ windowLeft \in Nat /\ tokens \in Int /\ idleTicks \in Nat
      /\ tokens >= NoBucket /\ tokens <= BucketSize /\ windowLeft <= WindowTicks
  BY <1>2 DEF ThrottleTyped, Ticks
<1>4. ThrottleTyped'
  <2>1. tick' \in Ticks
    BY <1>1, <1>3 DEF Ticks
  <2>2. windowLeft' \in 0..WindowTicks
    BY <1>1, <1>3
  <2>3. zset' \in [Ticks -> 0..WindowLimit]
    BY <1>1, <1>2 DEF ThrottleTyped
  <2>4. tokens' \in NoBucket..BucketSize /\ idleTicks' \in 0..(IdleTicks + 1)
    BY <1>1, <1>3 DEF Least
  <2> QED
    BY <1>1, <1>2, <2>1, <2>2, <2>3, <2>4 DEF ThrottleTyped
<1>5. WindowKept'
  <2>1. \A t \in Ticks : t \in Nat /\ passedWindow[t] \in Nat
    BY <1>2, TicksFinite DEF ThrottleTyped
  <2>2. ASSUME NEW t \in Ticks, t > tick' PROVE passedWindow'[t] = 0 /\ zset'[t] = 0
    BY <1>1, <1>2, <1>3, <2>1, <2>2 DEF WindowKept
  <2>3. ASSUME NEW t \in 0..tick', Watched(t)'
        PROVE  Total(passedWindow', t, tick') <= Total(zset', Earliest(t), tick')
    <3>1. /\ t \in Nat /\ t <= MaxTick /\ Earliest(t) \in Nat /\ tick' \in Nat /\ tick' <= MaxTick
          /\ t > tick' - (WindowTicks - MaxSkew) /\ openTicks \cap (t..tick') = {}
      BY <1>1, <1>3, <2>3 DEF Earliest, Watched
    <3>2. /\ passedWindow \in [Ticks -> Nat] /\ passedWindow \in [Ticks -> Int]
          /\ zset' \in [Ticks -> Nat] /\ zset' \in [Ticks -> Int] /\ zset \in [Ticks -> Int]
      BY <1>2, <1>4 DEF ThrottleTyped
    <3>3. passedWindow[tick'] = 0 /\ zset[tick'] = 0 /\ zset'[tick'] = 0
      <4>1. tick' \in Ticks /\ tick' > tick
        BY <1>1, <1>3 DEF Ticks
      <4> QED
        BY <1>1, <1>2, <4>1 DEF WindowKept
    <3>4. CASE windowLeft <= 1 \/ t = tick'
      <4>1. ASSUME NEW x \in Ticks, t <= x, x <= tick' PROVE passedWindow[x] = 0
        <5>1. x \in Nat /\ passedWindow[x] \in Nat
          BY <2>1
        <5>2. CASE windowLeft <= 1
          BY <1>1, <1>2, <1>3, <3>1, <4>1, <5>1, <5>2 DEF WindowKept
        <5>3. CASE t = tick'
          BY <1>3, <1>1, <3>3, <4>1, <5>1, <5>3
        <5> QED
          BY <3>4, <5>2, <5>3
      <4>2. Total(passedWindow, t, tick') = 0
        BY <3>1, <3>2, <4>1, TotalNone
      <4>3. Total(zset', Earliest(t), tick') >= 0
        BY <3>1, <3>2, TotalNat
      <4> QED
        BY <1>1, <4>2, <4>3
    <3>5. CASE ~ (windowLeft <= 1) /\ t # tick'
      <4>1. t \in 0..tick /\ zset' = zset /\ tick \in Nat /\ tick <= MaxTick
        BY <1>1, <1>3, <3>5
      <4>2. Watched(t)
        <5>1. t..tick \subseteq t..tick'
          BY <1>1, <1>3
        <5> QED
          BY <1>1, <1>3, <3>1, <5>1 DEF Watched
      <4>3. Total(passedWindow, t, tick) <= Total(zset, Earliest(t), tick)
        BY <1>2, <4>1, <4>2 DEF WindowKept
      <4>4. /\ Total(passedWindow, t, tick') = Total(passedWindow, t, tick)
            /\ Total(zset, Earliest(t), tick') = Total(zset, Earliest(t), tick)
        BY <1>1, <1>3, <3>1, <3>2, <3>3, <4>1, TotalNext
      <4> QED
        BY <1>1, <4>1, <4>3, <4>4
    <3> QED
      BY <3>4, <3>5
  <2>4. ASSUME NEW t \in Ticks, passedWindow'[t] > 0 PROVE t + WindowTicks <= tick' + windowLeft'
    BY <1>1, <1>2, <1>3, <2>1, <2>4 DEF WindowKept
  <2> QED
    BY <2>2, <2>3, <2>4 DEF WindowKept
<1>6. WindowHolds'
  BY <1>1, <1>2 DEF WindowHolds
<1>7. BucketKept'
  <2>1. Have \in 0..BucketSize /\ Have' \in 0..BucketSize /\ Have' <= Have + Refill
    <3>1. Have \in 0..BucketSize /\ Have' \in 0..BucketSize
      BY <1>2, <1>4, HaveTyped DEF Have, ThrottleTyped
    <3> QED
      BY <1>1, <1>3, <3>1 DEF Have, Least
  <2>2. passedBucket \in [Ticks -> Int] /\ passedBucket \in [Ticks -> Nat]
    BY <1>2 DEF ThrottleTyped
  <2>3. \A t \in Ticks : t > tick' => passedBucket'[t] = 0
    BY <1>1, <1>2, <1>3, TicksFinite DEF BucketKept
  <2>4. ASSUME NEW t \in 0..tick'
        PROVE  Total(passedBucket, t, tick') + Have' <= BucketSize + Refill * (tick' - t)
    <3>1. CASE t = tick'
      <4>1. Total(passedBucket, t, tick') = 0
        <5>1. t \in Nat /\ tick' \in Int /\ tick' <= MaxTick
          BY <1>1, <1>3
        <5>2. \A x \in Ticks : t <= x /\ x <= tick' => passedBucket[x] = 0
          BY <1>1, <1>2, <1>3, <3>1, TicksFinite DEF BucketKept
        <5> QED
          BY <2>2, <5>1, <5>2, TotalNone
      <4>2. Refill * (tick' - t) = 0
        BY <1>1, <1>3, <3>1, RefillGrows
      <4> QED
        BY <2>1, <4>1, <4>2
    <3>2. CASE t # tick'
      <4>1. t \in 0..tick /\ t \in Nat
        BY <1>1, <1>3, <3>2
      <4>2. Total(passedBucket, t, tick') <= Total(passedBucket, t, tick)
        <5>1. ASSUME NEW x \in Ticks, t <= x
              PROVE  \/ passedBucket[x] = 0
                     \/ t <= x /\ x <= tick /\ passedBucket[x] <= passedBucket[x]
          <6>1. x \in Nat /\ passedBucket[x] \in Nat /\ (x > tick => passedBucket[x] = 0)
            BY <1>2, <2>2, TicksFinite DEF BucketKept
          <6> QED
            BY <1>3, <5>1, <6>1
        <5>2. tick' \in Int /\ tick' <= MaxTick /\ tick \in Int
          BY <1>1, <1>3
        <5>3. \A x \in Ticks : t <= x /\ x <= tick' =>
                passedBucket[x] = 0 \/ (t <= x /\ x <= tick /\ passedBucket[x] <= passedBucket[x])
          BY <5>1
        <5> QED
          BY <1>3, <2>2, <4>1, <5>2, <5>3, TotalMore
      <4>3. Total(passedBucket, t, tick) \in Int /\ Total(passedBucket, t, tick') \in Int
        BY <1>1, <1>3, <2>2, <4>1, TotalInt
      <4>4. Total(passedBucket, t, tick) + Have <= BucketSize + Refill * (tick - t)
        BY <1>2, <4>1 DEF BucketKept
      <4>5. Refill * (tick' - t) = Refill * (tick - t) + Refill /\ Refill * (tick - t) \in Nat
        <5>1. tick - t \in Nat /\ tick' - t = (tick - t) + 1
          BY <1>1, <1>3, <4>1
        <5> QED
          BY <5>1, RefillGrows
      <4> QED
        BY <2>1, <4>2, <4>3, <4>4, <4>5
    <3> QED
      BY <3>1, <3>2
  <2>5. ASSUME NEW u \in 0..tick', NEW t \in 0..u
        PROVE  Total(passedBucket, t, u) <= BucketSize + Refill * (u - t)
    <3>1. CASE u = tick'
      <4>1. Total(passedBucket, t, u) + Have' <= BucketSize + Refill * (u - t)
        BY <2>4, <3>1
      <4>2. Total(passedBucket, t, u) \in Int /\ Refill * (u - t) \in Nat
        <5>1. t \in Nat /\ u \in Nat /\ u <= MaxTick /\ u - t \in Nat
          BY <1>1, <1>3
        <5> QED
          BY <2>2, <5>1, TotalInt, RefillGrows
      <4> QED
        BY <2>1, <4>1, <4>2
    <3>2. CASE u # tick'
      <4>1. u \in 0..tick
        BY <1>1, <1>3, <3>2
      <4> QED
        BY <1>2, <4>1 DEF BucketKept
    <3> QED
      BY <3>1, <3>2
  <2>6. ASSUME tokens' # NoBucket PROVE tokens' >= Least(BucketSize, Refill * idleTicks')
    <3>1. /\ tokens # NoBucket /\ tokens >= Least(BucketSize, Refill * idleTicks)
          /\ tokens' = Least(BucketSize, tokens + Refill) /\ idleTicks' = Least(IdleTicks + 1, idleTicks + 1)
      BY <1>1, <1>2, <2>6 DEF BucketKept
    <3>2. Refill * idleTicks \in Nat /\ Refill * idleTicks' \in Nat /\ Refill * idleTicks' <= Refill * idleTicks + Refill
      <4>1. idleTicks' \in Nat /\ idleTicks + 1 \in Nat /\ idleTicks' <= idleTicks + 1
        BY <1>3, <3>1 DEF Least
      <4>2. Refill * idleTicks' <= Refill * (idleTicks + 1)
        BY <4>1, RefillGrows
      <4> QED
        BY <1>3, <4>1, <4>2, RefillGrows
    <3> QED
      BY <1>3, <3>1, <3>2 DEF Least
  <2> QED
    BY <1>1, <2>3, <2>4, <2>5, <2>6 DEF BucketKept
<1> QED
  BY <1>4, <1>5, <1>6, <1>7 DEF ThrottleInv

LEMMA ClockFacts ==
  ASSUME ThrottleTyped, NEW now \in Clocks
  PROVE  now \in Nat /\ now \in Ticks /\ now <= tick /\ Earliest(tick) <= now
<1>1. tick \in Nat /\ tick <= MaxTick
  BY ThrottleConstantsOK DEF ThrottleTyped, Ticks, ThrottleConstants
<1>2. PICK late \in 0..Least(MaxSkew, tick) : now = tick - late
  BY DEF Clocks
<1>3. late \in Nat /\ late <= MaxSkew /\ late <= tick
  BY <1>1, <1>2, ThrottleConstantsOK DEF Least, ThrottleConstants
<1> QED
  BY <1>1, <1>2, <1>3, ThrottleConstantsOK DEF Ticks, Earliest, ThrottleConstants

\* The script of a process whose clock may be late: no entry of a request that
\* counts goes, and what it admits had room.
LEMMA ScriptRuns ==
  ASSUME ThrottleTyped, WindowKept, NEW now \in Clocks, NEW allowed \in BOOLEAN, Script(now, allowed)
  PROVE  /\ zset' \in [Ticks -> 0..WindowLimit] /\ windowLeft' \in 0..WindowTicks
         /\ windowLeft' >= windowLeft /\ (allowed => windowLeft' = WindowTicks)
         /\ \A t \in Ticks : t > tick => zset'[t] = 0
         /\ \A t \in 0..tick : t > tick - (WindowTicks - MaxSkew) =>
              /\ Total(zset', Earliest(t), tick) >= Total(zset, Earliest(t), tick) + (IF allowed THEN 1 ELSE 0)
              /\ Total(zset, Earliest(t), tick) \in Int
              /\ allowed => Total(zset, Earliest(t), tick) < WindowLimit
<1> USE ThrottleConstantsOK DEF ThrottleConstants
<1> DEFINE live == [t \in Ticks |-> IF t <= now - WindowTicks THEN 0 ELSE zset[t]]
<1>1. /\ allowed = (Total(live, 0, MaxTick) < WindowLimit)
      /\ zset' = IF allowed THEN [live EXCEPT ![now] = live[now] + 1] ELSE live
      /\ windowLeft' = IF allowed THEN WindowTicks ELSE windowLeft
  BY DEF Script
<1>2. /\ now \in Nat /\ now \in Ticks /\ now <= tick /\ Earliest(tick) <= now
      /\ tick \in Nat /\ tick <= MaxTick /\ windowLeft \in 0..WindowTicks
      /\ \A t \in Ticks : t \in Nat /\ t <= MaxTick /\ zset[t] \in 0..WindowLimit
  BY ClockFacts, TicksFinite DEF ThrottleTyped, Ticks
<1>3. /\ live \in [Ticks -> 0..WindowLimit] /\ live \in [Ticks -> Nat] /\ live \in [Ticks -> Int]
      /\ zset \in [Ticks -> Nat] /\ zset \in [Ticks -> Int]
      /\ \A t \in Ticks : t > tick - WindowTicks => live[t] = zset[t]
      /\ \A t \in Ticks : t > tick => live[t] = 0
  BY <1>2 DEF WindowKept, ThrottleTyped
<1> HIDE DEF live
<1>4. Total(live, 0, MaxTick) \in Int /\ live[now] <= Total(live, 0, MaxTick) /\ live[now] \in Nat
  <2>1. Stretch(live, 0, MaxTick) = live
    BY <1>2, <1>3 DEF Stretch
  <2>2. Total(live, 0, MaxTick) = SumFunctionOnSet(live, Ticks)
    BY <1>3, <2>1, TotalIs
  <2>3. live[now] <= SumFunctionOnSet(live, Ticks)
    BY <1>2, <1>3, TicksFinite, SumOfMore
  <2>4. 0 \in Nat /\ MaxTick \in Int /\ MaxTick <= MaxTick
    OBVIOUS
  <2>5. Total(live, 0, MaxTick) \in Int
    BY <1>3, <2>4, TotalInt
  <2>6. live[now] \in Nat
    BY <1>2, <1>3
  <2> QED
    BY <2>2, <2>3, <2>5, <2>6
<1>10. allowed => Total(live, 0, MaxTick) < WindowLimit
  BY <1>1
<1>5. allowed => live[now] + 1 \in 0..WindowLimit
  BY <1>4, <1>10
<1>6. /\ zset' \in [Ticks -> 0..WindowLimit] /\ zset' \in [Ticks -> Int]
      /\ zset'[now] = live[now] + (IF allowed THEN 1 ELSE 0)
      /\ \A t \in Ticks : t # now => zset'[t] = live[t]
  BY <1>1, <1>2, <1>3, <1>4, <1>5
<1>7. \A t \in Ticks : t > tick => zset'[t] = 0
  BY <1>2, <1>3, <1>6
<1>8. windowLeft' \in 0..WindowTicks /\ windowLeft' >= windowLeft /\ (allowed => windowLeft' = WindowTicks)
  BY <1>1, <1>2
<1>9. ASSUME NEW t \in 0..tick, t > tick - (WindowTicks - MaxSkew)
      PROVE  /\ Total(zset', Earliest(t), tick) >= Total(zset, Earliest(t), tick) + (IF allowed THEN 1 ELSE 0)
             /\ Total(zset, Earliest(t), tick) \in Int
             /\ allowed => Total(zset, Earliest(t), tick) < WindowLimit
  <2> DEFINE from == Earliest(t)
  <2>1. from \in Nat /\ from <= now /\ from > tick - WindowTicks
    BY <1>2, <1>9 DEF Earliest
  <2>7. tick \in Int /\ tick <= MaxTick
    BY <1>2
  <2> HIDE DEF from
  <2>2. Total(zset, from, tick) \in Int /\ Total(live, from, tick) \in Int
    BY <1>3, <2>1, <2>7, TotalInt
  <2>3. Total(zset, from, tick) <= Total(live, from, tick)
    <3>1. \A x \in Ticks : from <= x /\ x <= tick =>
            zset[x] = 0 \/ (from <= x /\ x <= tick /\ zset[x] <= live[x])
      BY <1>2, <1>3, <2>1
    <3> QED
      BY <1>3, <2>1, <2>7, <3>1, TotalMore
  <2>4. Total(live, from, tick) <= Total(live, 0, MaxTick)
    <3>1. \A x \in Ticks : from <= x /\ x <= tick =>
            live[x] = 0 \/ (0 <= x /\ x <= MaxTick /\ live[x] <= live[x])
      BY <1>2, <1>3
    <3>2. 0 \in Nat /\ MaxTick \in Int /\ MaxTick <= MaxTick
      OBVIOUS
    <3> QED
      BY <1>3, <2>1, <2>7, <3>1, <3>2, TotalMore
  <2>5. Total(zset', from, tick) = Total(live, from, tick) + (IF allowed THEN 1 ELSE 0)
    <3>1. Total(zset', from, tick)
            = Total(live, from, tick) + (IF from <= now /\ now <= tick THEN zset'[now] - live[now] ELSE 0)
      BY <1>2, <1>3, <1>6, <2>1, <2>7, TotalUpdate
    <3>2. from <= now /\ now <= tick
      BY <1>2, <2>1
    <3>3. Total(live, from, tick) \in Int /\ live[now] \in Nat
      BY <1>4, <2>2
    <3> QED
      BY <1>6, <3>1, <3>2, <3>3
  <2>6. /\ Total(zset', from, tick) >= Total(zset, from, tick) + (IF allowed THEN 1 ELSE 0)
        /\ allowed => Total(zset, from, tick) < WindowLimit
    BY <1>4, <1>10, <2>2, <2>3, <2>4, <2>5
  <2> QED
    BY <2>2, <2>6 DEF from
<1> QED
  BY <1>6, <1>7, <1>8, <1>9

LEMMA WindowStep ==
  ASSUME ThrottleInv, SlidingWindowAllow
  PROVE  ThrottleInv'
<1> USE ThrottleConstantsOK DEF ThrottleConstants
<1>0. PICK now \in Clocks, allowed \in BOOLEAN :
        /\ Script(now, allowed)
        /\ passedWindow' = IF allowed THEN [passedWindow EXCEPT ![tick] = passedWindow[tick] + 1] ELSE passedWindow
  BY DEF SlidingWindowAllow
<1>1. UNCHANGED <<tick, openTicks, tokens, idleTicks, passedBucket>>
  BY DEF SlidingWindowAllow, bucketVars
<1>2. ThrottleTyped /\ WindowKept /\ WindowHolds /\ BucketKept
  BY DEF ThrottleInv
<1> DEFINE n == IF allowed THEN 1 ELSE 0
<1>3. /\ zset' \in [Ticks -> 0..WindowLimit] /\ windowLeft' \in 0..WindowTicks
      /\ windowLeft' >= windowLeft /\ (allowed => windowLeft' = WindowTicks)
      /\ \A t \in Ticks : t > tick => zset'[t] = 0
      /\ \A t \in 0..tick : t > tick - (WindowTicks - MaxSkew) =>
           /\ Total(zset', Earliest(t), tick) >= Total(zset, Earliest(t), tick) + n
           /\ Total(zset, Earliest(t), tick) \in Int
           /\ allowed => Total(zset, Earliest(t), tick) < WindowLimit
  BY <1>0, <1>2, ScriptRuns
<1>4. /\ tick \in Nat /\ tick \in Ticks /\ tick <= MaxTick /\ windowLeft \in Nat /\ windowLeft <= WindowTicks
      /\ \A t \in Ticks : t \in Nat /\ t <= MaxTick /\ passedWindow[t] \in Nat
      /\ passedWindow \in [Ticks -> Nat] /\ passedWindow \in [Ticks -> Int]
  BY <1>2, TicksFinite DEF ThrottleTyped, Ticks
<1>5. n \in {0, 1} /\ (n = 1 <=> allowed)
  OBVIOUS
<1>6. /\ passedWindow' \in [Ticks -> Nat] /\ passedWindow' \in [Ticks -> Int]
      /\ passedWindow'[tick] = passedWindow[tick] + n
      /\ \A t \in Ticks : t # tick => passedWindow'[t] = passedWindow[t]
  <2>1. CASE allowed
    BY <1>0, <1>4, <2>1
  <2>2. CASE ~ allowed
    BY <1>0, <1>4, <2>2
  <2> QED
    BY <2>1, <2>2
<1> HIDE DEF n
<1>7. ThrottleTyped'
  BY <1>1, <1>2, <1>3, <1>6 DEF ThrottleTyped
<1>8. BucketKept'
  BY <1>1, <1>2 DEF BucketKept, Have
<1>9. ASSUME NEW t \in Nat, NEW to \in Int, to <= MaxTick
      PROVE  /\ Total(passedWindow', t, to)
                  = Total(passedWindow, t, to) + (IF t <= tick /\ tick <= to THEN n ELSE 0)
             /\ Total(passedWindow, t, to) \in Int
  <2>1. passedWindow'[tick] - passedWindow[tick] = n
    BY <1>4, <1>5, <1>6
  <2>2. Total(passedWindow, t, to) \in Int
    BY <1>4, <1>9, TotalInt
  <2>3. Total(passedWindow', t, to)
          = Total(passedWindow, t, to)
              + (IF t <= tick /\ tick <= to THEN passedWindow'[tick] - passedWindow[tick] ELSE 0)
    BY <1>4, <1>6, <1>9, TotalUpdate
  <2> QED
    BY <2>1, <2>2, <2>3
<1>10. WindowKept'
  <2>1. \A t \in Ticks : t > tick => passedWindow'[t] = 0 /\ zset'[t] = 0
    BY <1>2, <1>3, <1>4, <1>6 DEF WindowKept
  <2>2. ASSUME NEW t \in 0..tick, Watched(t)
        PROVE  Total(passedWindow', t, tick) <= Total(zset', Earliest(t), tick)
    <3>1. Total(passedWindow, t, tick) <= Total(zset, Earliest(t), tick)
      BY <1>2, <2>2 DEF WindowKept
    <3>2. /\ Total(passedWindow', t, tick) = Total(passedWindow, t, tick) + n
          /\ Total(passedWindow, t, tick) \in Int
      BY <1>4, <1>9
    <3>3. /\ Total(zset', Earliest(t), tick) >= Total(zset, Earliest(t), tick) + n
          /\ Total(zset, Earliest(t), tick) \in Int /\ Total(zset', Earliest(t), tick) \in Int
      <4>1. Earliest(t) \in Nat /\ zset' \in [Ticks -> Int]
        BY <1>3 DEF Earliest
      <4> QED
        BY <1>3, <1>4, <2>2, <4>1, TotalInt DEF Watched
    <3> QED
      BY <1>5, <3>1, <3>2, <3>3
  <2>3. ASSUME NEW t \in Ticks, passedWindow'[t] > 0 PROVE t + WindowTicks <= tick + windowLeft'
    <3>1. CASE t = tick /\ allowed
      BY <1>3, <1>4, <3>1
    <3>2. CASE ~ (t = tick /\ allowed)
      <4>1. passedWindow[t] > 0
        <5>1. CASE t = tick
          BY <1>4, <1>5, <1>6, <2>3, <3>2, <5>1
        <5>2. CASE t # tick
          BY <1>6, <2>3, <5>2
        <5> QED
          BY <5>1, <5>2
      <4>2. t + WindowTicks <= tick + windowLeft
        BY <1>2, <4>1 DEF WindowKept
      <4>3. windowLeft' >= windowLeft /\ windowLeft' \in Int /\ windowLeft \in Int
        BY <1>3, <1>4
      <4>4. t \in Int /\ WindowTicks \in Int /\ tick \in Int
        BY <1>4
      <4>5. \A a, b, c, d, e \in Int : a + b <= c + d /\ e >= d => a + b <= c + e
        OBVIOUS
      <4> QED
        BY <4>2, <4>3, <4>4, <4>5
    <3> QED
      BY <3>1, <3>2
  <2> QED
    BY <1>1, <2>1, <2>2, <2>3 DEF WindowKept, Watched
<1>11. ASSUME NEW t \in Ticks, NEW to \in Int, to = t + WindowTicks - MaxSkew - 1, to <= MaxTick,
              openTicks \cap (t..to) = {}
       PROVE  Total(passedWindow', t, to) <= WindowLimit
  <2>1. Total(passedWindow, t, to) <= WindowLimit
    BY <1>2, <1>11 DEF WindowHolds
  <2>2. /\ Total(passedWindow', t, to) = Total(passedWindow, t, to) + (IF t <= tick /\ tick <= to THEN n ELSE 0)
        /\ Total(passedWindow, t, to) \in Int
    BY <1>4, <1>9, <1>11
  <2>3. CASE allowed /\ t <= tick /\ tick <= to
    <3>1. t \in 0..tick /\ t > tick - (WindowTicks - MaxSkew) /\ t \in Nat
      BY <1>4, <1>11, <2>3
    <3>2. Watched(t)
      <4>1. t..tick \subseteq t..to
        BY <1>4, <1>11, <2>3
      <4> QED
        BY <1>11, <3>1, <4>1 DEF Watched
    <3>3. Total(passedWindow, t, tick) <= Total(zset, Earliest(t), tick)
      BY <1>2, <3>1, <3>2 DEF WindowKept
    <3>4. Total(zset, Earliest(t), tick) \in Int /\ Total(zset, Earliest(t), tick) < WindowLimit
      BY <1>3, <2>3, <3>1
    <3>5. Total(passedWindow, t, to) <= Total(passedWindow, t, tick) /\ Total(passedWindow, t, tick) \in Int
      <4>1. \A x \in Ticks : t <= x /\ x <= to =>
              passedWindow[x] = 0 \/ (t <= x /\ x <= tick /\ passedWindow[x] <= passedWindow[x])
        <5>1. ASSUME NEW x \in Ticks, t <= x
              PROVE  passedWindow[x] = 0 \/ (t <= x /\ x <= tick /\ passedWindow[x] <= passedWindow[x])
          <6>1. x \in Nat /\ passedWindow[x] \in Nat /\ (x > tick => passedWindow[x] = 0)
            BY <1>2, <1>4 DEF WindowKept
          <6> QED
            BY <1>4, <5>1, <6>1
        <5> QED
          BY <5>1
      <4>2. tick \in Int
        BY <1>4
      <4> QED
        BY <1>4, <1>11, <3>1, <4>1, <4>2, TotalMore, TotalInt
    <3> QED
      BY <1>5, <2>2, <2>3, <3>3, <3>4, <3>5
  <2>4. CASE ~ (allowed /\ t <= tick /\ tick <= to)
    BY <1>5, <2>1, <2>2, <2>4
  <2> QED
    BY <2>3, <2>4
<1>12. WindowHolds'
  <2> SUFFICES ASSUME NEW t \in Ticks, t + WindowTicks - MaxSkew - 1 <= MaxTick,
                      openTicks' \cap (t..(t + WindowTicks - MaxSkew - 1)) = {}
               PROVE  Total(passedWindow', t, t + WindowTicks - MaxSkew - 1) <= WindowLimit
    BY DEF WindowHolds
  <2>1. t + WindowTicks - MaxSkew - 1 \in Int
    BY <1>4
  <2> QED
    BY <1>1, <1>11, <2>1
<1> QED
  BY <1>7, <1>8, <1>10, <1>12 DEF ThrottleInv

\* A tick in which Redis fails is out of account, though the script may have run.
LEMMA WindowOpens ==
  ASSUME ThrottleInv, SlidingWindowFails
  PROVE  ThrottleInv'
<1> USE ThrottleConstantsOK DEF ThrottleConstants
<1>1. UNCHANGED <<tick, passedWindow, tokens, idleTicks, passedBucket>> /\ openTicks' = openTicks \cup {tick}
  BY DEF SlidingWindowFails, bucketVars
<1>2. ThrottleTyped /\ WindowKept /\ WindowHolds /\ BucketKept
  BY DEF ThrottleInv
<1>3. /\ tick \in Nat /\ tick \in Ticks /\ windowLeft \in 0..WindowTicks
      /\ \A t \in Ticks : t \in Nat /\ passedWindow[t] \in Nat
  BY <1>2, TicksFinite DEF ThrottleTyped, Ticks
<1>4. /\ zset' \in [Ticks -> 0..WindowLimit] /\ windowLeft' \in 0..WindowTicks /\ windowLeft' >= windowLeft
      /\ \A t \in Ticks : t > tick => zset'[t] = 0
  <2>1. CASE UNCHANGED <<zset, windowLeft>>
    BY <1>2, <1>3, <2>1 DEF ThrottleTyped, WindowKept
  <2>2. ASSUME NEW now \in Clocks, NEW allowed \in BOOLEAN, Script(now, allowed)
        PROVE  /\ zset' \in [Ticks -> 0..WindowLimit] /\ windowLeft' \in 0..WindowTicks /\ windowLeft' >= windowLeft
               /\ \A t \in Ticks : t > tick => zset'[t] = 0
    BY <1>2, <2>2, ScriptRuns
  <2> QED
    BY <2>1, <2>2 DEF SlidingWindowFails
<1>5. ThrottleTyped'
  BY <1>1, <1>2, <1>3, <1>4 DEF ThrottleTyped
<1>6. BucketKept'
  BY <1>1, <1>2 DEF BucketKept, Have
<1>7. WindowKept'
  <2>1. \A t \in 0..tick : ~ Watched(t)'
    <3>1. ASSUME NEW t \in 0..tick PROVE openTicks' \cap (t..tick) # {}
      <4>1. tick \in t..tick
        BY <1>3
      <4> QED
        BY <1>1, <4>1
    <3> QED
      BY <1>1, <3>1 DEF Watched
  <2>2. \A t \in Ticks : t > tick => passedWindow[t] = 0
    BY <1>2 DEF WindowKept
  <2>3. ASSUME NEW t \in Ticks, passedWindow[t] > 0
        PROVE  t + WindowTicks <= tick + windowLeft'
    <3>1. t + WindowTicks <= tick + windowLeft
      BY <1>2, <2>3 DEF WindowKept
    <3>2. windowLeft' >= windowLeft /\ windowLeft' \in Int /\ windowLeft \in Int
      BY <1>3, <1>4
    <3>3. t \in Int /\ WindowTicks \in Int /\ tick \in Int
      BY <1>3
    <3>4. \A a, b, c, d, e \in Int : a + b <= c + d /\ e >= d => a + b <= c + e
      OBVIOUS
    <3> QED
      BY <3>1, <3>2, <3>3, <3>4
  <2> QED
    BY <1>1, <1>4, <2>1, <2>2, <2>3 DEF WindowKept
<1>8. WindowHolds'
  BY <1>1, <1>2 DEF WindowHolds
<1> QED
  BY <1>5, <1>6, <1>7, <1>8 DEF ThrottleInv

LEMMA BucketStep ==
  ASSUME ThrottleInv, TokenBucketAllow
  PROVE  ThrottleInv'
<1> USE ThrottleConstantsOK DEF ThrottleConstants
<1>1. /\ UNCHANGED <<tick, zset, windowLeft, passedWindow, openTicks>> /\ idleTicks' = 0
      /\ passedBucket[tick] < MaxBurst
      /\ \/ /\ Have > 0 /\ tokens' = Have - 1
            /\ passedBucket' = [passedBucket EXCEPT ![tick] = passedBucket[tick] + 1]
         \/ Have = 0 /\ tokens' = 0 /\ UNCHANGED passedBucket
  BY DEF TokenBucketAllow, Have, windowVars
<1>2. ThrottleTyped /\ WindowKept /\ WindowHolds /\ BucketKept
  BY DEF ThrottleInv
<1>3. /\ tick \in Nat /\ tick \in Ticks /\ tick <= MaxTick /\ Have \in 0..BucketSize
      /\ passedBucket[tick] \in 0..MaxBurst
      /\ passedBucket \in [Ticks -> 0..MaxBurst] /\ passedBucket \in [Ticks -> Int]
  <2>1. Have \in 0..BucketSize
    BY <1>2, HaveTyped
  <2>2. passedBucket \in [Ticks -> 0..MaxBurst] /\ tick \in Ticks
    BY <1>2 DEF ThrottleTyped
  <2>3. tick \in Nat /\ tick <= MaxTick /\ passedBucket \in [Ticks -> Int]
    BY <2>2 DEF Ticks
  <2> QED
    BY <2>1, <2>2, <2>3
<1>4. WindowKept' /\ WindowHolds'
  BY <1>1, <1>2 DEF WindowKept, WindowHolds, Watched
<1>5. /\ tokens' \in 0..BucketSize /\ Have' = tokens'
      /\ passedBucket' \in [Ticks -> 0..MaxBurst] /\ passedBucket' \in [Ticks -> Int]
      /\ \A t \in Ticks : t # tick => passedBucket'[t] = passedBucket[t]
      /\ passedBucket'[tick] - passedBucket[tick] = Have - tokens'
  BY <1>1, <1>3 DEF Have
<1>6. ThrottleTyped'
  BY <1>1, <1>2, <1>5 DEF ThrottleTyped
<1>7. \A t \in Ticks : t > tick' => passedBucket'[t] = 0
  BY <1>1, <1>2, <1>3, <1>5, TicksFinite DEF BucketKept
<1>8. ASSUME NEW u \in 0..tick, NEW t \in 0..u
      PROVE  /\ Total(passedBucket', t, u) = Total(passedBucket, t, u) + (IF u = tick THEN Have - tokens' ELSE 0)
             /\ Total(passedBucket, t, u) \in Int /\ Refill * (u - t) \in Nat
  <2>1. t \in Nat /\ u \in Int /\ u <= MaxTick /\ (t <= tick /\ tick <= u <=> u = tick) /\ u - t \in Nat
    BY <1>3
  <2>2. /\ Total(passedBucket', t, u) = Total(passedBucket, t, u)
            + (IF t <= tick /\ tick <= u THEN passedBucket'[tick] - passedBucket[tick] ELSE 0)
        /\ Total(passedBucket, t, u) \in Int
    <3>1. Total(passedBucket, t, u) \in Int
      BY <1>3, <2>1, TotalInt
    <3> HIDE DEF ThrottleConstants
    <3> QED
      BY <1>3, <1>5, <2>1, <3>1, TotalUpdate
  <2> QED
    BY <1>5, <2>1, <2>2, RefillGrows
<1>9. ASSUME NEW t \in 0..tick
      PROVE  Total(passedBucket', t, tick) + Have' <= BucketSize + Refill * (tick - t)
  <2>1. Total(passedBucket, t, tick) + Have <= BucketSize + Refill * (tick - t)
    BY <1>2, <1>9 DEF BucketKept
  <2>2. /\ Total(passedBucket', t, tick) = Total(passedBucket, t, tick) + (Have - tokens')
        /\ Total(passedBucket, t, tick) \in Int /\ Refill * (tick - t) \in Nat
    BY <1>3, <1>8, <1>9
  <2> QED
    BY <1>3, <1>5, <2>1, <2>2
<1>10. ASSUME NEW u \in 0..tick, NEW t \in 0..u
       PROVE  Total(passedBucket', t, u) <= BucketSize + Refill * (u - t)
  <2>1. CASE u = tick
    BY <1>3, <1>5, <1>8, <1>9, <1>10, <2>1
  <2>2. CASE u # tick
    BY <1>2, <1>8, <1>10, <2>2 DEF BucketKept
  <2> QED
    BY <2>1, <2>2
<1>11. tokens' >= Least(BucketSize, Refill * idleTicks')
  BY <1>1, <1>5, RefillGrows DEF Least
<1>12. BucketKept'
  BY <1>1, <1>7, <1>9, <1>10, <1>11 DEF BucketKept
<1> QED
  BY <1>4, <1>6, <1>12 DEF ThrottleInv

\* A bucket that is forgotten was full.
LEMMA JanitorStep ==
  ASSUME ThrottleInv, Janitor
  PROVE  ThrottleInv'
<1> USE ThrottleConstantsOK DEF ThrottleConstants
<1>1. /\ tokens # NoBucket /\ idleTicks > IdleTicks /\ tokens' = NoBucket /\ idleTicks' = 0
      /\ UNCHANGED <<tick, zset, windowLeft, passedWindow, openTicks, passedBucket>>
  BY DEF Janitor, windowVars
<1>2. ThrottleTyped /\ WindowKept /\ WindowHolds /\ BucketKept
  BY DEF ThrottleInv
<1>3. tokens = BucketSize
  <2>1. /\ tokens >= Least(BucketSize, Refill * idleTicks) /\ idleTicks \in Nat /\ IdleTicks <= idleTicks
        /\ tokens \in Int /\ tokens <= BucketSize
    BY <1>1, <1>2 DEF BucketKept, ThrottleTyped
  <2>2. Refill * IdleTicks <= Refill * idleTicks /\ Refill * IdleTicks = IdleTicks * Refill
    BY <2>1, RefillGrows
  <2>3. Refill * idleTicks \in Nat /\ Refill * IdleTicks \in Nat
    BY <2>1, RefillGrows
  <2> QED
    BY <2>1, <2>2, <2>3 DEF Least
<1>4. Have' = Have
  BY <1>1, <1>3 DEF Have
<1>5. ThrottleTyped'
  BY <1>1, <1>2 DEF ThrottleTyped
<1>6. BucketKept'
  BY <1>1, <1>2, <1>4 DEF BucketKept
<1> QED
  BY <1>1, <1>2, <1>5, <1>6 DEF ThrottleInv, WindowKept, WindowHolds, Watched

LEMMA ThrottleStart ==
  ASSUME ThrottleInit
  PROVE  ThrottleInv
<1> USE ThrottleConstantsOK DEF ThrottleConstants
<1>1. /\ tick = 0 /\ zset = [t \in Ticks |-> 0] /\ windowLeft = 0 /\ passedWindow = [t \in Ticks |-> 0]
      /\ openTicks = {} /\ tokens = NoBucket /\ idleTicks = 0 /\ passedBucket = [t \in Ticks |-> 0]
  BY DEF ThrottleInit
<1>2. ThrottleTyped
  BY <1>1 DEF ThrottleTyped, Ticks
<1>3. /\ [t \in Ticks |-> 0] \in [Ticks -> Int] /\ \A t \in Ticks : [x \in Ticks |-> 0][t] = 0
  OBVIOUS
<1>4. ASSUME NEW from \in Nat, NEW to \in Int, to <= MaxTick
      PROVE  Total(passedWindow, from, to) = 0 /\ Total(zset, from, to) = 0 /\ Total(passedBucket, from, to) = 0
  BY <1>1, <1>3, <1>4, TotalNone
<1>5. WindowKept
  <2>1. \A t \in 0..tick : t = 0 /\ Earliest(t) = 0
    BY <1>1 DEF Earliest
  <2>2. Total(passedWindow, 0, tick) = 0 /\ Total(zset, 0, tick) = 0
    BY <1>1, <1>4
  <2>3. \A t \in Ticks : passedWindow[t] = 0 /\ zset[t] = 0
    BY <1>1
  <2>4. \A t \in 0..tick : Total(passedWindow, t, tick) <= Total(zset, Earliest(t), tick)
    BY <2>1, <2>2
  <2> QED
    BY <2>3, <2>4 DEF WindowKept
<1>6. WindowHolds
  <2>1. ASSUME NEW t \in Ticks, t + WindowTicks - MaxSkew - 1 <= MaxTick
        PROVE  Total(passedWindow, t, t + WindowTicks - MaxSkew - 1) <= WindowLimit
    <3>1. t \in Nat /\ t + WindowTicks - MaxSkew - 1 \in Int
      BY TicksFinite
    <3>2. Total(passedWindow, t, t + WindowTicks - MaxSkew - 1) = 0
      BY <1>4, <2>1, <3>1
    <3> QED
      BY <3>2
  <2> QED
    BY <2>1 DEF WindowHolds
<1>7. BucketKept
  <2>1. Total(passedBucket, 0, 0) = 0
    BY <1>4
  <2>2. Have = BucketSize /\ Refill * (0 - 0) = 0
    BY <1>1, RefillGrows DEF Have
  <2>3. \A t \in 0..0 : t = 0
    OBVIOUS
  <2>4. \A t \in Ticks : passedBucket[t] = 0
    BY <1>1
  <2> QED
    BY <1>1, <2>1, <2>2, <2>3, <2>4 DEF BucketKept
<1> QED
  BY <1>2, <1>5, <1>6, <1>7 DEF ThrottleInv

LEMMA ThrottleStep ==
  ASSUME ThrottleInv, [ThrottleNext]_throttleVars
  PROVE  ThrottleInv'
<1>1. CASE UNCHANGED throttleVars
  <2>1. UNCHANGED <<tick, zset, windowLeft, passedWindow, openTicks, tokens, idleTicks, passedBucket>>
    BY <1>1 DEF throttleVars, windowVars, bucketVars
  <2> QED
    BY <2>1 DEF ThrottleInv, ThrottleTyped, WindowKept, Watched, WindowHolds, BucketKept, Have
<1> QED
  BY <1>1, TickStep, WindowStep, WindowOpens, BucketStep, JanitorStep DEF ThrottleNext

LEMMA ThrottleCorrect == ThrottleSpec => []ThrottleInv
BY ThrottleStart, ThrottleStep, PTL DEF ThrottleSpec

\* Types of the clock, the set, the bucket and what has passed.
THEOREM ThrottleTypeCorrect == ThrottleSpec => []ThrottleTypeOK
<1>1. ThrottleInv => ThrottleTypeOK
  BY DEF ThrottleInv, ThrottleTyped, ThrottleTypeOK
<1> QED
  BY <1>1, ThrottleCorrect, PTL

\* A window less what the clocks may differ by lets no more than its limit through,
\* unless Redis failed in it, and no stretch of time more than the bucket holds and
\* refills: for every limit, window, lateness of a clock, refill, size and idle time
\* that the janitor's is long enough for.
THEOREM LimitsStayHeld == ThrottleSpec => []LimitsHold
<1>1. ASSUME ThrottleInv, NEW t \in Ticks, NEW u \in t..MaxTick
      PROVE  Total(passedBucket, t, u) <= BucketSize + Refill * (u - t)
  <2> USE ThrottleConstantsOK DEF ThrottleConstants
  <2>1. /\ tick \in Nat /\ tick <= MaxTick /\ t \in Nat /\ u \in Nat /\ u <= MaxTick /\ u - t \in Nat
        /\ Have \in 0..BucketSize
        /\ passedBucket \in [Ticks -> Nat] /\ passedBucket \in [Ticks -> Int]
    <3>1. ThrottleTyped /\ Have \in 0..BucketSize
      BY <1>1, HaveTyped DEF ThrottleInv
    <3>2. tick \in Nat /\ tick <= MaxTick /\ t \in Nat /\ t <= MaxTick
      BY <3>1, TicksFinite DEF ThrottleTyped
    <3>3. u \in Nat /\ u <= MaxTick /\ u - t \in Nat
      BY <1>1, <3>2
    <3>4. passedBucket \in [Ticks -> Nat] /\ passedBucket \in [Ticks -> Int]
      BY <3>1 DEF ThrottleTyped
    <3> QED
      BY <3>1, <3>2, <3>3, <3>4
  <2>2. CASE u <= tick
    BY <1>1, <2>1, <2>2 DEF ThrottleInv, BucketKept
  <2>3. CASE t <= tick /\ tick < u
    <3>1. ASSUME NEW x \in Ticks, t <= x
          PROVE  \/ passedBucket[x] = 0
                 \/ t <= x /\ x <= tick /\ passedBucket[x] <= passedBucket[x]
      <4>1. x \in Nat /\ passedBucket[x] \in Nat /\ (x > tick => passedBucket[x] = 0)
        BY <1>1, <2>1, TicksFinite DEF ThrottleInv, BucketKept
      <4> QED
        BY <2>1, <3>1, <4>1
    <3>2. Total(passedBucket, t, u) <= Total(passedBucket, t, tick)
      <4>1. t \in Nat /\ u \in Int /\ tick \in Int
        BY <2>1
      <4>2. \A x \in Ticks : t <= x /\ x <= u =>
              passedBucket[x] = 0 \/ (t <= x /\ x <= tick /\ passedBucket[x] <= passedBucket[x])
        BY <3>1
      <4> QED
        BY <2>1, <4>1, <4>2, TotalMore
    <3>3. Total(passedBucket, t, u) \in Int /\ Total(passedBucket, t, tick) \in Int
      BY <2>1, TotalInt
    <3>4. Total(passedBucket, t, tick) + Have <= BucketSize + Refill * (tick - t)
      BY <1>1, <2>1, <2>3 DEF ThrottleInv, BucketKept
    <3>5. /\ tick - t \in Nat /\ tick - t <= u - t
      BY <2>1, <2>3
    <3>6. Refill * (tick - t) <= Refill * (u - t) /\ Refill * (tick - t) \in Nat /\ Refill * (u - t) \in Nat
      BY <2>1, <3>5, RefillGrows
    <3> QED
      BY <2>1, <3>2, <3>3, <3>4, <3>6
  <2>4. CASE tick < t
    <3>1. Total(passedBucket, t, u) = 0
      BY <1>1, <2>1, <2>4, TotalNone, TicksFinite DEF ThrottleInv, BucketKept
    <3> QED
      BY <2>1, <3>1, RefillGrows
  <2> QED
    BY <2>1, <2>2, <2>3, <2>4
<1>2. ThrottleInv => LimitsHold
  BY <1>1 DEF LimitsHold, ThrottleInv, WindowHolds
<1> QED
  BY <1>2, ThrottleCorrect, PTL

-----------------------------------------------------------------------------
(* Accounts and their sessions                                             *)

UseStates == {"idle", "updates", "bumps", "invalidates", "releases"}
UseRow    == [at : UseStates, link : SUBSET Links]

\* Calls that have a link and have not raised the version for it, or may not have.
Pending == {u \in Uses : use[u].at \in {"updates", "bumps", "releases"}}

AccountTyped ==
  /\ account \in [password : Passwords, version : Nat]
  /\ mailed \subseteq Links /\ linkUsed \subseteq mailed
  /\ use \in [Uses -> UseRow]
  /\ sessions \subseteq [version : Nat, password : Passwords]
  /\ versionCache \in Nat \cup {NoVersion}
  /\ lookup \in [Requests -> Nat \cup {NoVersion}]
  /\ setbacks \in 0..MaxSetbacks

LinkFits(rec) == IF rec.at = "idle" THEN rec.link = {} ELSE \E l \in Links : rec.link = {l}

\* Each used link, and each failure, raises the version once at most; nobody has
\* a version that the row has not had.
VersionsFit ==
  /\ \A u \in Uses : LinkFits(use[u])
  /\ account.version + Cardinality(Pending) <= Cardinality(linkUsed) + setbacks
  /\ versionCache <= account.version
  /\ \A r \in Requests : lookup[r] <= account.version
  /\ \A s \in sessions : s.version <= account.version

\* Without failures: sessions of the current version know the current password,
\* or it has just been changed and the version is to be raised; the cached version
\* is the current one, or it has just been raised and the cache is to be cleared.
ChangesShow ==
  /\ \/ \E u \in Uses : use[u].at = "bumps"
     \/ \A s \in sessions : s.version = account.version => s.password = account.password
  /\ \/ \E u \in Uses : use[u].at = "invalidates"
     \/ versionCache \in {NoVersion, account.version}

AccountInv == AccountTyped /\ VersionsFit /\ (setbacks = 0 => ChangesShow)

AccountConstants == IsFiniteSet(Links) /\ IsFiniteSet(Uses) /\ MaxSetbacks \in Nat /\ NoVersion = -1

LEMMA AccountConstantsOK == AccountConstants
BY AccountAssumption, SetbacksAssumption DEF AccountConstants, NoVersion

LEMMA LinksCount ==
  ASSUME AccountTyped
  PROVE  /\ IsFiniteSet(linkUsed) /\ Cardinality(linkUsed) \in Nat
         /\ Cardinality(linkUsed) <= Cardinality(Links) /\ Cardinality(Links) \in Nat
         /\ \A l \in Links \ linkUsed : /\ Cardinality(linkUsed \cup {l}) = Cardinality(linkUsed) + 1
                                        /\ Cardinality(linkUsed \cup {l}) \in Nat
         /\ \A l \in Links : /\ Cardinality(linkUsed \ {l}) \in Nat
                             /\ Cardinality(linkUsed \ {l}) >= Cardinality(linkUsed) - 1
<1>1. linkUsed \in SUBSET Links /\ IsFiniteSet(Links)
  BY AccountConstantsOK DEF AccountTyped, AccountConstants
<1>2. IsFiniteSet(linkUsed) /\ Cardinality(linkUsed) \in Nat /\ Cardinality(Links) \in Nat
  BY <1>1, FiniteParts, FS_CardinalityType
<1>3. Cardinality(linkUsed) <= Cardinality(Links)
  BY <1>1, FS_Subset
<1>4. ASSUME NEW l \in Links \ linkUsed
      PROVE  Cardinality(linkUsed \cup {l}) = Cardinality(linkUsed) + 1
  BY <1>2, FS_AddElement
<1>5. ASSUME NEW l \in Links
      PROVE  /\ Cardinality(linkUsed \ {l}) \in Nat
             /\ Cardinality(linkUsed \ {l}) >= Cardinality(linkUsed) - 1
  <2>1. linkUsed \ {l} \in SUBSET Links
    BY <1>1
  <2>2. Cardinality(linkUsed \ {l}) \in Nat
    BY <1>1, <2>1, FiniteParts
  <2>3. CASE l \in linkUsed
    <3>1. Cardinality(linkUsed \ {l}) = Cardinality(linkUsed) - 1
      BY <1>2, <2>3, FS_RemoveElement
    <3> QED
      BY <1>2, <2>2, <3>1
  <2>4. CASE l \notin linkUsed
    <3>1. linkUsed \ {l} = linkUsed
      BY <2>4
    <3> QED
      BY <1>2, <3>1
  <2> QED
    BY <2>2, <2>3, <2>4
<1> QED
  BY <1>2, <1>3, <1>4, <1>5

\* One call goes on.
LEMMA UseMoves ==
  ASSUME AccountTyped, \A v \in Uses : LinkFits(use[v]),
         NEW u \in Uses, NEW r \in UseRow, LinkFits(r), use' = [use EXCEPT ![u] = r]
  PROVE  /\ use' \in [Uses -> UseRow] /\ use'[u] = r
         /\ \A v \in Uses : v # u => use'[v] = use[v]
         /\ \A v \in Uses : LinkFits(use'[v])
         /\ Cardinality(Pending) \in Nat /\ Cardinality(Pending)' \in Nat
         /\ Cardinality(Pending)' = Cardinality(Pending)
              + Weight(r.at \in {"updates", "bumps", "releases"})
              - Weight(use[u].at \in {"updates", "bumps", "releases"})
<1>1. /\ use' \in [Uses -> UseRow] /\ use'[u] = r
      /\ \A v \in Uses : v # u => use'[v] = use[v]
  BY DEF AccountTyped
<1>2. \A v \in Uses : LinkFits(use'[v])
  BY <1>1
<1>3. /\ Pending \in SUBSET Uses /\ Pending' \in SUBSET Uses
      /\ \A v \in Uses : v # u => (v \in Pending' <=> v \in Pending)
      /\ u \in Pending' <=> r.at \in {"updates", "bumps", "releases"}
      /\ u \in Pending <=> use[u].at \in {"updates", "bumps", "releases"}
  BY <1>1 DEF Pending
<1>4. /\ Cardinality(Pending) \in Nat /\ Cardinality(Pending') \in Nat
      /\ Cardinality(Pending') = Cardinality(Pending) + Weight(u \in Pending') - Weight(u \in Pending)
  BY <1>3, CountMoves, AccountConstantsOK DEF AccountConstants
<1> QED
  BY <1>1, <1>2, <1>3, <1>4 DEF Weight

LEMMA UseAtIs ==
  ASSUME AccountTyped, \A v \in Uses : LinkFits(use[v]),
         NEW u \in Uses, use[u].at # "idle", NEW at \in UseStates, UseAt(u, at)
  PROVE  \E r \in UseRow : r.at = at /\ LinkFits(r) /\ use' = [use EXCEPT ![u] = r]
<1> DEFINE r == [at |-> at, link |-> IF at = "idle" THEN {} ELSE use[u].link]
<1>1. use' = [use EXCEPT ![u] = r]
  BY DEF UseAt
<1>2. use[u] \in UseRow /\ LinkFits(use[u])
  BY DEF AccountTyped
<1>3. r \in UseRow /\ r.at = at /\ LinkFits(r)
  BY <1>2 DEF UseRow, UseStates, LinkFits
<1> HIDE DEF r
<1> QED
  BY <1>1, <1>3

LEMMA AccountFails ==
  ASSUME setbacks \in 0..MaxSetbacks, Setback
  PROVE  setbacks' \in 0..MaxSetbacks /\ setbacks' = setbacks + 1 /\ setbacks' # 0
BY AccountConstantsOK DEF Setback, AccountConstants

-----------------------------------------------------------------------------
\* What leaves the calls alone.
LEMMA CallsRest ==
  ASSUME AccountInv, UNCHANGED <<account, linkUsed, use, setbacks>>,
         mailed \subseteq mailed', mailed' \subseteq Links,
         \A s \in sessions' : \/ s \in sessions
                             \/ s = [version |-> account.version, password |-> account.password],
         versionCache' \in {NoVersion, versionCache},
         lookup' \in [Requests -> Nat \cup {NoVersion}],
         \A r \in Requests : lookup'[r] <= account.version
  PROVE  AccountInv'
<1> USE AccountConstantsOK DEF AccountConstants
<1>1. account.version \in Nat /\ account.password \in Passwords
  BY DEF AccountInv, AccountTyped
<1>2. /\ sessions' \subseteq [version : Nat, password : Passwords]
      /\ \A s \in sessions' : s.version <= account.version
  BY <1>1 DEF AccountInv, AccountTyped, VersionsFit
<1>3. AccountTyped'
  BY <1>2 DEF AccountInv, AccountTyped
<1>4. VersionsFit'
  BY <1>1, <1>2 DEF AccountInv, VersionsFit, Pending
<1>5. ASSUME setbacks' = 0 PROVE ChangesShow'
  BY <1>5 DEF AccountInv, ChangesShow
<1> QED
  BY <1>3, <1>4, <1>5 DEF AccountInv

LEMMA ClaimStep ==
  ASSUME AccountInv, NEW u \in Uses, NEW l \in Links, emailTokenClaim(u, l)
  PROVE  AccountInv'
<1> USE AccountConstantsOK DEF AccountConstants
<1> DEFINE r == [at |-> "updates", link |-> {l}]
<1>1. /\ use[u].at = "idle" /\ l \in mailed \ linkUsed /\ linkUsed' = linkUsed \cup {l}
      /\ use' = [use EXCEPT ![u] = r]
      /\ UNCHANGED <<account, mailed, sessions, versionCache, lookup, setbacks>>
  BY DEF emailTokenClaim
<1>2. r \in UseRow /\ LinkFits(r) /\ r.at = "updates"
  BY DEF UseRow, UseStates, LinkFits
<1> HIDE DEF r
<1>3. /\ AccountTyped /\ \A v \in Uses : LinkFits(use[v])
  BY DEF AccountInv, VersionsFit
<1>4. /\ use' \in [Uses -> UseRow] /\ use'[u] = r
      /\ \A v \in Uses : v # u => use'[v] = use[v]
      /\ \A v \in Uses : LinkFits(use'[v])
      /\ Cardinality(Pending) \in Nat /\ Cardinality(Pending)' \in Nat
      /\ Cardinality(Pending)' = Cardinality(Pending) + 1
  <2>1. Weight(r.at \in {"updates", "bumps", "releases"}) = 1
    BY <1>2 DEF Weight
  <2>2. Weight(use[u].at \in {"updates", "bumps", "releases"}) = 0
    BY <1>1 DEF Weight
  <2> HIDE DEF AccountConstants
  <2>3. /\ use' \in [Uses -> UseRow] /\ use'[u] = r
        /\ \A v \in Uses : v # u => use'[v] = use[v]
        /\ \A v \in Uses : LinkFits(use'[v])
        /\ Cardinality(Pending) \in Nat /\ Cardinality(Pending)' \in Nat
        /\ Cardinality(Pending)' = Cardinality(Pending)
              + Weight(r.at \in {"updates", "bumps", "releases"})
              - Weight(use[u].at \in {"updates", "bumps", "releases"})
    BY <1>1, <1>2, <1>3, UseMoves
  <2> QED
    BY <2>1, <2>2, <2>3
<1>5. /\ Cardinality(linkUsed') = Cardinality(linkUsed) + 1 /\ Cardinality(linkUsed) \in Nat
      /\ linkUsed' \subseteq mailed
  BY <1>1, <1>3, LinksCount DEF AccountTyped
<1>6. AccountTyped'
  BY <1>1, <1>3, <1>4, <1>5 DEF AccountTyped
<1>7. VersionsFit'
  BY <1>1, <1>3, <1>4, <1>5 DEF AccountInv, VersionsFit, AccountTyped
<1>8. ASSUME setbacks' = 0 PROVE ChangesShow'
  <2>1. \A v \in Uses : use[v].at \in {"bumps", "invalidates"} => use'[v] = use[v]
    BY <1>1, <1>4
  <2> QED
    BY <1>1, <1>8, <2>1 DEF AccountInv, ChangesShow
<1> QED
  BY <1>6, <1>7, <1>8 DEF AccountInv

\* The other steps of a call: it goes from a state to a state, and what it does to
\* the row, the link and the cache fits that.
LEMMA CallStep ==
  ASSUME AccountInv, NEW u \in Uses, use[u].at # "idle", NEW at \in UseStates, UseAt(u, at),
         UNCHANGED <<mailed, sessions, lookup>>, Setback \/ Smooth,
         account'.password \in Passwords, account' \in [password : Passwords, version : Nat],
         account'.version >= account.version, versionCache' \in {versionCache, NoVersion},
         linkUsed' \in {linkUsed, linkUsed \ use[u].link},
         linkUsed' # linkUsed => Smooth,
         \* what the version takes, a claimed link or a failure has given
         account'.version + Cardinality(linkUsed)
             + Weight(at \in {"updates", "bumps", "releases"}) + setbacks
           <= account.version + Cardinality(linkUsed')
             + Weight(use[u].at \in {"updates", "bumps", "releases"}) + setbacks',
         \* without failures
         Smooth => \/ at = "bumps"
                   \/ use[u].at = "bumps" /\ account'.version > account.version
                   \/ use[u].at # "bumps" /\ account'.password = account.password
                                          /\ account'.version = account.version,
         Smooth => \/ at = "invalidates"
                   \/ use[u].at = "invalidates" /\ versionCache' = NoVersion
                   \/ use[u].at # "invalidates" /\ account'.version = account.version
  PROVE  AccountInv'
<1> USE AccountConstantsOK DEF AccountConstants
<1>1. /\ AccountTyped /\ \A v \in Uses : LinkFits(use[v])
  BY DEF AccountInv, VersionsFit
<1>2. PICK r \in UseRow : r.at = at /\ LinkFits(r) /\ use' = [use EXCEPT ![u] = r]
  BY <1>1, UseAtIs
<1>3. /\ use' \in [Uses -> UseRow] /\ use'[u] = r
      /\ \A v \in Uses : v # u => use'[v] = use[v]
      /\ \A v \in Uses : LinkFits(use'[v])
      /\ Cardinality(Pending) \in Nat /\ Cardinality(Pending)' \in Nat
      /\ Cardinality(Pending)' = Cardinality(Pending)
           + Weight(r.at \in {"updates", "bumps", "releases"})
           - Weight(use[u].at \in {"updates", "bumps", "releases"})
  BY <1>1, <1>2, UseMoves
<1>4. /\ setbacks' \in 0..MaxSetbacks /\ (setbacks' = 0 => Smooth /\ setbacks = 0)
  BY <1>1, AccountFails DEF AccountTyped, Smooth
<1>5. /\ \A s \in sessions : s.version \in Nat /\ s.version <= account'.version
      /\ \A q \in Requests : lookup[q] <= account'.version
      /\ versionCache' <= account'.version
      /\ account.version \in Nat /\ account'.version \in Nat
  <2>1. /\ \A s \in sessions : s.version \in Nat /\ s.version <= account.version
        /\ \A q \in Requests : lookup[q] \in Int /\ lookup[q] <= account.version
        /\ account.version \in Nat /\ account'.version \in Nat /\ account.version <= account'.version
        /\ versionCache \in Int /\ versionCache <= account.version
    BY <1>1 DEF AccountInv, AccountTyped, VersionsFit
  <2> QED
    BY <2>1
<1>6. AccountTyped'
  BY <1>1, <1>3, <1>4 DEF AccountTyped
<1>7. VersionsFit'
  <2>1. account.version + Cardinality(Pending) <= Cardinality(linkUsed) + setbacks
    BY DEF AccountInv, VersionsFit
  <2>2. Cardinality(linkUsed) \in Nat /\ Cardinality(linkUsed') \in Nat
    <3>1. use[u].link \in SUBSET Links /\ linkUsed' \in SUBSET Links /\ linkUsed \in SUBSET Links
      BY <1>1 DEF AccountTyped, UseRow
    <3> QED
      BY <3>1, FiniteParts
  <2>3. /\ setbacks \in Nat /\ setbacks' \in Nat
        /\ Weight(at \in {"updates", "bumps", "releases"}) \in Nat
        /\ Weight(use[u].at \in {"updates", "bumps", "releases"}) \in Nat
    BY <1>1, <1>4 DEF AccountTyped, Weight
  <2> HIDE DEF Weight
  <2>4. account'.version + Cardinality(Pending)' <= Cardinality(linkUsed') + setbacks'
    BY <1>2, <1>3, <1>5, <2>1, <2>2, <2>3
  <2> QED
    BY <1>3, <1>5, <2>4 DEF VersionsFit
<1>8. ASSUME setbacks' = 0 PROVE ChangesShow'
  <2>1. Smooth /\ ChangesShow
    BY <1>4, <1>8 DEF AccountInv
  <2>2. \/ \E v \in Uses : use'[v].at = "bumps"
        \/ \A s \in sessions : s.version = account'.version => s.password = account'.password
    <3>1. CASE at = "bumps"
      BY <1>2, <1>3, <3>1
    <3>2. CASE use[u].at = "bumps" /\ account'.version > account.version
      <4>1. \A s \in sessions : s.version # account'.version
        BY <1>1, <1>5, <3>2 DEF AccountInv, VersionsFit
      <4> QED
        BY <4>1
    <3>3. CASE use[u].at # "bumps" /\ account'.password = account.password /\ account'.version = account.version
      BY <1>3, <2>1, <3>3 DEF ChangesShow
    <3> QED
      BY <2>1, <3>1, <3>2, <3>3
  <2>3. \/ \E v \in Uses : use'[v].at = "invalidates"
        \/ versionCache' \in {NoVersion, account'.version}
    <3>1. CASE at = "invalidates"
      BY <1>2, <1>3, <3>1
    <3>2. CASE use[u].at # "invalidates" /\ account'.version = account.version
      BY <1>3, <2>1, <3>2 DEF ChangesShow
    <3> QED
      BY <2>1, <3>1, <3>2
  <2> QED
    BY <2>2, <2>3 DEF ChangesShow
<1> QED
  BY <1>6, <1>7, <1>8 DEF AccountInv

LEMMA UpdateStep ==
  ASSUME AccountInv, NEW u \in Uses, UpdateUserColumns(u)
  PROVE  AccountInv'
<1> USE AccountConstantsOK DEF AccountConstants
<1> DEFINE new == [account EXCEPT !.password = CHOOSE l \in use[u].link : TRUE]
<1>1. /\ use[u].at = "updates" /\ UNCHANGED <<mailed, linkUsed, sessions, versionCache, lookup>>
      /\ \/ Smooth /\ account' = new /\ UseAt(u, "bumps")
         \/ Setback /\ account' \in {new, account} /\ UseAt(u, "releases")
  BY DEF UpdateUserColumns
<1>2. /\ AccountTyped /\ account.version \in Nat /\ account.password \in Passwords
      /\ account \in [password : Passwords, version : Nat]
      /\ Cardinality(linkUsed) \in Nat /\ setbacks \in 0..MaxSetbacks
  BY LinksCount DEF AccountInv, AccountTyped
<1>3. new \in [password : Passwords, version : Nat] /\ new.version = account.version
  <2>1. PICK l \in Links : use[u].link = {l}
    BY <1>1 DEF AccountInv, VersionsFit, LinkFits
  <2>2. (CHOOSE x \in use[u].link : TRUE) \in Passwords
    BY <2>1 DEF Passwords
  <2> QED
    BY <1>2, <2>2
<1> HIDE DEF new
<1>4. /\ account' \in [password : Passwords, version : Nat] /\ account'.version = account.version
      /\ account'.password \in Passwords
  BY <1>1, <1>2, <1>3
<1>5. CASE Smooth /\ account' = new /\ UseAt(u, "bumps")
  <2>1. /\ Weight("bumps" \in {"updates", "bumps", "releases"}) = 1
        /\ Weight(use[u].at \in {"updates", "bumps", "releases"}) = 1 /\ setbacks' = setbacks
    BY <1>1, <1>5 DEF Weight, Smooth
  <2>2. account'.version + Cardinality(linkUsed)
             + Weight("bumps" \in {"updates", "bumps", "releases"}) + setbacks
           <= account.version + Cardinality(linkUsed')
             + Weight(use[u].at \in {"updates", "bumps", "releases"}) + setbacks'
    BY <1>1, <1>2, <1>4, <2>1
  <2>3. account'.version >= account.version /\ "bumps" \in UseStates
    BY <1>2, <1>4 DEF UseStates
  <2> QED
    BY <1>1, <1>4, <1>5, <2>2, <2>3, CallStep
<1>6. CASE Setback /\ UseAt(u, "releases")
  <2>1. /\ Weight("releases" \in {"updates", "bumps", "releases"}) = 1
        /\ Weight(use[u].at \in {"updates", "bumps", "releases"}) = 1
        /\ setbacks' = setbacks + 1 /\ ~ Smooth
    BY <1>1, <1>2, <1>6, AccountFails DEF Weight, Smooth
  <2>2. account'.version + Cardinality(linkUsed)
             + Weight("releases" \in {"updates", "bumps", "releases"}) + setbacks
           <= account.version + Cardinality(linkUsed')
             + Weight(use[u].at \in {"updates", "bumps", "releases"}) + setbacks'
    BY <1>1, <1>2, <1>4, <2>1
  <2>3. account'.version >= account.version /\ "releases" \in UseStates
    BY <1>2, <1>4 DEF UseStates
  <2> QED
    BY <1>1, <1>4, <1>6, <2>1, <2>2, <2>3, CallStep
<1> QED
  BY <1>1, <1>5, <1>6

LEMMA BumpStep ==
  ASSUME AccountInv, NEW u \in Uses, BumpTokenVersion(u)
  PROVE  AccountInv'
<1> USE AccountConstantsOK DEF AccountConstants
<1> DEFINE new == [account EXCEPT !.version = account.version + 1]
<1>1. /\ use[u].at = "bumps" /\ UNCHANGED <<mailed, linkUsed, sessions, versionCache, lookup>>
      /\ \/ Smooth /\ account' = new /\ UseAt(u, "invalidates")
         \/ Setback /\ account' \in {new, account} /\ UseAt(u, "releases")
  BY DEF BumpTokenVersion
<1>2. /\ AccountTyped /\ account.version \in Nat /\ account.password \in Passwords
      /\ account \in [password : Passwords, version : Nat]
      /\ Cardinality(linkUsed) \in Nat /\ setbacks \in 0..MaxSetbacks
  BY LinksCount DEF AccountInv, AccountTyped
<1>3. new \in [password : Passwords, version : Nat] /\ new.version = account.version + 1
  BY <1>2
<1> HIDE DEF new
<1>4. /\ account' \in [password : Passwords, version : Nat] /\ account'.password \in Passwords
      /\ account'.version \in {account.version, account.version + 1}
  BY <1>1, <1>2, <1>3
<1>5. CASE Smooth /\ account' = new /\ UseAt(u, "invalidates")
  <2>1. /\ Weight("invalidates" \in {"updates", "bumps", "releases"}) = 0
        /\ Weight(use[u].at \in {"updates", "bumps", "releases"}) = 1 /\ setbacks' = setbacks
        /\ account'.version = account.version + 1
    BY <1>1, <1>3, <1>5 DEF Weight, Smooth
  <2>2. account'.version + Cardinality(linkUsed)
             + Weight("invalidates" \in {"updates", "bumps", "releases"}) + setbacks
           <= account.version + Cardinality(linkUsed')
             + Weight(use[u].at \in {"updates", "bumps", "releases"}) + setbacks'
    BY <1>1, <1>2, <2>1
  <2>3. /\ account'.version >= account.version /\ account'.version > account.version
        /\ "invalidates" \in UseStates
    BY <1>2, <2>1 DEF UseStates
  <2> QED
    BY <1>1, <1>4, <1>5, <2>2, <2>3, CallStep
<1>6. CASE Setback /\ UseAt(u, "releases")
  <2>1. /\ Weight("releases" \in {"updates", "bumps", "releases"}) = 1
        /\ Weight(use[u].at \in {"updates", "bumps", "releases"}) = 1
        /\ setbacks' = setbacks + 1 /\ ~ Smooth
    BY <1>1, <1>2, <1>6, AccountFails DEF Weight, Smooth
  <2>2. account'.version + Cardinality(linkUsed)
             + Weight("releases" \in {"updates", "bumps", "releases"}) + setbacks
           <= account.version + Cardinality(linkUsed')
             + Weight(use[u].at \in {"updates", "bumps", "releases"}) + setbacks'
    BY <1>1, <1>2, <1>4, <2>1
  <2>3. account'.version >= account.version /\ "releases" \in UseStates
    BY <1>2, <1>4 DEF UseStates
  <2> QED
    BY <1>1, <1>4, <1>6, <2>1, <2>2, <2>3, CallStep
<1> QED
  BY <1>1, <1>5, <1>6

\* Back to idle: the cache is cleared, the link is given free, or the call dies.
LEMMA EndStep ==
  ASSUME AccountInv, NEW u \in Uses,
         InvalidateTokenVersionCache(u) \/ emailTokenRelease(u) \/ UseDies(u)
  PROVE  AccountInv'
<1> USE AccountConstantsOK DEF AccountConstants
<1>1. /\ use[u].at # "idle" /\ UseAt(u, "idle") /\ UNCHANGED <<account, mailed, sessions, lookup>>
      /\ \/ Smooth /\ use[u].at = "invalidates" /\ versionCache' = NoVersion /\ linkUsed' = linkUsed
         \/ Smooth /\ use[u].at = "releases" /\ linkUsed' = linkUsed \ use[u].link /\ versionCache' = versionCache
         \/ Setback /\ UNCHANGED <<linkUsed, versionCache>>
  BY DEF InvalidateTokenVersionCache, emailTokenRelease, UseDies, Smooth
<1>2. /\ AccountTyped /\ account.version \in Nat /\ account.password \in Passwords
      /\ account \in [password : Passwords, version : Nat]
      /\ Cardinality(linkUsed) \in Nat /\ setbacks \in 0..MaxSetbacks
  BY LinksCount DEF AccountInv, AccountTyped
<1>3. Weight("idle" \in {"updates", "bumps", "releases"}) = 0 /\ "idle" \in UseStates
  BY DEF Weight, UseStates
<1>4. CASE Smooth /\ use[u].at = "invalidates" /\ versionCache' = NoVersion /\ linkUsed' = linkUsed
  <2>1. Weight(use[u].at \in {"updates", "bumps", "releases"}) = 0 /\ setbacks' = setbacks
    BY <1>4 DEF Weight, Smooth
  <2>2. account'.version + Cardinality(linkUsed)
             + Weight("idle" \in {"updates", "bumps", "releases"}) + setbacks
           <= account.version + Cardinality(linkUsed')
             + Weight(use[u].at \in {"updates", "bumps", "releases"}) + setbacks'
    BY <1>1, <1>2, <1>3, <1>4, <2>1
  <2> QED
    BY <1>1, <1>2, <1>3, <1>4, <2>2, CallStep
<1>5. CASE Smooth /\ use[u].at = "releases" /\ linkUsed' = linkUsed \ use[u].link /\ versionCache' = versionCache
  <2>1. Weight(use[u].at \in {"updates", "bumps", "releases"}) = 1 /\ setbacks' = setbacks
    BY <1>5 DEF Weight, Smooth
  <2>2. Cardinality(linkUsed') \in Nat /\ Cardinality(linkUsed') >= Cardinality(linkUsed) - 1
    <3>1. PICK l \in Links : use[u].link = {l}
      BY <1>1 DEF AccountInv, VersionsFit, LinkFits
    <3> QED
      BY <1>2, <1>5, <3>1, LinksCount
  <2>3. account'.version + Cardinality(linkUsed)
             + Weight("idle" \in {"updates", "bumps", "releases"}) + setbacks
           <= account.version + Cardinality(linkUsed')
             + Weight(use[u].at \in {"updates", "bumps", "releases"}) + setbacks'
    BY <1>1, <1>2, <1>3, <2>1, <2>2
  <2> QED
    <3>1. /\ account'.version >= account.version /\ account' \in [password : Passwords, version : Nat]
          /\ account'.password \in Passwords /\ account'.version = account.version
          /\ account'.password = account.password
          /\ use[u].at # "bumps" /\ use[u].at # "invalidates"
          /\ linkUsed' \in {linkUsed, linkUsed \ use[u].link} /\ versionCache' \in {versionCache, NoVersion}
          /\ UNCHANGED <<mailed, sessions, lookup>> /\ Smooth
      BY <1>1, <1>2, <1>5
    <3> HIDE DEF AccountConstants
    <3> QED
      BY <1>1, <1>3, <2>3, <3>1, CallStep
<1>6. CASE Setback /\ UNCHANGED <<linkUsed, versionCache>>
  <2>1. setbacks' = setbacks + 1 /\ ~ Smooth
    BY <1>2, <1>6, AccountFails DEF Smooth
  <2>0. Weight(use[u].at \in {"updates", "bumps", "releases"}) \in Nat
    BY DEF Weight
  <2>2. account'.version + Cardinality(linkUsed)
             + Weight("idle" \in {"updates", "bumps", "releases"}) + setbacks
           <= account.version + Cardinality(linkUsed')
             + Weight(use[u].at \in {"updates", "bumps", "releases"}) + setbacks'
    BY <1>1, <1>2, <1>3, <1>6, <2>0, <2>1
  <2> QED
    BY <1>1, <1>2, <1>3, <1>6, <2>1, <2>2, CallStep
<1> QED
  BY <1>1, <1>4, <1>5, <1>6

LEMMA StoreVersionStep ==
  ASSUME AccountInv, NEW r \in Requests, StoreVersion(r)
  PROVE  AccountInv'
<1> USE AccountConstantsOK DEF AccountConstants
<1>1. /\ lookup[r] # NoVersion /\ versionCache' = lookup[r]
      /\ lookup' = [lookup EXCEPT ![r] = NoVersion]
      /\ UNCHANGED <<account, mailed, linkUsed, use, sessions>>
      /\ \/ (lookup[r] = account.version \/ \E u \in Uses : use[u].at = "invalidates") /\ Smooth
         \/ Setback
  BY DEF StoreVersion
<1>2. /\ AccountTyped /\ VersionsFit /\ account.version \in Nat /\ lookup[r] <= account.version
      /\ lookup[r] \in Nat
  BY <1>1 DEF AccountInv, AccountTyped, VersionsFit
<1>3. /\ lookup' \in [Requests -> Nat \cup {NoVersion}]
      /\ \A q \in Requests : lookup'[q] <= account.version
  BY <1>1, <1>2 DEF AccountTyped, VersionsFit
<1>4. /\ setbacks' \in 0..MaxSetbacks /\ setbacks' >= setbacks /\ (setbacks' = 0 => Smooth /\ setbacks = 0)
  BY <1>1, <1>2, AccountFails DEF AccountTyped, Smooth
<1>5. AccountTyped'
  BY <1>1, <1>2, <1>3, <1>4 DEF AccountTyped
<1>6. VersionsFit'
  <2>1. /\ account.version + Cardinality(Pending) <= Cardinality(linkUsed) + setbacks
        /\ Cardinality(linkUsed) \in Nat /\ setbacks \in Nat /\ Pending' = Pending
    BY <1>1, <1>2, LinksCount DEF VersionsFit, AccountTyped, Pending
  <2>2. Cardinality(Pending) \in Nat
    BY FiniteParts DEF Pending
  <2>3. account.version + Cardinality(Pending) <= Cardinality(linkUsed) + setbacks'
    BY <1>2, <1>4, <2>1, <2>2
  <2> QED
    BY <1>1, <1>2, <1>3, <2>1, <2>3 DEF VersionsFit
<1>7. ASSUME setbacks' = 0 PROVE ChangesShow'
  BY <1>1, <1>2, <1>4, <1>7, AccountFails DEF AccountInv, AccountTyped, ChangesShow
<1> QED
  BY <1>5, <1>6, <1>7 DEF AccountInv

LEMMA AccountStart ==
  ASSUME AccountInit, SetbacksInit
  PROVE  AccountInv
<1> USE AccountConstantsOK DEF AccountConstants
<1>1. /\ account = [password |-> "first", version |-> 0] /\ mailed = {} /\ linkUsed = {} /\ sessions = {}
      /\ versionCache = NoVersion /\ setbacks = 0
      /\ use = [u \in Uses |-> [at |-> "idle", link |-> {}]]
      /\ lookup = [r \in Requests |-> NoVersion]
  BY DEF AccountInit, SetbacksInit
<1>2. [at |-> "idle", link |-> {}] \in UseRow /\ LinkFits([at |-> "idle", link |-> {}])
  BY DEF UseRow, UseStates, LinkFits
<1>3. use \in [Uses -> UseRow] /\ \A u \in Uses : use[u].at = "idle" /\ LinkFits(use[u])
  BY <1>1, <1>2
<1>4. AccountTyped
  BY <1>1, <1>3 DEF AccountTyped, Passwords
<1>5. Pending = {}
  BY <1>3 DEF Pending
<1>6. VersionsFit
  BY <1>1, <1>3, <1>5, FS_EmptySet DEF VersionsFit
<1>7. ChangesShow
  BY <1>1 DEF ChangesShow
<1> QED
  BY <1>4, <1>6, <1>7 DEF AccountInv

LEMMA AccountStep ==
  ASSUME AccountInv, [AccountNext]_accountVars
  PROVE  AccountInv'
<1> USE AccountConstantsOK DEF AccountConstants
<1>0. /\ mailed \subseteq Links /\ account.version \in Nat
      /\ lookup \in [Requests -> Nat \cup {NoVersion}] /\ \A r \in Requests : lookup[r] <= account.version
  BY DEF AccountInv, AccountTyped, VersionsFit
<1>1. CASE UNCHANGED accountVars
  BY <1>0, <1>1, CallsRest DEF accountVars
<1>2. ASSUME NEW l \in Links, SendEmail(l) PROVE AccountInv'
  <2>1. mailed' = mailed \cup {l} /\ UNCHANGED <<account, linkUsed, use, sessions, versionCache, lookup, setbacks>>
    BY <1>2 DEF SendEmail
  <2> QED
    BY <1>0, <2>1, CallsRest
<1>3. CASE UserLogin
  <2>1. /\ sessions' = sessions \cup {[version |-> account.version, password |-> account.password]}
        /\ UNCHANGED <<account, mailed, linkUsed, use, versionCache, lookup, setbacks>>
    BY <1>3 DEF UserLogin
  <2> QED
    BY <1>0, <2>1, CallsRest
<1>4. CASE VersionExpires
  <2>1. versionCache' = NoVersion /\ UNCHANGED <<account, mailed, linkUsed, use, sessions, lookup, setbacks>>
    BY <1>4 DEF VersionExpires
  <2> QED
    BY <1>0, <2>1, CallsRest
<1>5. ASSUME NEW r \in Requests, currentTokenVersion(r) PROVE AccountInv'
  <2>1. /\ lookup' = [lookup EXCEPT ![r] = account.version]
        /\ UNCHANGED <<account, mailed, linkUsed, use, sessions, versionCache, setbacks>>
    BY <1>5 DEF currentTokenVersion
  <2>2. /\ lookup' \in [Requests -> Nat \cup {NoVersion}]
        /\ \A q \in Requests : lookup'[q] <= account.version
    BY <1>0, <2>1
  <2> QED
    BY <1>0, <2>1, <2>2, CallsRest
<1> QED
  BY <1>1, <1>2, <1>3, <1>4, <1>5, ClaimStep, UpdateStep, BumpStep, EndStep, StoreVersionStep
  DEF AccountNext

LEMMA AccountCorrect == AccountSpec => []AccountInv
BY AccountStart, AccountStep, PTL DEF AccountSpec

\* Types of the row, the links, the calls, the tokens and the cached version, for
\* any number of each: no version is raised twice for one link.
THEOREM AccountTypeCorrect == AccountSpec => []AccountTypeOK
<1>1. ASSUME AccountInv PROVE AccountTypeOK
  <2> USE AccountConstantsOK DEF AccountConstants
  <2>1. AccountTyped /\ VersionsFit
    BY <1>1 DEF AccountInv
  <2>2. Cardinality(Pending) \in Nat
    BY FiniteParts DEF Pending
  <2>3. MaxVersion \in Nat /\ account.version \in 0..MaxVersion
    <3>1. /\ Cardinality(linkUsed) \in Nat /\ Cardinality(Links) \in Nat
          /\ Cardinality(linkUsed) <= Cardinality(Links)
      BY <2>1, LinksCount
    <3>2. account.version \in Nat /\ setbacks \in Nat /\ setbacks <= MaxSetbacks
      BY <2>1 DEF AccountTyped
    <3> QED
      BY <2>1, <2>2, <3>1, <3>2 DEF VersionsFit, MaxVersion
  <2>4. \A v \in Nat \cup {NoVersion} : v <= account.version => v \in NoVersion..MaxVersion
    BY <2>3
  <2>5. /\ versionCache \in NoVersion..MaxVersion
        /\ lookup \in [Requests -> NoVersion..MaxVersion]
    BY <2>1, <2>4 DEF AccountTyped, VersionsFit
  <2>6. sessions \subseteq [version : 0..MaxVersion, password : Passwords]
    BY <2>1, <2>3 DEF AccountTyped, VersionsFit
  <2>7. \A u \in Uses : Cardinality(use[u].link) <= 1
    <3>1. \A l \in Links : Cardinality({l}) = 1
      BY FS_Singleton
    <3> QED
      BY <2>1, <3>1, FS_EmptySet DEF VersionsFit, LinkFits
  <2>8. use \in [Uses -> [at : UseStates, link : {L \in SUBSET Links : Cardinality(L) <= 1}]]
    BY <2>1, <2>7 DEF AccountTyped, UseRow
  <2> QED
    BY <2>1, <2>3, <2>5, <2>6, <2>8 DEF AccountTyped, AccountTypeOK, UseStates
<1> QED
  BY <1>1, AccountCorrect, PTL

\* Once no change is under way the sessions from before the last one have ended, for
\* any number of links, calls, logins and lookups, when nothing fails.
THEOREM OldSessionsEnd == AccountSpec => []SessionsEnd
<1>1. ASSUME AccountInv, setbacks = 0, \A u \in Uses : use[u].at \in {"idle", "updates"}, NEW s \in sessions
      PROVE  /\ Admits(s) <=> s.version = account.version
             /\ Admits(s) => s.password = account.password
  <2>1. versionCache \in {NoVersion, account.version}
    BY <1>1 DEF AccountInv, ChangesShow
  <2>2. s.version = account.version => s.password = account.password
    BY <1>1 DEF AccountInv, ChangesShow
  <2> QED
    BY <2>1, <2>2 DEF Admits
<1>2. AccountInv => SessionsEnd
  BY <1>1 DEF SessionsEnd
<1> QED
  BY <1>2, AccountCorrect, PTL

-----------------------------------------------------------------------------
(* The cached details of a product                                         *)

FlightRow == [at : {"idle", "loads", "stores"}, saw : Absent..MaxText]
EditRow   == [at : {"idle", "updates", "created", "deleted", "second"}, awaits : SUBSET Shoppers]

\* A write of the row is followed by a deletion that is still to come.
DeletionDue(m) == edit[m].at \in {"deleted", "second"}

\* Without failures: whatever details in the cache are not the row's will be
\* deleted, and whoever read them and is to store them is waited for.
CopyFollows ==
  /\ detail \in {Miss, Absent, item.text} \/ \E m \in Editors : DeletionDue(m)
  /\ \A s \in Shoppers : flight[s].at = "stores" =>
       \/ flight[s].saw \in {Absent, item.text}
       \/ \E m \in Editors : DeletionDue(m) /\ s \in edit[m].awaits

CacheTyped ==
  /\ item \in [text : Absent..MaxText, born : BOOLEAN] /\ detail \in Miss..MaxText
  /\ flight \in [Shoppers -> FlightRow] /\ edit \in [Editors -> EditRow]
  /\ setbacks \in Nat /\ (item.text # Absent => item.born)

CacheInv == CacheTyped /\ (setbacks = 0 => CopyFollows)

CacheConstants == MaxText \in Nat \ {0} /\ MaxSetbacks \in Nat /\ Absent = 0 /\ Miss = -1

LEMMA CacheConstantsOK == CacheConstants
BY CacheAssumption, SetbacksAssumption DEF CacheConstants, Absent, Miss

LEMMA EditTyped ==
  ASSUME CacheTyped, NEW m \in Editors,
         NEW at \in {"idle", "updates", "created", "deleted", "second"}, EditAt(m, at)
  PROVE  /\ edit' \in [Editors -> EditRow] /\ edit'[m].at = at
         /\ edit'[m].awaits = IF at \in {"deleted", "second"}
              THEN edit[m].awaits \cup {s \in Shoppers : flight[s].at = "stores"} ELSE {}
         /\ \A x \in Editors : x # m => edit'[x] = edit[x]
<1> DEFINE w == IF at \in {"deleted", "second"}
                THEN edit[m].awaits \cup {s \in Shoppers : flight[s].at = "stores"} ELSE {}
           r == [at |-> at, awaits |-> w]
<1>1. edit' = [edit EXCEPT ![m] = r]
  BY DEF EditAt
<1>2. r \in EditRow /\ r.at = at /\ r.awaits = w
  <2>1. edit[m].awaits \in SUBSET Shoppers
    BY DEF CacheTyped, EditRow
  <2> QED
    BY <2>1 DEF EditRow
<1> HIDE DEF r
<1> QED
  BY <1>1, <1>2 DEF CacheTyped

LEMMA CacheFails ==
  ASSUME CacheTyped, Setback
  PROVE  setbacks' \in Nat /\ setbacks' # 0
BY CacheConstantsOK DEF Setback, CacheTyped, CacheConstants

\* Loads.
LEMMA LoadsStep ==
  ASSUME CacheInv, NEW s \in Shoppers, GetProductDetail(s) \/ LoadProduct(s)
  PROVE  CacheInv'
<1> USE CacheConstantsOK DEF CacheConstants
<1>1. UNCHANGED <<item, detail, edit>>
  BY DEF GetProductDetail, LoadProduct
<1>2. PICK r \in FlightRow :
        /\ flight' = [flight EXCEPT ![s] = r]
        /\ r.at = "stores" => r.saw = item.text
  <2>1. CASE GetProductDetail(s)
    <3>1. flight' = [flight EXCEPT ![s] = [flight[s] EXCEPT !.at = "loads"]]
      BY <2>1 DEF GetProductDetail
    <3>2. [flight[s] EXCEPT !.at = "loads"] \in FlightRow /\ [flight[s] EXCEPT !.at = "loads"].at # "stores"
      BY DEF CacheInv, CacheTyped, FlightRow
    <3> QED
      BY <3>1, <3>2
  <2>2. CASE LoadProduct(s)
    <3>1. \/ flight' = [flight EXCEPT ![s] = [at |-> "stores", saw |-> item.text]]
          \/ flight' = [flight EXCEPT ![s] = [flight[s] EXCEPT !.at = "idle"]]
      BY <2>2 DEF LoadProduct
    <3>2. [flight[s] EXCEPT !.at = "idle"] \in FlightRow /\ [flight[s] EXCEPT !.at = "idle"].at # "stores"
      BY DEF CacheInv, CacheTyped, FlightRow
    <3>3. /\ [at |-> "stores", saw |-> item.text] \in FlightRow
          /\ [at |-> "stores", saw |-> item.text].saw = item.text
      BY DEF CacheInv, CacheTyped, FlightRow
    <3> QED
      BY <3>1, <3>2, <3>3
  <2> QED
    BY <2>1, <2>2
<1>3. flight' \in [Shoppers -> FlightRow] /\ flight'[s] = r /\ \A t \in Shoppers : t # s => flight'[t] = flight[t]
  BY <1>2 DEF CacheInv, CacheTyped
<1>4. Setback \/ Smooth
  BY DEF GetProductDetail, LoadProduct
<1>5. CacheTyped'
  BY <1>1, <1>3, <1>4, CacheFails DEF CacheInv, CacheTyped, Smooth
<1>6. ASSUME setbacks' = 0 PROVE CopyFollows'
  <2>1. Smooth /\ CopyFollows
    BY <1>4, <1>6, CacheFails DEF CacheInv, Smooth
  <2>2. ASSUME NEW t \in Shoppers, flight'[t].at = "stores"
        PROVE  \/ flight'[t].saw \in {Absent, item.text}
               \/ \E m \in Editors : DeletionDue(m) /\ t \in edit[m].awaits
    <3>1. CASE t = s
      BY <1>2, <1>3, <2>2, <3>1
    <3>2. CASE t # s
      BY <1>3, <2>1, <2>2, <3>2 DEF CopyFollows
    <3> QED
      BY <3>1, <3>2
  <2> QED
    BY <1>1, <2>1, <2>2 DEF CopyFollows, DeletionDue
<1> QED
  BY <1>5, <1>6 DEF CacheInv

\* A load stores what it read: the row's details, or others, which an edit that
\* waits for it deletes.
LEMMA StoreStep ==
  ASSUME CacheInv, NEW s \in Shoppers, StoreDetail(s)
  PROVE  CacheInv'
<1> USE CacheConstantsOK DEF CacheConstants
<1> DEFINE saw == flight[s].saw
           r == [at |-> "idle", saw |-> Absent]
<1>1. /\ item' = item /\ flight' = [flight EXCEPT ![s] = r]
      /\ edit' = [m \in Editors |-> [edit[m] EXCEPT !.awaits = edit[m].awaits \ {s}]]
      /\ flight[s].at = "stores"
      /\ \/ Smooth /\ detail' \in {detail, saw}
         \/ Setback /\ detail' = detail
  <2>1. edit' = [m \in Editors |-> [edit[m] EXCEPT !.awaits = edit[m].awaits \ {s}]]
    BY DEF StoreDetail
  <2>2. item' = item /\ flight' = [flight EXCEPT ![s] = r] /\ flight[s].at = "stores"
    BY DEF StoreDetail
  <2>3. \/ Smooth /\ detail' = IF saw = Absent /\ detail # Miss THEN detail ELSE saw
        \/ Setback /\ detail' = detail
    BY Zenon DEF StoreDetail
  <2>4. (IF saw = Absent /\ detail # Miss THEN detail ELSE saw) \in {detail, saw}
    OBVIOUS
  <2> HIDE DEF r, saw
  <2>5. \/ Smooth /\ detail' \in {detail, saw}
        \/ Setback /\ detail' = detail
    BY <2>3, <2>4
  <2> QED
    BY <2>1, <2>2, <2>5
<1>2. r \in FlightRow /\ r.at # "stores"
  BY DEF FlightRow
<1> HIDE DEF r
<1>3. flight' \in [Shoppers -> FlightRow] /\ flight'[s] = r /\ \A t \in Shoppers : t # s => flight'[t] = flight[t]
  BY <1>1, <1>2 DEF CacheInv, CacheTyped
<1>4. /\ edit' \in [Editors -> EditRow]
      /\ \A m \in Editors : edit'[m].at = edit[m].at /\ edit'[m].awaits = edit[m].awaits \ {s}
  <2>1. \A m \in Editors : edit[m] \in EditRow
    BY DEF CacheInv, CacheTyped
  <2>2. \A m \in Editors : /\ [edit[m] EXCEPT !.awaits = edit[m].awaits \ {s}] \in EditRow
                           /\ [edit[m] EXCEPT !.awaits = edit[m].awaits \ {s}].at = edit[m].at
                           /\ [edit[m] EXCEPT !.awaits = edit[m].awaits \ {s}].awaits = edit[m].awaits \ {s}
    BY <2>1 DEF EditRow
  <2> QED
    BY <1>1, <2>2
<1>5. saw \in Absent..MaxText
  BY DEF CacheInv, CacheTyped, FlightRow
<1>6. CacheTyped'
  BY <1>1, <1>3, <1>4, <1>5, CacheFails DEF CacheInv, CacheTyped, Smooth
<1>7. ASSUME setbacks' = 0 PROVE CopyFollows'
  <2>1. CopyFollows /\ detail' \in {detail, saw}
    BY <1>1, <1>7, CacheFails DEF CacheInv, Smooth
  <2>2. \A m \in Editors : DeletionDue(m)' <=> DeletionDue(m)
    BY <1>4 DEF DeletionDue
  <2>3. detail' \in {Miss, Absent, item.text} \/ \E m \in Editors : DeletionDue(m)
    BY <1>1, <2>1 DEF CopyFollows
  <2>4. ASSUME NEW t \in Shoppers, flight'[t].at = "stores"
        PROVE  \/ flight'[t].saw \in {Absent, item.text}
               \/ \E m \in Editors : DeletionDue(m) /\ t \in edit'[m].awaits
    <3>1. t # s /\ flight'[t] = flight[t]
      BY <1>2, <1>3, <2>4
    <3> QED
      BY <1>4, <2>1, <2>4, <3>1 DEF CopyFollows
  <2> QED
    BY <1>1, <2>2, <2>3, <2>4 DEF CopyFollows
<1> QED
  BY <1>6, <1>7 DEF CacheInv

\* The steps of an edit that leave the loads alone: which of them keeps the copy
\* right is decided by where the edit goes.
LEMMA EditStep ==
  ASSUME CacheInv, NEW m \in Editors,
         NEW at \in {"idle", "updates", "created", "deleted", "second"}, EditAt(m, at),
         item' \in [text : Absent..MaxText, born : BOOLEAN], item'.text # Absent => item'.born,
         detail' \in Miss..MaxText, flight' = flight, Setback \/ Smooth,
         \* a deletion that was due is made, once all it waits for have stored
         DeletionDue(m) /\ at \notin {"deleted", "second"} /\ Smooth => detail' = Miss /\ edit[m].awaits = {},
         \* the row keeps its details, or there were none, or a deletion is due
         Smooth => item'.text = item.text \/ item.text = Absent \/ at \in {"deleted", "second"},
         \* the copy stays as it is or goes
         Smooth => detail' \in {detail, Miss}
  PROVE  CacheInv'
<1> USE CacheConstantsOK DEF CacheConstants
<1>1. /\ edit' \in [Editors -> EditRow] /\ edit'[m].at = at
      /\ edit'[m].awaits = IF at \in {"deleted", "second"}
           THEN edit[m].awaits \cup {s \in Shoppers : flight[s].at = "stores"} ELSE {}
      /\ \A x \in Editors : x # m => edit'[x] = edit[x]
  <2>1. CacheTyped
    BY DEF CacheInv
  <2> HIDE DEF CacheConstants
  <2> QED
    BY <2>1, EditTyped
<1>2. CacheTyped'
  BY <1>1, CacheFails DEF CacheInv, CacheTyped, Smooth
<1>3. ASSUME setbacks' = 0 PROVE CopyFollows'
  <2>1. Smooth /\ CopyFollows
    BY <1>3, CacheFails DEF CacheInv, Smooth
  <2>2. \A x \in Editors : x # m => (DeletionDue(x)' <=> DeletionDue(x))
    BY <1>1 DEF DeletionDue
  <2>3. CASE at \in {"deleted", "second"}
    <3>1. DeletionDue(m)'
      BY <1>1, <2>3 DEF DeletionDue
    <3>2. \A s \in Shoppers : flight'[s].at = "stores" => s \in edit'[m].awaits
      BY <1>1, <2>3
    <3> QED
      BY <3>1, <3>2 DEF CopyFollows
  <2>4. CASE at \notin {"deleted", "second"}
    <3>1. item'.text = item.text \/ item.text = Absent
      BY <2>1, <2>4
    <3>2. {Miss, Absent, item.text} \subseteq {Miss, Absent, item'.text}
      BY <3>1
    <3>3. detail' \in {Miss, Absent, item'.text} \/ \E x \in Editors : DeletionDue(x)'
      <4>1. CASE DeletionDue(m)
        BY <2>1, <2>4, <4>1
      <4>2. CASE ~ DeletionDue(m)
        BY <2>1, <2>2, <3>2, <4>2 DEF CopyFollows
      <4> QED
        BY <4>1, <4>2
    <3>4. ASSUME NEW s \in Shoppers, flight[s].at = "stores"
          PROVE  \/ flight[s].saw \in {Absent, item'.text}
                 \/ \E x \in Editors : DeletionDue(x)' /\ s \in edit'[x].awaits
      <4>1. CASE flight[s].saw \in {Absent, item.text}
        BY <3>1, <4>1
      <4>2. ASSUME NEW x \in Editors, DeletionDue(x), s \in edit[x].awaits
            PROVE  DeletionDue(x)' /\ s \in edit'[x].awaits
        <5>1. x # m
          BY <2>1, <2>4, <4>2
        <5> QED
          BY <1>1, <2>2, <4>2, <5>1
      <4> QED
        BY <2>1, <3>4, <4>1, <4>2 DEF CopyFollows
    <3> QED
      BY <3>3, <3>4 DEF CopyFollows
  <2> QED
    BY <2>3, <2>4
<1> QED
  BY <1>2, <1>3 DEF CacheInv

LEMMA CacheStep ==
  ASSUME CacheInv, [CacheNext]_cacheVars
  PROVE  CacheInv'
<1> USE CacheConstantsOK DEF CacheConstants
<1>0. /\ item \in [text : Absent..MaxText, born : BOOLEAN] /\ detail \in Miss..MaxText
      /\ Miss \in Miss..MaxText /\ (item.text # Absent => item.born)
  BY DEF CacheInv, CacheTyped
<1>1. CASE UNCHANGED cacheVars
  BY <1>1 DEF cacheVars, CacheInv, CacheTyped, CopyFollows, DeletionDue
<1>2. CASE DetailExpires
  BY <1>2, <1>0 DEF DetailExpires, CacheInv, CacheTyped, CopyFollows, DeletionDue
<1>3. ASSUME NEW m \in Editors, CreateProduct(m) PROVE CacheInv'
  <2>1. /\ item' = [text |-> 1, born |-> TRUE] /\ EditAt(m, "created") /\ Smooth
        /\ ~ item.born /\ UNCHANGED <<detail, flight>>
    BY <1>3 DEF CreateProduct
  <2>2. item' \in [text : Absent..MaxText, born : BOOLEAN] /\ item'.born /\ item.text = Absent
    BY <2>1, <1>0
  <2>3. ~ DeletionDue(m)
    BY <1>3 DEF CreateProduct, DeletionDue
  <2> QED
    BY <1>0, <2>1, <2>2, <2>3, EditStep
<1>4. ASSUME NEW m \in Editors, UpdateBegins(m) PROVE CacheInv'
  <2>1. ~ DeletionDue(m)
    BY <1>4 DEF UpdateBegins, DeletionDue
  <2>2. (Smooth /\ detail' = Miss) \/ (Setback /\ detail' = detail)
    BY <1>4 DEF UpdateBegins, DelProductDetail
  <2> QED
    BY <1>4, <1>0, <2>1, <2>2, EditStep DEF UpdateBegins
<1>5. ASSUME NEW m \in Editors, UpdateProduct(m) PROVE CacheInv'
  <2>1. ~ DeletionDue(m) /\ UNCHANGED <<detail, flight>>
    BY <1>5 DEF UpdateProduct, DeletionDue
  <2>2. CASE /\ item.text \notin {Absent, MaxText} /\ Smooth
             /\ item' = [item EXCEPT !.text = item.text + 1] /\ EditAt(m, "second")
    <3>1. item' \in [text : Absent..MaxText, born : BOOLEAN] /\ item'.born
      BY <1>0, <2>2
    <3> QED
      BY <1>0, <2>1, <2>2, <3>1, EditStep
  <2>3. CASE (Smooth \/ Setback) /\ EditAt(m, "idle") /\ UNCHANGED item
    BY <1>0, <2>1, <2>3, EditStep
  <2> QED
    BY <1>5, <2>2, <2>3 DEF UpdateProduct
<1>6. ASSUME NEW m \in Editors, DeleteProductRow(m) PROVE CacheInv'
  <2>1. /\ item' = [item EXCEPT !.text = Absent] /\ EditAt(m, "deleted") /\ Smooth
        /\ UNCHANGED <<detail, flight>>
    BY <1>6 DEF DeleteProductRow
  <2>2. item' \in [text : Absent..MaxText, born : BOOLEAN] /\ item'.text = Absent
    BY <1>0, <2>1
  <2> QED
    BY <1>0, <2>1, <2>2, EditStep
<1>7. ASSUME NEW m \in Editors, DeletesDetail(m) PROVE CacheInv'
  <2>1. (Smooth /\ detail' = Miss) \/ (Setback /\ detail' = detail)
    BY <1>7 DEF DeletesDetail, DelProductDetail
  <2>2. CASE edit[m].at = "created" /\ EditAt(m, "idle")
    <3>1. ~ DeletionDue(m)
      BY <2>2 DEF DeletionDue
    <3> QED
      BY <1>7, <1>0, <2>1, <2>2, <3>1, EditStep DEF DeletesDetail
  <2>3. CASE EditAt(m, "second")
    BY <1>7, <1>0, <2>1, <2>3, EditStep DEF DeletesDetail
  <2> QED
    BY <1>7, <2>2, <2>3 DEF DeletesDetail
<1>8. ASSUME NEW m \in Editors, DoubleDelete(m) PROVE CacheInv'
  <2>1. EditAt(m, "idle") /\ UNCHANGED <<item, flight>> /\ detail' \in {detail, Miss}
    BY <1>8 DEF DoubleDelete
  <2>2. CASE Waited(m) /\ Smooth /\ detail' = Miss
    BY <1>0, <2>1, <2>2, EditStep DEF Waited
  <2>3. CASE Setback
    <3>1. ~ Smooth
      BY <2>3, CacheFails DEF Setback, Smooth, CacheInv, CacheTyped
    <3> QED
      BY <1>0, <2>1, <2>3, <3>1, EditStep
  <2> QED
    BY <1>8, <2>2, <2>3 DEF DoubleDelete
<1>9. ASSUME NEW m \in Editors, EditorDies(m) PROVE CacheInv'
  <2>1. Setback /\ EditAt(m, "idle") /\ UNCHANGED <<item, detail, flight>>
    BY <1>9 DEF EditorDies
  <2>2. ~ Smooth
    BY <2>1 DEF Setback, Smooth, CacheInv, CacheTyped
  <2> QED
    BY <1>0, <2>1, <2>2, EditStep
<1> QED
  BY <1>1, <1>2, <1>3, <1>4, <1>5, <1>6, <1>7, <1>8, <1>9, LoadsStep, StoreStep DEF CacheNext

LEMMA CacheCorrect == CacheSpec => []CacheInv
<1>1. CacheInit /\ SetbacksInit => CacheInv
  <2> SUFFICES ASSUME CacheInit, SetbacksInit PROVE CacheInv
    OBVIOUS
  <2> USE CacheConstantsOK DEF CacheConstants
  <2>1. [at |-> "idle", saw |-> Absent] \in FlightRow /\ IdleEdit \in EditRow
    BY DEF FlightRow, EditRow, IdleEdit
  <2>2. flight \in [Shoppers -> FlightRow] /\ edit \in [Editors -> EditRow]
    BY <2>1 DEF CacheInit
  <2>3. CacheTyped
    BY <2>2 DEF CacheInit, SetbacksInit, CacheTyped
  <2>4. CopyFollows
    BY DEF CacheInit, CopyFollows
  <2> QED
    BY <2>3, <2>4 DEF CacheInv
<1> QED
  BY <1>1, CacheStep, PTL DEF CacheSpec

\* Types of the row, its copy, the loads and the edits.
THEOREM CacheTypeCorrect == CacheSpec => []CacheTypeOK
<1>1. CacheInv => CacheTypeOK
  BY DEF CacheInv, CacheTyped, CacheTypeOK, FlightRow, EditRow
<1> QED
  BY <1>1, CacheCorrect, PTL

\* Once every deletion is made the cached details are the row's, for any number
\* of loads and editors, when nothing fails and the deletion waits long enough.
THEOREM DetailsFollowRow == CacheSpec => []DetailFollows
<1>1. CacheInv => DetailFollows
  BY DEF CacheInv, CopyFollows, DeletionDue, DetailFollows
<1> QED
  BY <1>1, CacheCorrect, PTL

-----------------------------------------------------------------------------
(* The search index                                                        *)

Ops        == {"upsert", "delete"}
IndexerRow == [at : {"idle", "loads", "upserts", "deletes"},
               of : {"upsert", "delete", "backfill"}, saw : Snapshots]

Live    == entry.text > 0
Deleted == entry.text = 0 /\ entry.at > 0

\* Handlers that have an event, which comes again when they fail.
Held(op) == {i \in Indexers : indexer[i].of = op}
NumHeld(op) == Cardinality(Held(op))

IndexTyped ==
  /\ entry \in Snapshots
  /\ document \in [text : 0..MaxEdits, at : 0..MaxEdits, tomb : {"none", "kept", "weak"}]
  /\ changes \in [Ops -> Nat] /\ indexer \in [Indexers -> IndexerRow]
  /\ setbacks \in Nat

\* Nothing is done before the row is there, and nothing is deleted before it is gone.
WorkFits ==
  /\ entry.at <= entry.text \/ entry.text = 0
  /\ entry.at = 0 => entry.text = 0
  /\ \A i \in Indexers :
       /\ indexer[i].of = "delete" => indexer[i].at = "deletes"
       /\ indexer[i].of = "backfill" => indexer[i].at \in {"idle", "upserts"}
       /\ indexer[i].at = "idle" => indexer[i].of = "backfill"
       /\ indexer[i].at # "idle" => entry.at > 0
       /\ indexer[i].at = "deletes" => entry.text = 0

\* Every write of the row has one event, on its way or with a handler.
EventsBounded ==
  /\ changes["upsert"] + NumHeld("upsert")
       <= IF entry.at = 0 THEN 0 ELSE IF Live THEN entry.text ELSE MaxEdits
  /\ changes["delete"] + NumHeld("delete") <= IF Deleted THEN 1 ELSE 0

\* What is about to be written is not newer than a deletion.
Outdated(at) == \A i \in Indexers : indexer[i].at = "upserts" => indexer[i].saw.at <= at

\* Without failures: texts and versions agree; nothing passes a deletion that
\* is remembered; a live row that is not indexed as it is has an event, or a
\* handler that has not read it yet or has read this version; a row that is gone
\* has its deletion made, on its way or in a handler.
IndexCatchesUp ==
  /\ Live => entry.text = entry.at
  /\ Deleted \/ document.tomb = "none"
  /\ document.at <= entry.at
  /\ document.tomb = "none" => document.text = document.at
  /\ document.tomb = "kept" => document.text = 0 /\ Outdated(document.at)
  /\ \A i \in Indexers : indexer[i].at = "upserts" =>
       indexer[i].saw.text = indexer[i].saw.at /\ indexer[i].saw.at <= entry.at
  /\ Live => \/ document.at = entry.at
             \/ changes["upsert"] > 0
             \/ \E i \in Indexers : /\ indexer[i].of = "upsert"
                                    /\ \/ indexer[i].at = "loads"
                                       \/ indexer[i].at = "upserts" /\ indexer[i].saw.at = entry.at
  /\ Deleted => \/ document.tomb \in {"kept", "weak"}
                \/ changes["delete"] > 0
                \/ \E i \in Indexers : indexer[i].of = "delete"

IndexInv == IndexTyped /\ WorkFits /\ EventsBounded /\ (setbacks = 0 => IndexCatchesUp)

IndexConstants == IsFiniteSet(Indexers) /\ MaxEdits \in Nat \ {0} /\ MaxSetbacks \in Nat

LEMMA IndexConstantsOK == IndexConstants
BY IndexAssumption, SetbacksAssumption DEF IndexConstants

LEMMA OpsAre == "upsert" \in Ops /\ "delete" \in Ops /\ \A op \in Ops : op \in {"upsert", "delete"}
BY DEF Ops

LEMMA IdleIndexerTyped ==
  IdleIndexer \in IndexerRow /\ IdleIndexer.at = "idle" /\ IdleIndexer.of = "backfill"
<1>1. NoEntry \in Snapshots
  BY IndexConstantsOK DEF NoEntry, Snapshots, IndexConstants
<1> QED
  BY <1>1 DEF IdleIndexer, IndexerRow

LEMMA HeldFinite ==
  ASSUME NEW op
  PROVE  /\ IsFiniteSet(Held(op)) /\ NumHeld(op) \in Nat
         /\ \A i \in Held(op) : NumHeld(op) > 0
<1>1. IsFiniteSet(Held(op)) /\ NumHeld(op) \in Nat
  BY IndexConstantsOK, FiniteParts DEF IndexConstants, NumHeld, Held
<1> QED
  BY <1>1, FS_EmptySet DEF NumHeld

\* One handler goes on.
LEMMA IndexerMoves ==
  ASSUME IndexTyped, NEW i \in Indexers, NEW r \in IndexerRow, indexer' = [indexer EXCEPT ![i] = r]
  PROVE  /\ indexer' \in [Indexers -> IndexerRow] /\ indexer'[i] = r
         /\ \A j \in Indexers : j # i => indexer'[j] = indexer[j]
BY DEF IndexTyped

LEMMA HeldMoves ==
  ASSUME IndexTyped, NEW i \in Indexers, NEW r \in IndexerRow, indexer' = [indexer EXCEPT ![i] = r],
         NEW op \in Ops
  PROVE  /\ NumHeld(op) \in Nat /\ NumHeld(op)' \in Nat
         /\ NumHeld(op)' = NumHeld(op) + Weight(r.of = op) - Weight(indexer[i].of = op)
<1>1. /\ indexer' \in [Indexers -> IndexerRow] /\ indexer'[i] = r
      /\ \A j \in Indexers : j # i => indexer'[j] = indexer[j]
  BY IndexerMoves
<1>2. Held(op) \in SUBSET Indexers /\ Held(op)' \in SUBSET Indexers
  BY DEF Held
<1>3. /\ \A j \in Indexers : j # i => (j \in Held(op)' <=> j \in Held(op))
      /\ i \in Held(op)' <=> r.of = op
      /\ i \in Held(op) <=> indexer[i].of = op
  BY <1>1 DEF Held
<1>4. /\ NumHeld(op) \in Nat /\ Cardinality(Held(op)') \in Nat
      /\ Cardinality(Held(op)') = NumHeld(op)
           + Weight(i \in Held(op)') - Weight(i \in Held(op))
  BY <1>2, <1>3, CountMoves, IndexConstantsOK DEF IndexConstants, NumHeld
<1> QED
  BY <1>3, <1>4 DEF Weight, NumHeld

LEMMA SetbackFails ==
  ASSUME setbacks \in Nat, Setback
  PROVE  setbacks' \in Nat /\ setbacks' # 0
BY IndexConstantsOK DEF Setback, IndexConstants

-----------------------------------------------------------------------------
\* The row.
LEMMA CreateEntryStep ==
  ASSUME IndexInv, CreateEntry
  PROVE  IndexInv'
<1> USE IndexConstantsOK DEF IndexConstants
<1>1. /\ entry.at = 0 /\ entry.text = 0 /\ entry' = [text |-> 1, at |-> 1]
      /\ UNCHANGED <<document, indexer, setbacks>>
      /\ changes' = [changes EXCEPT !["upsert"] = changes["upsert"] + 1]
  BY DEF CreateEntry, IndexInv, WorkFits
<1>2. \A op \in Ops : changes[op] \in Nat /\ NumHeld(op) \in Nat /\ NumHeld(op)' = NumHeld(op)
  BY <1>1, HeldFinite DEF IndexInv, IndexTyped, NumHeld, Held
<1>3. /\ changes' \in [Ops -> Nat] /\ changes'["upsert"] = changes["upsert"] + 1
      /\ changes'["delete"] = changes["delete"]
  BY <1>1, <1>2 DEF IndexInv, IndexTyped, Ops
<1>4. entry'.text = 1 /\ entry'.at = 1 /\ entry' \in Snapshots
  BY <1>1 DEF Snapshots
<1>5. IndexTyped'
  BY <1>1, <1>3, <1>4 DEF IndexInv, IndexTyped
<1>6. \A i \in Indexers : indexer[i].at = "idle"
  BY <1>1 DEF IndexInv, WorkFits, IndexTyped, IndexerRow
<1>7. WorkFits'
  BY <1>1, <1>4, <1>6 DEF IndexInv, WorkFits
<1>8. EventsBounded'
  <2>1. "upsert" \in Ops /\ "delete" \in Ops
    BY DEF Ops
  <2> QED
    BY <1>1, <1>2, <1>3, <1>4, <2>1 DEF IndexInv, EventsBounded, Live, Deleted
<1>9. ASSUME setbacks' = 0 PROVE IndexCatchesUp'
  <2>1. IndexCatchesUp
    BY <1>1, <1>9 DEF IndexInv
  <2>2. document.tomb = "none"
    BY <1>1, <2>1 DEF IndexCatchesUp, Deleted
  <2>3. changes'["upsert"] > 0 /\ document.at \in Nat /\ document.at <= 1
    BY <1>1, <1>2, <1>3, <2>1, OpsAre DEF IndexCatchesUp, IndexInv, IndexTyped
  <2> QED
    BY <1>1, <1>4, <1>6, <2>1, <2>2, <2>3 DEF IndexCatchesUp, Live, Deleted
<1> QED
  BY <1>5, <1>7, <1>8, <1>9 DEF IndexInv

LEMMA UpdateEntryStep ==
  ASSUME IndexInv, UpdateEntry
  PROVE  IndexInv'
<1> USE IndexConstantsOK DEF IndexConstants
<1>1. /\ entry.text \in 1..(MaxEdits - 1) /\ UNCHANGED <<document, indexer>>
      /\ changes' = [changes EXCEPT !["upsert"] = changes["upsert"] + 1]
  BY DEF UpdateEntry
<1>2. \A op \in Ops : changes[op] \in Nat /\ NumHeld(op) \in Nat /\ NumHeld(op)' = NumHeld(op)
  BY <1>1, HeldFinite DEF IndexInv, IndexTyped, NumHeld, Held
<1>3. /\ changes' \in [Ops -> Nat] /\ changes'["upsert"] = changes["upsert"] + 1
      /\ changes'["delete"] = changes["delete"] /\ changes'["upsert"] > 0
  BY <1>1, <1>2 DEF IndexInv, IndexTyped, Ops
<1>4. /\ entry.text \in Nat /\ entry.at \in 0..MaxEdits /\ entry.at <= entry.text /\ entry.at > 0
      /\ document.at \in Nat
  BY <1>1 DEF IndexInv, IndexTyped, WorkFits, Snapshots
<1>5. \/ Smooth /\ entry' = [text |-> entry.text + 1, at |-> entry.at + 1]
      \/ Setback /\ entry' = [text |-> entry.text + 1, at |-> entry.at]
  <2>1. [entry EXCEPT !.text = entry.text + 1] = [text |-> entry.text + 1, at |-> entry.at]
    BY DEF IndexInv, IndexTyped, Snapshots
  <2> QED
    BY <2>1 DEF UpdateEntry
<1>6. /\ entry' \in Snapshots /\ entry'.text = entry.text + 1 /\ entry'.at \in Nat
      /\ entry'.at <= entry'.text /\ entry'.at > 0 /\ entry'.at >= entry.at
  BY <1>1, <1>4, <1>5 DEF Snapshots
<1>7. IndexTyped'
  BY <1>1, <1>3, <1>5, <1>6, SetbackFails DEF IndexInv, IndexTyped, Smooth
<1>8. WorkFits'
  BY <1>1, <1>4, <1>6 DEF IndexInv, WorkFits
<1>9. EventsBounded'
  BY <1>1, <1>2, <1>3, <1>4, <1>6, OpsAre
  DEF IndexInv, EventsBounded, Live, Deleted
<1>10. ASSUME setbacks' = 0 PROVE IndexCatchesUp'
  <2>1. /\ IndexCatchesUp /\ entry' = [text |-> entry.text + 1, at |-> entry.at + 1]
        /\ document.tomb = "none"
    BY <1>1, <1>4, <1>5, <1>10, SetbackFails DEF IndexInv, IndexTyped, Smooth, IndexCatchesUp, Deleted
  <2>2. \A i \in Indexers : indexer[i].saw.at \in Nat
    BY DEF IndexInv, IndexTyped, IndexerRow, Snapshots
  <2> QED
    BY <1>1, <1>3, <1>4, <1>6, <2>1, <2>2 DEF IndexCatchesUp, Live, Deleted
<1> QED
  BY <1>7, <1>8, <1>9, <1>10 DEF IndexInv

LEMMA DeleteEntryStep ==
  ASSUME IndexInv, DeleteEntry
  PROVE  IndexInv'
<1> USE IndexConstantsOK DEF IndexConstants
<1>1. /\ entry.text > 0 /\ UNCHANGED <<document, indexer, setbacks>>
      /\ entry' = [entry EXCEPT !.text = 0]
      /\ changes' = [changes EXCEPT !["delete"] = changes["delete"] + 1]
  BY DEF DeleteEntry
<1>2. \A op \in Ops : changes[op] \in Nat /\ NumHeld(op) \in Nat /\ NumHeld(op)' = NumHeld(op)
  BY <1>1, HeldFinite DEF IndexInv, IndexTyped, NumHeld, Held
<1>3. /\ changes' \in [Ops -> Nat] /\ changes'["upsert"] = changes["upsert"]
      /\ changes'["delete"] = changes["delete"] + 1 /\ changes'["delete"] > 0
  BY <1>1, <1>2 DEF IndexInv, IndexTyped, Ops
<1>4. /\ entry.text \in 0..MaxEdits /\ entry.at \in 0..MaxEdits /\ entry.at <= entry.text /\ entry.at > 0
  BY <1>1 DEF IndexInv, IndexTyped, WorkFits, Snapshots
<1>5. entry' \in Snapshots /\ entry'.text = 0 /\ entry'.at = entry.at
  BY <1>1, <1>4 DEF Snapshots, IndexInv, IndexTyped
<1>6. IndexTyped'
  BY <1>1, <1>3, <1>5 DEF IndexInv, IndexTyped
<1>7. WorkFits'
  BY <1>1, <1>4, <1>5 DEF IndexInv, WorkFits
<1>8. EventsBounded'
  BY <1>1, <1>2, <1>3, <1>4, <1>5, OpsAre
  DEF IndexInv, EventsBounded, Live, Deleted
<1>9. ASSUME setbacks' = 0 PROVE IndexCatchesUp'
  <2>1. IndexCatchesUp
    BY <1>1, <1>9 DEF IndexInv
  <2>2. Deleted' /\ ~ Live' /\ Live /\ ~ Deleted
    BY <1>4, <1>5, <1>1 DEF Deleted, Live
  <2> QED
    BY <1>1, <1>3, <1>5, <2>1, <2>2 DEF IndexCatchesUp
<1> QED
  BY <1>6, <1>7, <1>8, <1>9 DEF IndexInv

LEMMA TombStep ==
  ASSUME IndexInv, TombstoneForgotten
  PROVE  IndexInv'
<1>1. /\ Setback /\ document' = [document EXCEPT !.at = 0, !.tomb = "weak"]
      /\ UNCHANGED <<entry, changes, indexer>>
  BY DEF TombstoneForgotten
<1>2. document' \in [text : 0..MaxEdits, at : 0..MaxEdits, tomb : {"none", "kept", "weak"}]
  <2>1. document' = [text |-> document.text, at |-> 0, tomb |-> "weak"]
    BY <1>1 DEF IndexInv, IndexTyped
  <2>2. 0 \in 0..MaxEdits
    BY IndexConstantsOK DEF IndexConstants
  <2>3. document.text \in 0..MaxEdits
    BY DEF IndexInv, IndexTyped
  <2> QED
    BY <2>1, <2>2, <2>3
<1> QED
  BY <1>1, <1>2, SetbackFails DEF IndexInv, IndexTyped, WorkFits, EventsBounded, Live, Deleted, NumHeld, Held

-----------------------------------------------------------------------------
\* The handlers.
LEMMA HandleStep ==
  ASSUME IndexInv, NEW i \in Indexers, NEW op \in Ops, HandleProductChanged(i, op)
  PROVE  IndexInv'
<1> USE IndexConstantsOK DEF IndexConstants
<1> DEFINE r == [IdleIndexer EXCEPT !.of = op, !.at = IF op = "delete" THEN "deletes" ELSE "loads"]
<1>1. /\ indexer[i].at = "idle" /\ changes[op] > 0 /\ UNCHANGED <<entry, document, setbacks>>
      /\ changes' = [changes EXCEPT ![op] = changes[op] - 1]
      /\ indexer' = [indexer EXCEPT ![i] = r]
  BY DEF HandleProductChanged
<1>2. r \in IndexerRow /\ r.of = op /\ r.at = (IF op = "delete" THEN "deletes" ELSE "loads")
  <2>1. IdleIndexer \in IndexerRow
    BY IdleIndexerTyped
  <2>2. op \in {"upsert", "delete", "backfill"}
    BY DEF Ops
  <2> QED
    BY <2>1, <2>2 DEF IndexerRow
<1> HIDE DEF r
<1>3. /\ indexer' \in [Indexers -> IndexerRow] /\ indexer'[i] = r
      /\ \A j \in Indexers : j # i => indexer'[j] = indexer[j]
      /\ \A o \in Ops : /\ NumHeld(o) \in Nat /\ NumHeld(o)' \in Nat
                        /\ NumHeld(o)' = NumHeld(o)
                             + Weight(r.of = o) - Weight(indexer[i].of = o)
  <2>1. IndexTyped
    BY DEF IndexInv
  <2> HIDE DEF IndexConstants
  <2>2. /\ indexer' \in [Indexers -> IndexerRow] /\ indexer'[i] = r
        /\ \A j \in Indexers : j # i => indexer'[j] = indexer[j]
    BY <2>1, <1>1, <1>2, IndexerMoves
  <2>3. ASSUME NEW o \in Ops
        PROVE  /\ NumHeld(o) \in Nat /\ NumHeld(o)' \in Nat
               /\ NumHeld(o)' = NumHeld(o)
                    + Weight(r.of = o) - Weight(indexer[i].of = o)
    BY <2>1, <1>1, <1>2, HeldMoves
  <2> QED
    BY <2>2, <2>3
<1>4. /\ changes' \in [Ops -> Nat] /\ changes'[op] = changes[op] - 1
      /\ \A o \in Ops : changes[o] \in Nat /\ (o # op => changes'[o] = changes[o])
  BY <1>1 DEF IndexInv, IndexTyped
<1>5. indexer[i].of = "backfill"
  BY <1>1 DEF IndexInv, WorkFits
<1>6. \A o \in Ops : changes'[o] + NumHeld(o)' = changes[o] + NumHeld(o)
  BY <1>2, <1>3, <1>4, <1>5 DEF Weight, Ops
<1>7. changes[op] <= IF op = "delete" THEN (IF Deleted THEN 1 ELSE 0)
                     ELSE IF entry.at = 0 THEN 0 ELSE IF Live THEN entry.text ELSE MaxEdits
  <2>1. \A o \in Ops : changes[o] <= changes[o] + NumHeld(o)
    BY <1>3, <1>4
  <2>2. changes[op] + NumHeld(op) <= IF op = "delete" THEN (IF Deleted THEN 1 ELSE 0)
                     ELSE IF entry.at = 0 THEN 0 ELSE IF Live THEN entry.text ELSE MaxEdits
    BY DEF IndexInv, EventsBounded, Ops
  <2>3. entry.text \in Nat
    BY DEF IndexInv, IndexTyped, Snapshots
  <2> QED
    BY <1>3, <1>4, <2>1, <2>2, <2>3
<1>8. entry.at > 0 /\ (op = "delete" => entry.text = 0)
  BY <1>1, <1>7, <1>4 DEF Deleted, IndexInv, IndexTyped, Snapshots
<1>9. IndexTyped'
  BY <1>1, <1>3, <1>4 DEF IndexInv, IndexTyped
<1>10. WorkFits'
  <2>1. ASSUME NEW j \in Indexers
        PROVE  /\ indexer'[j].of = "delete" => indexer'[j].at = "deletes"
               /\ indexer'[j].of = "backfill" => indexer'[j].at \in {"idle", "upserts"}
               /\ indexer'[j].at = "idle" => indexer'[j].of = "backfill"
               /\ indexer'[j].at # "idle" => entry.at > 0
               /\ indexer'[j].at = "deletes" => entry.text = 0
    <3>1. CASE j = i
      BY <1>2, <1>3, <1>8, <3>1 DEF Ops
    <3>2. CASE j # i
      BY <1>3, <3>2 DEF IndexInv, WorkFits
    <3> QED
      BY <3>1, <3>2
  <2> QED
    BY <1>1, <2>1 DEF IndexInv, WorkFits
<1>11. EventsBounded'
  BY <1>1, <1>6, OpsAre DEF IndexInv, EventsBounded, Live, Deleted
<1>12. ASSUME setbacks' = 0 PROVE IndexCatchesUp'
  <2>1. IndexCatchesUp
    BY <1>1, <1>12 DEF IndexInv
  <2>2. ASSUME NEW j \in Indexers, indexer'[j].at = "upserts"
        PROVE  indexer'[j].saw.text = indexer'[j].saw.at /\ indexer'[j].saw.at <= entry.at
    <3>1. j # i
      BY <1>2, <1>3, <2>2
    <3> QED
      BY <1>3, <2>1, <2>2, <3>1 DEF IndexCatchesUp
  <2>3. ASSUME Live
        PROVE  \/ document.at = entry.at
               \/ changes'["upsert"] > 0
               \/ \E j \in Indexers : /\ indexer'[j].of = "upsert"
                                      /\ \/ indexer'[j].at = "loads"
                                         \/ indexer'[j].at = "upserts" /\ indexer'[j].saw.at = entry.at
    <3>1. op = "upsert" /\ indexer'[i].of = "upsert" /\ indexer'[i].at = "loads"
      BY <1>2, <1>3, <1>8, <2>3 DEF Live, Ops
    <3> QED
      BY <3>1
  <2>4. ASSUME Deleted
        PROVE  \/ document.tomb \in {"kept", "weak"}
               \/ changes'["delete"] > 0
               \/ \E j \in Indexers : indexer'[j].of = "delete"
    <3>1. CASE op = "delete"
      BY <1>2, <1>3, <3>1
    <3>2. CASE op = "upsert"
      <4>1. changes'["delete"] = changes["delete"]
        BY <1>4, <3>2, OpsAre
      <4>2. \A j \in Indexers : indexer[j].of = "delete" => j # i
        BY <1>5
      <4> QED
        BY <1>3, <2>1, <2>4, <4>1, <4>2 DEF IndexCatchesUp
    <3> QED
      BY <3>1, <3>2 DEF Ops
  <2>5. ASSUME Outdated(document.at) PROVE Outdated(document.at)'
    <3>1. \A j \in Indexers : indexer'[j].at = "upserts" => indexer'[j] = indexer[j]
      BY <1>2, <1>3
    <3> QED
      BY <1>1, <2>5, <3>1 DEF Outdated
  <2> QED
    BY <1>1, <2>1, <2>2, <2>3, <2>4, <2>5 DEF IndexCatchesUp, Live, Deleted
<1> QED
  BY <1>9, <1>10, <1>11, <1>12 DEF IndexInv

\* A handler goes on without an event, or gives it back, or is done with it.
LEMMA HandlerFits ==
  ASSUME IndexInv, NEW i \in Indexers, NEW r \in IndexerRow, indexer' = [indexer EXCEPT ![i] = r],
         indexer[i].at # "idle", entry' = entry, changes' \in [Ops -> Nat],
         /\ r.of = "delete" => r.at = "deletes"
         /\ r.of = "backfill" => r.at \in {"idle", "upserts"}
         /\ r.at = "idle" => r.of = "backfill"
         /\ r.at = "deletes" => entry.text = 0,
         \A o \in Ops : changes'[o] + Weight(r.of = o) <= changes[o] + Weight(indexer[i].of = o)
  PROVE  WorkFits' /\ EventsBounded'
<1>1. /\ indexer' \in [Indexers -> IndexerRow] /\ indexer'[i] = r
      /\ \A j \in Indexers : j # i => indexer'[j] = indexer[j]
      /\ \A o \in Ops : /\ NumHeld(o) \in Nat /\ NumHeld(o)' \in Nat
                        /\ NumHeld(o)' = NumHeld(o)
                             + Weight(r.of = o) - Weight(indexer[i].of = o)
  <2>1. IndexTyped
    BY DEF IndexInv
  <2> HIDE DEF IndexConstants
  <2>2. /\ indexer' \in [Indexers -> IndexerRow] /\ indexer'[i] = r
        /\ \A j \in Indexers : j # i => indexer'[j] = indexer[j]
    BY <2>1, IndexerMoves
  <2>3. ASSUME NEW o \in Ops
        PROVE  /\ NumHeld(o) \in Nat /\ NumHeld(o)' \in Nat
               /\ NumHeld(o)' = NumHeld(o)
                    + Weight(r.of = o) - Weight(indexer[i].of = o)
    BY <2>1, HeldMoves, ZenonT(30)
  <2> QED
    BY <2>2, <2>3
<1>2. WorkFits'
  <2>1. entry.at > 0
    BY DEF IndexInv, WorkFits
  <2>2. ASSUME NEW j \in Indexers
        PROVE  /\ indexer'[j].of = "delete" => indexer'[j].at = "deletes"
               /\ indexer'[j].of = "backfill" => indexer'[j].at \in {"idle", "upserts"}
               /\ indexer'[j].at = "idle" => indexer'[j].of = "backfill"
               /\ indexer'[j].at # "idle" => entry.at > 0
               /\ indexer'[j].at = "deletes" => entry.text = 0
    <3>1. CASE j = i
      BY <1>1, <2>1, <3>1
    <3>2. CASE j # i
      BY <1>1, <3>2 DEF IndexInv, WorkFits
    <3> QED
      BY <3>1, <3>2
  <2> QED
    BY <2>2 DEF IndexInv, WorkFits
<1>3. EventsBounded'
  <2>1. \A o \in Ops : changes'[o] + NumHeld(o)' <= changes[o] + NumHeld(o)
    <3>1. \A o \in Ops : /\ changes[o] \in Nat /\ changes'[o] \in Nat
                         /\ Weight(r.of = o) \in Nat /\ Weight(indexer[i].of = o) \in Nat
      BY DEF IndexInv, IndexTyped, Weight
    <3> HIDE DEF Weight
    <3> QED
      BY <1>1, <3>1
  <2>2. \A o \in Ops : /\ changes[o] + NumHeld(o) \in Nat
                       /\ changes'[o] + NumHeld(o)' \in Nat
    BY <1>1 DEF IndexInv, IndexTyped
  <2>3. entry.text \in Nat /\ entry.at \in Nat /\ MaxEdits \in Nat
    BY IndexConstantsOK DEF IndexInv, IndexTyped, Snapshots, IndexConstants
  <2> QED
    BY <2>1, <2>2, <2>3, OpsAre DEF IndexInv, EventsBounded, Live, Deleted
<1> QED
  BY <1>2, <1>3

LEMMA BackfillStep ==
  ASSUME IndexInv, NEW i \in Indexers, BackfillFromDB(i)
  PROVE  IndexInv'
<1> USE IndexConstantsOK DEF IndexConstants
<1> DEFINE r == [at |-> "upserts", of |-> "backfill", saw |-> entry]
<1>1. /\ indexer[i].at = "idle" /\ entry.text > 0 /\ UNCHANGED <<entry, document, changes, setbacks>>
      /\ indexer' = [indexer EXCEPT ![i] = r]
  BY DEF BackfillFromDB
<1>2. r \in IndexerRow /\ r.of = "backfill" /\ r.at = "upserts" /\ r.saw = entry
  BY DEF IndexerRow, IndexInv, IndexTyped
<1> HIDE DEF r
<1>3. /\ indexer' \in [Indexers -> IndexerRow] /\ indexer'[i] = r
      /\ \A j \in Indexers : j # i => indexer'[j] = indexer[j]
      /\ \A o \in Ops : /\ NumHeld(o) \in Nat /\ NumHeld(o)' \in Nat
                        /\ NumHeld(o)' = NumHeld(o)
                             + Weight(r.of = o) - Weight(indexer[i].of = o)
  <2>1. IndexTyped
    BY DEF IndexInv
  <2> HIDE DEF IndexConstants
  <2>2. /\ indexer' \in [Indexers -> IndexerRow] /\ indexer'[i] = r
        /\ \A j \in Indexers : j # i => indexer'[j] = indexer[j]
    BY <2>1, <1>1, <1>2, IndexerMoves
  <2>3. ASSUME NEW o \in Ops
        PROVE  /\ NumHeld(o) \in Nat /\ NumHeld(o)' \in Nat
               /\ NumHeld(o)' = NumHeld(o)
                    + Weight(r.of = o) - Weight(indexer[i].of = o)
    BY <2>1, <1>1, <1>2, HeldMoves, ZenonT(30)
  <2> QED
    BY <2>2, <2>3
<1>4. indexer[i].of = "backfill" /\ entry.at > 0 /\ entry.at \in Nat
  BY <1>1 DEF IndexInv, IndexTyped, WorkFits, Snapshots
<1>5. \A o \in Ops : NumHeld(o)' = NumHeld(o)
  BY <1>2, <1>3, <1>4 DEF Weight, Ops
<1>6. IndexTyped'
  BY <1>1, <1>3 DEF IndexInv, IndexTyped
<1>7. WorkFits'
  <2>1. ASSUME NEW j \in Indexers
        PROVE  /\ indexer'[j].of = "delete" => indexer'[j].at = "deletes"
               /\ indexer'[j].of = "backfill" => indexer'[j].at \in {"idle", "upserts"}
               /\ indexer'[j].at = "idle" => indexer'[j].of = "backfill"
               /\ indexer'[j].at # "idle" => entry.at > 0
               /\ indexer'[j].at = "deletes" => entry.text = 0
    <3>1. CASE j = i
      BY <1>2, <1>3, <1>4, <3>1
    <3>2. CASE j # i
      BY <1>3, <3>2 DEF IndexInv, WorkFits
    <3> QED
      BY <3>1, <3>2
  <2> QED
    BY <1>1, <2>1 DEF IndexInv, WorkFits
<1>8. EventsBounded'
  BY <1>1, <1>5, OpsAre DEF IndexInv, EventsBounded, Live, Deleted
<1>9. ASSUME setbacks' = 0 PROVE IndexCatchesUp'
  <2>1. IndexCatchesUp
    BY <1>1, <1>9 DEF IndexInv
  <2>2. ASSUME NEW j \in Indexers, indexer'[j].at = "upserts"
        PROVE  indexer'[j].saw.text = indexer'[j].saw.at /\ indexer'[j].saw.at <= entry.at
    <3>1. CASE j = i
      BY <1>1, <1>2, <1>3, <1>4, <2>1, <3>1 DEF IndexCatchesUp, Live
    <3>2. CASE j # i
      BY <1>3, <2>1, <2>2, <3>2 DEF IndexCatchesUp
    <3> QED
      BY <3>1, <3>2
  <2>3. \A j \in Indexers : indexer[j].of \in Ops => indexer'[j] = indexer[j]
    BY <1>3, <1>4 DEF Ops
  <2>4. document.tomb = "none"
    BY <1>1, <2>1 DEF IndexCatchesUp, Deleted
  <2> QED
    BY <1>1, <2>1, <2>2, <2>3, <2>4, OpsAre DEF IndexCatchesUp, Live, Deleted
<1> QED
  BY <1>6, <1>7, <1>8, <1>9 DEF IndexInv

LEMMA IndexerAtIs ==
  ASSUME IndexTyped, NEW i \in Indexers, NEW at \in {"idle", "loads", "upserts", "deletes"}, IndexerAt(i, at)
  PROVE  \E r \in IndexerRow :
           /\ indexer' = [indexer EXCEPT ![i] = r] /\ r.at = at
           /\ at = "idle" => r.of = "backfill"
           /\ at # "idle" => r.of = indexer[i].of /\ r.saw = indexer[i].saw
<1>1. CASE at = "idle"
  <2>1. indexer' = [indexer EXCEPT ![i] = IdleIndexer]
    BY <1>1 DEF IndexerAt
  <2> QED
    BY <1>1, <2>1, IdleIndexerTyped
<1>2. CASE at # "idle"
  <2>1. indexer' = [indexer EXCEPT ![i] = [indexer[i] EXCEPT !.at = at]]
    BY <1>2 DEF IndexerAt
  <2>2. /\ [indexer[i] EXCEPT !.at = at] \in IndexerRow /\ [indexer[i] EXCEPT !.at = at].at = at
        /\ [indexer[i] EXCEPT !.at = at].of = indexer[i].of
        /\ [indexer[i] EXCEPT !.at = at].saw = indexer[i].saw
    BY DEF IndexTyped, IndexerRow
  <2> QED
    BY <1>2, <2>1, <2>2
<1> QED
  BY <1>1, <1>2

LEMMA LoadStep ==
  ASSUME IndexInv, NEW i \in Indexers, LoadEntry(i)
  PROVE  IndexInv'
<1> USE IndexConstantsOK DEF IndexConstants
<1>1. indexer[i].at = "loads" /\ UNCHANGED <<entry, document, changes, setbacks>>
  BY DEF LoadEntry
<1>2. indexer[i].of = "upsert"
  BY <1>1 DEF IndexInv, WorkFits, IndexTyped, IndexerRow
<1>3. PICK r \in IndexerRow :
        /\ indexer' = [indexer EXCEPT ![i] = r] /\ r.of = "upsert"
        /\ \/ entry.text = 0 /\ r.at = "deletes"
           \/ entry.text > 0 /\ r.at = "upserts" /\ r.saw = entry
  <2>1. CASE entry.text = 0
    <3>1. IndexerAt(i, "deletes")
      BY <2>1 DEF LoadEntry
    <3> QED
      BY <1>2, <2>1, <3>1, IndexerAtIs DEF IndexInv
  <2>2. CASE entry.text # 0
    <3>1. indexer' = [indexer EXCEPT ![i] = [indexer[i] EXCEPT !.at = "upserts", !.saw = entry]]
      BY <2>2 DEF LoadEntry
    <3>2. entry.text > 0
      BY <2>2 DEF IndexInv, IndexTyped, Snapshots
    <3>3. indexer[i] \in IndexerRow /\ entry \in Snapshots
      BY DEF IndexInv, IndexTyped
    <3>4. /\ [indexer[i] EXCEPT !.at = "upserts", !.saw = entry] \in IndexerRow
          /\ [indexer[i] EXCEPT !.at = "upserts", !.saw = entry].of = indexer[i].of
          /\ [indexer[i] EXCEPT !.at = "upserts", !.saw = entry].at = "upserts"
          /\ [indexer[i] EXCEPT !.at = "upserts", !.saw = entry].saw = entry
      BY <3>3 DEF IndexerRow
    <3> QED
      BY <1>2, <3>1, <3>2, <3>4
  <2> QED
    BY <2>1, <2>2
<1>4. /\ indexer' \in [Indexers -> IndexerRow] /\ indexer'[i] = r
      /\ \A j \in Indexers : j # i => indexer'[j] = indexer[j]
  <2>1. IndexTyped
    BY DEF IndexInv
  <2> HIDE DEF IndexConstants
  <2> QED
    BY <2>1, <1>3, IndexerMoves
<1>5. IndexTyped'
  BY <1>1, <1>4 DEF IndexInv, IndexTyped
<1>6. WorkFits' /\ EventsBounded'
  <2>1. \A o \in Ops : changes'[o] + Weight(r.of = o) <= changes[o] + Weight(indexer[i].of = o)
    BY <1>1, <1>2, <1>3 DEF Weight, IndexInv, IndexTyped
  <2>2. changes' \in [Ops -> Nat]
    BY <1>1 DEF IndexInv, IndexTyped
  <2> QED
    BY <1>1, <1>3, <2>1, <2>2, HandlerFits
<1>7. ASSUME setbacks' = 0 PROVE IndexCatchesUp'
  <2>1. IndexCatchesUp
    BY <1>1, <1>7 DEF IndexInv
  <2>2. ASSUME NEW j \in Indexers, indexer'[j].at = "upserts"
        PROVE  indexer'[j].saw.text = indexer'[j].saw.at /\ indexer'[j].saw.at <= entry.at
    <3>1. CASE j = i
      <4>1. entry.at \in Int
        BY DEF IndexInv, IndexTyped, Snapshots
      <4> QED
        BY <1>3, <1>4, <2>1, <2>2, <3>1, <4>1 DEF IndexCatchesUp, Live
    <3>2. CASE j # i
      BY <1>4, <2>1, <2>2, <3>2 DEF IndexCatchesUp
    <3> QED
      BY <3>1, <3>2
  <2>3. ASSUME Live
        PROVE  \/ document.at = entry.at
               \/ changes["upsert"] > 0
               \/ \E j \in Indexers : /\ indexer'[j].of = "upsert"
                                      /\ \/ indexer'[j].at = "loads"
                                         \/ indexer'[j].at = "upserts" /\ indexer'[j].saw.at = entry.at
    <3>1. indexer'[i].of = "upsert" /\ indexer'[i].at = "upserts" /\ indexer'[i].saw.at = entry.at
      BY <1>3, <1>4, <2>3 DEF Live
    <3> QED
      BY <3>1
  <2>4. \A j \in Indexers : indexer[j].of = "delete" => indexer'[j].of = "delete"
    BY <1>2, <1>4
  <2>5. ASSUME document.tomb = "kept", Outdated(document.at) PROVE Outdated(document.at)'
    <3>1. entry.text = 0
      BY <2>1, <2>5 DEF IndexCatchesUp, Deleted
    <3>2. \A j \in Indexers : indexer'[j].at = "upserts" => indexer'[j] = indexer[j]
      BY <1>3, <1>4, <3>1
    <3> QED
      BY <1>1, <2>5, <3>2 DEF Outdated
  <2> QED
    BY <1>1, <2>1, <2>2, <2>3, <2>4, <2>5 DEF IndexCatchesUp, Live, Deleted
<1> QED
  BY <1>5, <1>6, <1>7 DEF IndexInv

\* The document only goes forward, the row's version gets there, and what a
\* remembered deletion has left stays.
LEMMA UpsertWrites ==
  ASSUME IndexTyped, NEW i \in Indexers, indexer[i].at = "upserts", document' = Upserted(indexer[i].saw)
  PROVE  /\ document' \in [text : 0..MaxEdits, at : 0..MaxEdits, tomb : {"none", "kept", "weak"}]
         /\ document'.tomb = document.tomb
         /\ IndexCatchesUp =>
              /\ document'.at <= entry.at
              /\ document.tomb = "none" => document'.text = document'.at
              /\ document.tomb = "kept" => document'.text = 0 /\ document'.at = document.at
              /\ Live /\ (document.at = entry.at \/ indexer[i].saw.at = entry.at) => document'.at = entry.at
<1> USE IndexConstantsOK DEF IndexConstants
<1> DEFINE saw == indexer[i].saw
           new == [document EXCEPT !.text = saw.text, !.at = saw.at]
<1>1. document' = IF NoConflict(saw) THEN new ELSE document
  BY DEF Upserted
<1>2. /\ saw \in Snapshots /\ saw.at \in Nat /\ saw.text \in Nat /\ document.at \in Nat /\ document.text \in Nat
      /\ entry.at \in Nat /\ entry.text \in Nat
  BY DEF IndexTyped, IndexerRow, Snapshots
<1>3. /\ new \in [text : 0..MaxEdits, at : 0..MaxEdits, tomb : {"none", "kept", "weak"}]
      /\ new.text = saw.text /\ new.at = saw.at /\ new.tomb = document.tomb
  BY <1>2 DEF IndexTyped, Snapshots
<1> HIDE DEF new
<1>4. ASSUME IndexCatchesUp
      PROVE  /\ document'.at <= entry.at
             /\ document.tomb = "none" => document'.text = document'.at
             /\ document.tomb = "kept" => document'.text = 0 /\ document'.at = document.at
             /\ Live /\ (document.at = entry.at \/ saw.at = entry.at) => document'.at = entry.at
  <2>1. saw.text = saw.at /\ saw.at <= entry.at /\ document.at <= entry.at
    BY <1>4 DEF IndexCatchesUp
  <2>2. /\ document.tomb = "none" => document.text = document.at
        /\ document.tomb = "kept" => document.text = 0 /\ saw.at <= document.at
        /\ Live => document.tomb = "none" /\ entry.at > 0
    BY <1>2, <1>4 DEF IndexCatchesUp, Outdated, Live, Deleted
  <2> HIDE DEF saw
  <2>3. CASE NoConflict(saw)
    <3>1. document.tomb # "kept"
      BY <1>2, <2>2, <2>3 DEF NoConflict
    <3>2. saw.at >= document.at
      BY <1>2, <2>3 DEF NoConflict
    <3>3. document'.text = saw.text /\ document'.at = saw.at
      BY <1>1, <1>3, <2>3
    <3> QED
      BY <1>2, <2>1, <3>1, <3>2, <3>3
  <2>4. CASE ~ NoConflict(saw)
    <3>1. saw.at <= document.at
      BY <1>2, <2>4 DEF NoConflict
    <3>2. document' = document
      BY <1>1, <2>4
    <3> QED
      BY <1>2, <2>1, <2>2, <3>1, <3>2
  <2> QED
    BY <2>3, <2>4
<1>5. /\ document' \in [text : 0..MaxEdits, at : 0..MaxEdits, tomb : {"none", "kept", "weak"}]
      /\ document'.tomb = document.tomb
  BY <1>1, <1>3 DEF IndexTyped
<1> QED
  BY <1>4, <1>5 DEF saw

\* A deletion is remembered only where nothing newer is about to be written.
LEMMA DeletionWrites ==
  ASSUME IndexTyped, document' = Tombstone
  PROVE  /\ document' \in [text : 0..MaxEdits, at : 0..MaxEdits, tomb : {"none", "kept", "weak"}]
         /\ document'.text = 0 /\ document'.at = document.at /\ document'.tomb \in {"kept", "weak"}
         /\ document'.tomb = "kept" => Outdated(document.at)
<1> DEFINE outrun == \E j \in Indexers : indexer[j].at = "upserts" /\ indexer[j].saw.at > document.at
           found  == document.text > 0 \/ document.tomb = "kept"
           left   == IF found /\ ~outrun THEN "kept" ELSE "weak"
<1>1. document' = [document EXCEPT !.text = 0, !.tomb = left]
  BY DEF Tombstone
<1>2. left \in {"kept", "weak"} /\ (left = "kept" => ~ outrun)
  OBVIOUS
<1>3. ~ outrun => Outdated(document.at)
  <2>1. document.at \in Int /\ \A j \in Indexers : indexer[j].saw.at \in Int
    BY DEF IndexTyped, IndexerRow, Snapshots
  <2> QED
    BY <2>1 DEF Outdated
<1> HIDE DEF left, outrun
<1>4. document' = [text |-> 0, at |-> document.at, tomb |-> left]
  BY <1>1 DEF IndexTyped
<1>5. 0 \in 0..MaxEdits /\ document.at \in 0..MaxEdits
  BY IndexConstantsOK DEF IndexTyped, IndexConstants
<1> QED
  BY <1>2, <1>3, <1>4, <1>5

\* A handler that has nothing more to do, or gives its event back.
LEMMA HandlerRests ==
  ASSUME IndexInv, NEW i \in Indexers, indexer[i].at # "idle", IndexerAt(i, "idle"), entry' = entry,
         changes' \in [Ops -> Nat],
         \A o \in Ops : changes[o] <= changes'[o] /\ changes'[o] <= changes[o] + Weight(indexer[i].of = o)
  PROVE  /\ indexer' \in [Indexers -> IndexerRow] /\ indexer'[i].at = "idle"
         /\ \A j \in Indexers : j # i => indexer'[j] = indexer[j]
         /\ \A at \in Int : Outdated(at) => Outdated(at)'
         /\ WorkFits' /\ EventsBounded'
<1>1. PICK r \in IndexerRow : indexer' = [indexer EXCEPT ![i] = r] /\ r.at = "idle" /\ r.of = "backfill"
  BY IndexerAtIs DEF IndexInv
<1>2. /\ indexer' \in [Indexers -> IndexerRow] /\ indexer'[i] = r
      /\ \A j \in Indexers : j # i => indexer'[j] = indexer[j]
  <2>1. IndexTyped
    BY DEF IndexInv
  <2> QED
    BY <1>1, <2>1, IndexerMoves
<1>3. WorkFits' /\ EventsBounded'
  <2>1. \A o \in Ops : changes'[o] + Weight(r.of = o) <= changes[o] + Weight(indexer[i].of = o)
    <3>1. \A o \in Ops : Weight(r.of = o) = 0 /\ changes'[o] \in Int
      BY <1>1 DEF Weight, Ops
    <3> QED
      BY <3>1
  <2> QED
    BY <1>1, <2>1, HandlerFits
<1>4. \A at \in Int : Outdated(at) => Outdated(at)'
  <2>1. \A j \in Indexers : indexer'[j].at = "upserts" => indexer'[j] = indexer[j]
    BY <1>1, <1>2
  <2> QED
    BY <2>1 DEF Outdated
<1> QED
  BY <1>1, <1>2, <1>3, <1>4

\* A write, after which the handler is done or has its event again.
LEMMA UpsertedFits ==
  ASSUME IndexInv, NEW i \in Indexers, indexer[i].at = "upserts", document' = Upserted(indexer[i].saw),
         IndexerAt(i, "idle"), UNCHANGED <<entry, setbacks>>, changes' \in [Ops -> Nat],
         \A o \in Ops : changes[o] <= changes'[o] /\ changes'[o] <= changes[o] + Weight(indexer[i].of = o)
  PROVE  IndexInv'
<1> USE IndexConstantsOK DEF IndexConstants
<1> DEFINE saw == indexer[i].saw
<1>1. IndexTyped /\ saw.at \in Int /\ document.at \in Int
  BY DEF IndexInv, IndexTyped, IndexerRow, Snapshots
<1>2. /\ document' \in [text : 0..MaxEdits, at : 0..MaxEdits, tomb : {"none", "kept", "weak"}]
      /\ document'.tomb = document.tomb
      /\ IndexCatchesUp =>
           /\ document'.at <= entry.at
           /\ document.tomb = "none" => document'.text = document'.at
           /\ document.tomb = "kept" => document'.text = 0 /\ document'.at = document.at
           /\ Live /\ (document.at = entry.at \/ saw.at = entry.at) => document'.at = entry.at
  BY <1>1, UpsertWrites
<1>3. /\ indexer' \in [Indexers -> IndexerRow] /\ indexer'[i].at = "idle"
      /\ \A j \in Indexers : j # i => indexer'[j] = indexer[j]
      /\ \A at \in Int : Outdated(at) => Outdated(at)'
      /\ WorkFits' /\ EventsBounded'
  BY HandlerRests
<1>4. IndexTyped'
  BY <1>2, <1>3 DEF IndexInv, IndexTyped
<1>5. ASSUME setbacks' = 0 PROVE IndexCatchesUp'
  <2>1. IndexCatchesUp
    BY <1>5 DEF IndexInv
  <2>2. \A j \in Indexers : indexer'[j].at # "idle" => indexer'[j] = indexer[j]
    BY <1>3
  <2>3. document'.tomb = "kept" => Outdated(document.at) /\ document'.text = 0 /\ document'.at = document.at
    BY <1>2, <2>1 DEF IndexCatchesUp
  <2>4. document'.tomb = "kept" => Outdated(document.at)'
    BY <2>2, <2>3 DEF Outdated
  <2>5. ASSUME Live
        PROVE  \/ document'.at = entry.at
               \/ changes'["upsert"] > 0
               \/ \E j \in Indexers : /\ indexer'[j].of = "upsert"
                                      /\ \/ indexer'[j].at = "loads"
                                         \/ indexer'[j].at = "upserts" /\ indexer'[j].saw.at = entry.at
    <3>1. CASE saw.at = entry.at \/ document.at = entry.at
      BY <1>2, <2>1, <2>5, <3>1
    <3>2. CASE changes["upsert"] > 0
      BY <3>2, OpsAre DEF IndexInv, IndexTyped
    <3>3. CASE saw.at # entry.at /\ document.at # entry.at /\ ~ changes["upsert"] > 0
      <4>1. PICK j \in Indexers : /\ indexer[j].of = "upsert"
                                  /\ \/ indexer[j].at = "loads"
                                     \/ indexer[j].at = "upserts" /\ indexer[j].saw.at = entry.at
        BY <2>1, <2>5, <3>3 DEF IndexCatchesUp
      <4>2. j # i
        BY <3>3, <4>1
      <4> QED
        BY <1>3, <4>1, <4>2
    <3> QED
      BY <3>1, <3>2, <3>3
  <2>6. \A j \in Indexers : indexer[j].of = "delete" => indexer'[j].of = "delete"
    <3>1. indexer[i].of # "delete"
      BY DEF IndexInv, WorkFits
    <3> QED
      BY <1>3, <3>1
  <2>7. changes["delete"] > 0 => changes'["delete"] > 0
    BY OpsAre DEF IndexInv, IndexTyped
  <2> QED
    BY <1>2, <1>3, <2>1, <2>2, <2>4, <2>5, <2>6, <2>7 DEF IndexCatchesUp, Live, Deleted
<1> QED
  BY <1>3, <1>4, <1>5 DEF IndexInv

LEMMA TombstoneFits ==
  ASSUME IndexInv, NEW i \in Indexers, indexer[i].at = "deletes", document' = Tombstone,
         IndexerAt(i, "idle"), UNCHANGED <<entry, setbacks>>, changes' \in [Ops -> Nat],
         \A o \in Ops : changes[o] <= changes'[o] /\ changes'[o] <= changes[o] + Weight(indexer[i].of = o)
  PROVE  IndexInv'
<1> USE IndexConstantsOK DEF IndexConstants
<1>1. IndexTyped /\ document.at \in Int
  BY DEF IndexInv, IndexTyped
<1>2. /\ document' \in [text : 0..MaxEdits, at : 0..MaxEdits, tomb : {"none", "kept", "weak"}]
      /\ document'.text = 0 /\ document'.at = document.at /\ document'.tomb \in {"kept", "weak"}
      /\ document'.tomb = "kept" => Outdated(document.at)
  BY <1>1, DeletionWrites
<1>3. /\ indexer' \in [Indexers -> IndexerRow] /\ indexer'[i].at = "idle"
      /\ \A j \in Indexers : j # i => indexer'[j] = indexer[j]
      /\ \A at \in Int : Outdated(at) => Outdated(at)'
      /\ WorkFits' /\ EventsBounded'
  BY HandlerRests
<1>4. IndexTyped'
  BY <1>2, <1>3 DEF IndexInv, IndexTyped
<1>5. Deleted /\ ~ Live /\ entry.at \in Nat
  BY DEF IndexInv, WorkFits, Deleted, Live, IndexTyped, Snapshots
<1>6. ASSUME setbacks' = 0 PROVE IndexCatchesUp'
  <2>1. IndexCatchesUp
    BY <1>6 DEF IndexInv
  <2>2. \A j \in Indexers : indexer'[j].at # "idle" => indexer'[j] = indexer[j]
    BY <1>3
  <2>3. document'.tomb = "kept" => Outdated(document.at)'
    BY <1>2, <2>2 DEF Outdated
  <2> QED
    BY <1>2, <1>5, <2>1, <2>2, <2>3 DEF IndexCatchesUp, Live, Deleted
<1> QED
  BY <1>3, <1>4, <1>6 DEF IndexInv

LEMMA UpsertStep ==
  ASSUME IndexInv, NEW i \in Indexers, UpsertProduct(i)
  PROVE  IndexInv'
<1>1. /\ indexer[i].at = "upserts" /\ UNCHANGED <<entry, changes, setbacks>> /\ IndexerAt(i, "idle")
      /\ document' = Upserted(indexer[i].saw)
  BY DEF UpsertProduct, Writes
<1>2. /\ changes' \in [Ops -> Nat]
      /\ \A o \in Ops : changes[o] <= changes'[o] /\ changes'[o] <= changes[o] + Weight(indexer[i].of = o)
  BY <1>1 DEF IndexInv, IndexTyped, Weight
<1> QED
  BY <1>1, <1>2, UpsertedFits

LEMMA DeleteStep ==
  ASSUME IndexInv, NEW i \in Indexers, DeleteProduct(i)
  PROVE  IndexInv'
<1>1. /\ indexer[i].at = "deletes" /\ UNCHANGED <<entry, changes, setbacks>> /\ IndexerAt(i, "idle")
      /\ document' = Tombstone
  BY DEF DeleteProduct, Writes
<1>2. /\ changes' \in [Ops -> Nat]
      /\ \A o \in Ops : changes[o] <= changes'[o] /\ changes'[o] <= changes[o] + Weight(indexer[i].of = o)
  BY <1>1 DEF IndexInv, IndexTyped, Weight
<1> QED
  BY <1>1, <1>2, TombstoneFits

LEMMA FailStep ==
  ASSUME IndexInv, NEW i \in Indexers, IndexerFails(i)
  PROVE  IndexInv'
<1> USE IndexConstantsOK DEF IndexConstants
<1> DEFINE of == indexer[i].of
<1>1. /\ indexer[i].at # "idle" /\ IndexerAt(i, "idle") /\ UNCHANGED <<entry, setbacks>>
      /\ UNCHANGED document \/ Writes(i)
      /\ changes' = IF of = "backfill" THEN changes ELSE [changes EXCEPT ![of] = changes[of] + 1]
  BY DEF IndexerFails
<1>2. PICK r \in IndexerRow : indexer' = [indexer EXCEPT ![i] = r] /\ r.at = "idle" /\ r.of = "backfill"
  BY <1>1, IndexerAtIs DEF IndexInv
<1>3. /\ indexer' \in [Indexers -> IndexerRow] /\ indexer'[i] = r
      /\ \A j \in Indexers : j # i => indexer'[j] = indexer[j]
  <2>1. IndexTyped
    BY DEF IndexInv
  <2> HIDE DEF IndexConstants
  <2> QED
    BY <2>1, <1>2, IndexerMoves
<1>4. /\ of \in {"upsert", "delete", "backfill"} /\ changes \in [Ops -> Nat]
      /\ \A o \in Ops : changes[o] \in Nat
  BY DEF IndexInv, IndexTyped, IndexerRow
<1> HIDE DEF of
<1>5. /\ changes' \in [Ops -> Nat]
      /\ \A o \in Ops : changes'[o] = changes[o] + Weight(of = o)
  <2>1. CASE of = "backfill"
    BY <1>1, <1>4, <2>1 DEF Weight, Ops
  <2>2. CASE of \in Ops
    <3>1. changes' = [changes EXCEPT ![of] = changes[of] + 1]
      BY <1>1, <2>2 DEF Ops
    <3> QED
      BY <1>4, <2>2, <3>1 DEF Weight
  <2> QED
    BY <1>4, <2>1, <2>2 DEF Ops
<1>6. \A o \in Ops : changes[o] <= changes'[o] /\ changes'[o] <= changes[o] + Weight(indexer[i].of = o)
  BY <1>4, <1>5 DEF of, Weight
<1>7. CASE Writes(i)
  <2>1. CASE indexer[i].at = "upserts" /\ document' = Upserted(indexer[i].saw)
    BY <1>1, <1>5, <1>6, <2>1, UpsertedFits
  <2>2. CASE indexer[i].at = "deletes" /\ document' = Tombstone
    BY <1>1, <1>5, <1>6, <2>2, TombstoneFits
  <2> QED
    BY <1>7, <2>1, <2>2 DEF Writes
<1>8. CASE UNCHANGED document
  <2>1. /\ indexer' \in [Indexers -> IndexerRow] /\ indexer'[i].at = "idle"
        /\ \A j \in Indexers : j # i => indexer'[j] = indexer[j]
        /\ \A at \in Int : Outdated(at) => Outdated(at)'
        /\ WorkFits' /\ EventsBounded'
    BY <1>1, <1>5, <1>6, HandlerRests
  <2>2. IndexTyped'
    BY <1>1, <1>5, <1>8, <2>1 DEF IndexInv, IndexTyped
  <2>3. ASSUME setbacks' = 0 PROVE IndexCatchesUp'
    <3>1. IndexCatchesUp /\ document.at \in Int
      BY <1>1, <2>3 DEF IndexInv, IndexTyped
    <3>2. \A j \in Indexers : indexer'[j].at # "idle" => indexer'[j] = indexer[j]
      BY <2>1
    <3>3. \A o \in Ops : (changes[o] > 0 => changes'[o] > 0) /\ (of = o => changes'[o] > 0)
      BY <1>4, <1>5 DEF Weight
    <3>4. \A j \in Indexers : indexer[j].of \in Ops => indexer'[j] = indexer[j] \/ changes'[indexer[j].of] > 0
      BY <2>1, <3>3 DEF of
    <3>5. Outdated(document.at) => Outdated(document.at)'
      BY <1>8, <2>1, <3>1 DEF Outdated
    <3> QED
      BY <1>1, <1>8, <3>1, <3>2, <3>3, <3>4, <3>5, OpsAre DEF IndexCatchesUp, Live, Deleted
  <2> QED
    BY <2>1, <2>2, <2>3 DEF IndexInv
<1> QED
  BY <1>1, <1>7, <1>8

LEMMA IndexStart ==
  ASSUME IndexInit, SetbacksInit
  PROVE  IndexInv
<1> USE IndexConstantsOK DEF IndexConstants
<1>1. /\ entry = NoEntry /\ entry.text = 0 /\ entry.at = 0 /\ entry \in Snapshots
      /\ document = [text |-> 0, at |-> 0, tomb |-> "none"] /\ setbacks = 0
      /\ \A i \in Indexers : indexer[i] = IdleIndexer
  BY DEF IndexInit, NoEntry, Snapshots, SetbacksInit
<1>2. changes \in [Ops -> Nat] /\ \A op \in Ops : changes[op] = 0
  BY DEF IndexInit, Ops
<1>3. indexer \in [Indexers -> IndexerRow]
  BY IdleIndexerTyped DEF IndexInit
<1>4. IndexTyped
  BY <1>1, <1>2, <1>3 DEF IndexTyped
<1>5. WorkFits
  BY <1>1, IdleIndexerTyped DEF WorkFits
<1>6. EventsBounded
  <2>1. \A op \in Ops : Held(op) = {}
    BY <1>1, IdleIndexerTyped DEF NumHeld, Held, Ops
  <2> QED
    BY <1>1, <1>2, <2>1, FS_EmptySet, OpsAre DEF EventsBounded, Live, Deleted, NumHeld
<1>7. IndexCatchesUp
  BY <1>1, IdleIndexerTyped DEF IndexCatchesUp, Live, Deleted
<1> QED
  BY <1>4, <1>5, <1>6, <1>7 DEF IndexInv

LEMMA IndexStep ==
  ASSUME IndexInv, [IndexNext]_indexVars
  PROVE  IndexInv'
<1>1. CASE UNCHANGED indexVars
  BY <1>1 DEF indexVars, IndexInv, IndexTyped, WorkFits, EventsBounded, IndexCatchesUp, Outdated, Live, Deleted, NumHeld, Held
<1>2. ASSUME NEW i \in Indexers,
             HandleProductChanged(i, "upsert") \/ HandleProductChanged(i, "delete")
      PROVE  IndexInv'
  BY <1>2, HandleStep, OpsAre
<1> QED
  BY <1>1, <1>2, CreateEntryStep, UpdateEntryStep, DeleteEntryStep, TombStep, BackfillStep, LoadStep,
     UpsertStep, DeleteStep, FailStep DEF IndexNext

LEMMA IndexCorrect == IndexSpec => []IndexInv
BY IndexStart, IndexStep, PTL DEF IndexSpec

\* Types of the row, its document, the events and the handlers, for any number
\* of handlers: no event is counted twice however often a handler fails.
THEOREM IndexTypeCorrect == IndexSpec => []IndexTypeOK
<1>1. ASSUME IndexInv PROVE IndexTypeOK
  <2>1. /\ entry.text \in Nat /\ entry.text <= MaxEdits /\ MaxEdits \in Nat
        /\ \A op \in Ops : changes[op] \in Nat
    BY <1>1, IndexConstantsOK DEF IndexInv, IndexTyped, Snapshots, IndexConstants
  <2>2. \A op \in Ops : NumHeld(op) \in Nat
    BY HeldFinite
  <2>3. changes["upsert"] <= MaxEdits /\ changes["delete"] <= MaxEdits
    BY <1>1, <2>1, <2>2, OpsAre, IndexConstantsOK DEF IndexInv, EventsBounded, IndexConstants
  <2>4. \A op \in Ops : changes[op] \in 0..MaxEdits
    BY <2>1, <2>3 DEF Ops
  <2> QED
    BY <1>1, <2>4 DEF IndexInv, IndexTyped, IndexTypeOK, IndexerRow, Ops
<1> QED
  BY <1>1, IndexCorrect, PTL

\* What is found by searching is the row once all is handled, for any number of
\* handlers and edits, under the conditions that IndexFollows names.
THEOREM SearchFollowsRow == IndexSpec => []IndexFollows
<1>1. ASSUME IndexInv, Settled, setbacks = 0, document.tomb # "weak" PROVE document.text = entry.text
  <2>1. /\ IndexCatchesUp /\ changes["upsert"] = 0 /\ changes["delete"] = 0
        /\ \A i \in Indexers : indexer[i].at = "idle" /\ indexer[i].of = "backfill"
    BY <1>1, OpsAre DEF IndexInv, Settled, IndexTyped, WorkFits
  <2>2. CASE Live
    <3>1. document.tomb = "none"
      BY <2>1, <2>2 DEF IndexCatchesUp, Live, Deleted
    <3>2. document.text = document.at /\ entry.text = entry.at
      BY <2>1, <2>2, <3>1 DEF IndexCatchesUp
    <3>3. document.at = entry.at
      BY <2>1, <2>2 DEF IndexCatchesUp
    <3> QED
      BY <3>2, <3>3
  <2>3. CASE Deleted
    BY <1>1, <2>1, <2>3 DEF IndexCatchesUp, Deleted
  <2>4. CASE entry.at = 0
    BY <1>1, <2>1, <2>4 DEF IndexCatchesUp, IndexInv, IndexTyped, WorkFits, Snapshots
  <2> QED
    BY <1>1, <2>2, <2>3, <2>4 DEF Live, Deleted, IndexInv, IndexTyped, Snapshots
<1>2. IndexInv => IndexFollows
  BY <1>1 DEF IndexFollows
<1> QED
  BY <1>2, IndexCorrect, PTL

-----------------------------------------------------------------------------
(* The services together                                                   *)

\* A behaviour runs one service, and its steps are steps of that service, whose
\* types, gates and copies are therefore those of its own behaviours.
LEMMA PaymentsRuns ==
  /\ ServicesInit => PaymentsInit
  /\ running = "payments" /\ [ServicesNext]_<<services, keepers, campaigns, running>> =>
       [PaymentsNext]_payVars /\ (running = "payments")'
  /\ ~ (running = "payments") /\ [ServicesNext]_<<services, keepers, campaigns, running>> => ~ (running = "payments")'
BY DEF ServicesInit, ServicesNext, Only, Service, Keeper, Campaign, services, keepers, campaigns,
       packets, groups, preorders, promos, coupons, accounts, catalogue, listening, payVars

LEMMA DeliveryRuns ==
  /\ ServicesInit => DeliveryInit
  /\ running = "delivery" /\ [ServicesNext]_<<services, keepers, campaigns, running>> =>
       [DeliveryNext]_deliveryVars /\ (running = "delivery")'
  /\ ~ (running = "delivery") /\ [ServicesNext]_<<services, keepers, campaigns, running>> => ~ (running = "delivery")'
BY DEF ServicesInit, ServicesNext, Only, Service, Keeper, Campaign, services, keepers, campaigns,
       packets, groups, preorders, promos, coupons, accounts, catalogue, listening, deliveryVars

LEMMA ListenerRuns ==
  /\ ServicesInit => SetbacksInit /\ ListenerInit
  /\ running = "listener" /\ [ServicesNext]_<<services, keepers, campaigns, running>> =>
       [ListenerNext]_listenerVars /\ (running = "listener")'
  /\ ~ (running = "listener") /\ [ServicesNext]_<<services, keepers, campaigns, running>> => ~ (running = "listener")'
BY DEF ServicesInit, ServicesNext, Only, Service, Keeper, Campaign, services, keepers, campaigns,
       packets, groups, preorders, promos, coupons, accounts, catalogue, listening, listenerVars

LEMMA BreakerRuns ==
  /\ ServicesInit => BreakerInit
  /\ running = "breaker" /\ [ServicesNext]_<<services, keepers, campaigns, running>> =>
       [BreakerNext]_breakerVars /\ (running = "breaker")'
  /\ ~ (running = "breaker") /\ [ServicesNext]_<<services, keepers, campaigns, running>> => ~ (running = "breaker")'
BY DEF ServicesInit, ServicesNext, Only, Service, Keeper, Campaign, services, keepers, campaigns,
       packets, groups, preorders, promos, coupons, accounts, catalogue, listening, breakerVars

LEMMA TokenRuns ==
  /\ ServicesInit => TokenInit
  /\ running = "token" /\ [ServicesNext]_<<services, keepers, campaigns, running>> =>
       [TokenNext]_tokenVars /\ (running = "token")'
  /\ ~ (running = "token") /\ [ServicesNext]_<<services, keepers, campaigns, running>> => ~ (running = "token")'
BY DEF ServicesInit, ServicesNext, Only, Service, Keeper, Campaign, services, keepers, campaigns,
       packets, groups, preorders, promos, coupons, accounts, catalogue, listening, tokenVars

LEMMA ThrottleRuns ==
  /\ ServicesInit => ThrottleInit
  /\ running = "throttle" /\ [ServicesNext]_<<services, keepers, campaigns, running>> =>
       [ThrottleNext]_throttleVars /\ (running = "throttle")'
  /\ ~ (running = "throttle") /\ [ServicesNext]_<<services, keepers, campaigns, running>> => ~ (running = "throttle")'
BY DEF ServicesInit, ServicesNext, Only, Service, Keeper, Campaign, services, keepers, campaigns,
       packets, groups, preorders, promos, coupons, accounts, catalogue, listening, throttleVars

LEMMA AccountRuns ==
  /\ ServicesInit => AccountInit /\ SetbacksInit
  /\ running = "account" /\ [ServicesNext]_<<services, keepers, campaigns, running>> =>
       [AccountNext]_accountVars /\ (running = "account")'
  /\ ~ (running = "account") /\ [ServicesNext]_<<services, keepers, campaigns, running>> => ~ (running = "account")'
BY DEF ServicesInit, ServicesNext, Only, Service, Keeper, Campaign, services, keepers, campaigns,
       packets, groups, preorders, promos, coupons, accounts, catalogue, listening, accountVars

LEMMA CacheRuns ==
  /\ ServicesInit => CacheInit /\ SetbacksInit
  /\ running = "cache" /\ [ServicesNext]_<<services, keepers, campaigns, running>> =>
       [CacheNext]_cacheVars /\ (running = "cache")'
  /\ ~ (running = "cache") /\ [ServicesNext]_<<services, keepers, campaigns, running>> => ~ (running = "cache")'
BY DEF ServicesInit, ServicesNext, Only, Service, Keeper, Campaign, services, keepers, campaigns,
       packets, groups, preorders, promos, coupons, accounts, catalogue, listening, cacheVars

LEMMA IndexRuns ==
  /\ ServicesInit => IndexInit /\ SetbacksInit
  /\ running = "index" /\ [ServicesNext]_<<services, keepers, campaigns, running>> =>
       [IndexNext]_indexVars /\ (running = "index")'
  /\ ~ (running = "index") /\ [ServicesNext]_<<services, keepers, campaigns, running>> => ~ (running = "index")'
BY DEF ServicesInit, ServicesNext, Only, Service, Keeper, Campaign, services, keepers, campaigns,
       packets, groups, preorders, promos, coupons, accounts, catalogue, listening, indexVars

LEMMA PacketRuns ==
  /\ ServicesInit => PacketInit /\ SetbacksInit
  /\ running = "packet" /\ [ServicesNext]_<<services, keepers, campaigns, running>> =>
       [PacketNext]_packetVars /\ (running = "packet")'
  /\ ~ (running = "packet") /\ [ServicesNext]_<<services, keepers, campaigns, running>> => ~ (running = "packet")'
BY DEF ServicesInit, ServicesNext, Only, Service, Keeper, Campaign, services, keepers, campaigns,
       packets, groups, preorders, promos, coupons, accounts, catalogue, listening, packetVars

LEMMA GroupRuns ==
  /\ ServicesInit => GroupInit /\ SetbacksInit
  /\ running = "group" /\ [ServicesNext]_<<services, keepers, campaigns, running>> =>
       [GroupNext]_groupVars /\ (running = "group")'
  /\ ~ (running = "group") /\ [ServicesNext]_<<services, keepers, campaigns, running>> => ~ (running = "group")'
BY DEF ServicesInit, ServicesNext, Only, Service, Keeper, Campaign, services, keepers, campaigns,
       packets, groups, preorders, promos, coupons, accounts, catalogue, listening, groupVars

LEMMA PreorderRuns ==
  /\ ServicesInit => PreorderInit /\ SetbacksInit
  /\ running = "preorder" /\ [ServicesNext]_<<services, keepers, campaigns, running>> =>
       [PreorderNext]_preorderVars /\ (running = "preorder")'
  /\ ~ (running = "preorder") /\ [ServicesNext]_<<services, keepers, campaigns, running>> => ~ (running = "preorder")'
BY DEF ServicesInit, ServicesNext, Only, Service, Keeper, Campaign, services, keepers, campaigns,
       packets, groups, preorders, promos, coupons, accounts, catalogue, listening, preorderVars

LEMMA PromoRuns ==
  /\ ServicesInit => PromoInit /\ SetbacksInit
  /\ running = "promo" /\ [ServicesNext]_<<services, keepers, campaigns, running>> =>
       [PromoNext]_promoVars /\ (running = "promo")'
  /\ ~ (running = "promo") /\ [ServicesNext]_<<services, keepers, campaigns, running>> => ~ (running = "promo")'
BY DEF ServicesInit, ServicesNext, Only, Service, Keeper, Campaign, services, keepers, campaigns,
       packets, groups, preorders, promos, coupons, accounts, catalogue, listening, promoVars

LEMMA CouponRuns ==
  /\ ServicesInit => CouponInit /\ SetbacksInit
  /\ running = "coupons" /\ [ServicesNext]_<<services, keepers, campaigns, running>> =>
       [CouponNext]_couponVars /\ (running = "coupons")'
  /\ ~ (running = "coupons") /\ [ServicesNext]_<<services, keepers, campaigns, running>> => ~ (running = "coupons")'
BY DEF ServicesInit, ServicesNext, Only, Service, Keeper, Campaign, services, keepers, campaigns,
       packets, groups, preorders, promos, coupons, accounts, catalogue, listening, couponVars

\* Every step either meets none of the failures that are counted or counts one.
LEMMA SetbacksStep ==
  ASSUME SetbacksTypeOK, [ServicesNext]_<<services, keepers, campaigns, running>>
  PROVE  SetbacksTypeOK'
<1>1. ListenerNext => Smooth \/ Setback
  <2>1. Mined \/ Reorganised \/ ScanBegins => Smooth \/ Setback
    BY DEF Mined, Reorganised, ScanBegins, OnChain, Scanning, Smooth, Setback
  <2>2. ScanWorks => Smooth \/ Setback
    BY DEF ScanWorks, FilterLogs, NextBlock, SkipMalformed, OutboxInsert, releaseClaim, tryClaim,
           saveLastBlock, Scanning, Smooth, Setback
  <2>3. FilterLogsFails \/ OutboxFails \/ ListenerDies => Smooth \/ Setback
    BY DEF FilterLogsFails, OutboxFails, ListenerDies, Scanning, Smooth, Setback
  <2> QED
    BY <2>1, <2>2, <2>3 DEF ListenerNext
<1>2. AccountNext => Smooth \/ Setback
  BY DEF Smooth, Setback, AccountNext, BumpTokenVersion, InvalidateTokenVersionCache,
         SendEmail, StoreVersion, UpdateUserColumns, UseDies, UserLogin,
         VersionExpires, currentTokenVersion, emailTokenClaim, emailTokenRelease
<1>3. CacheNext => Smooth \/ Setback
  BY DEF Smooth, Setback, CacheNext, CreateProduct, DelProductDetail, DeleteProductRow,
         DeletesDetail, DetailExpires, DoubleDelete, EditorDies, GetProductDetail,
         LoadProduct, StoreDetail, UpdateBegins, UpdateProduct
<1>4. IndexNext => Smooth \/ Setback
  BY DEF Smooth, Setback, BackfillFromDB, CreateEntry, DeleteEntry, DeleteProduct,
         HandleProductChanged, IndexNext, IndexerFails, LoadEntry, TombstoneForgotten,
         UpdateEntry, UpsertProduct
<1>5. PacketNext => Smooth \/ Setback
  <2>1. \A u : GuestWorks(u) => Smooth \/ Setback
    BY DEF GuestWorks, PopShare, RollbackShare, ClaimTx, CheckClaim, Smooth, Setback
  <2>2. \A s : SweepWorks(s) => Smooth \/ Setback
    BY DEF SweepWorks, SweepLocks, SweepReads, SweepClaims, SweepDecides, SweepRefunds, Smooth,
           Setback
  <2>3. \A u : CheckPacket(u) \/ GuestDies(u) \/ MarkAges(u) => Smooth \/ Setback
    BY DEF CheckPacket, GuestDies, MarkAges, Smooth, Setback
  <2>4. \A s, expire : SweepDies(s) \/ SweepStarts(s, expire) => Smooth \/ Setback
    BY DEF SweepDies, SweepStarts, Smooth, Setback
  <2>5. CreatePacket \/ PrepareRedPacket \/ RefundUnprepared \/ PacketAges \/ RedisForgets => Smooth \/ Setback
    BY DEF CreatePacket, PrepareRedPacket, RefundUnprepared, PacketAges, RedisForgets, Smooth,
           Setback
  <2> QED
    BY <2>1, <2>2, <2>3, <2>4, <2>5 DEF PacketNext
<1>6. GroupNext => Smooth \/ Setback
  <2>1. \A c, f : CreateChecks(c, f) \/ JoinChecks(c, f) => Smooth \/ Setback
    BY DEF CreateChecks, JoinChecks, EntersGroup, Smooth, Setback
  <2>2. \A c : ReserveOne(c) \/ TakesTime(c) \/ ReleaseOne(c) => Smooth \/ Setback
    BY DEF ReserveOne, TakesTime, ReleaseOne, Smooth, Setback
  <2>3. \A c, f : CreateGroupTx(c, f) \/ JoinTx(c, f) => Smooth \/ Setback
    BY DEF CreateGroupTx, JoinTx, CommitsUnheard, Smooth, Setback
  <2>4. \A c : MarkGroupSuccess(c) \/ DissolveGroup(c) \/ MoveStock(c) => Smooth \/ Setback
    BY DEF MarkGroupSuccess, DissolveGroup, MoveStock, Smooth, Setback
  <2>5. \A c : CommitAttemptFails(c) => Smooth \/ Setback
    BY DEF CommitAttemptFails, TryFails, Smooth, Setback
  <2>6. \A c : ClerkDies(c) \/ ListFullOpenGroups(c) \/ ExpireOpenGroupsBefore(c) \/ CloseGroup(c) => Smooth \/ Setback
    BY DEF ClerkDies, ListFullOpenGroups, ExpireOpenGroupsBefore, CloseGroup, Smooth, Setback
  <2>7. retryPendingCommits \/ SettleExpiredRefund \/ ExpirePasses \/ MerchantLowersNum => Smooth \/ Setback
    BY DEF retryPendingCommits, SettleExpiredRefund, ExpirePasses, MerchantLowersNum, Smooth, Setback
  <2> QED
    BY <2>1, <2>2, <2>3, <2>4, <2>5, <2>6, <2>7 DEF GroupNext, ClerkWorks
<1>7. PreorderNext => Smooth \/ Setback
  <2>1. \A e, o : PayDeposit(e, o) \/ PayFinal(e, o) => Smooth \/ Setback
    BY DEF PayDeposit, PayFinal, Smooth, Setback
  <2>2. \A e, o : CancelPreorderInDepositWindow(e, o) \/ ListUnpaidFinalBefore(e, o) => Smooth \/ Setback
    BY DEF CancelPreorderInDepositWindow, ListUnpaidFinalBefore, Smooth, Setback
  <2>3. \A e, o : DepositTx(e, o) \/ FinalTx(e, o) \/ CancelTx(e, o) \/ ForfeitOne(e, o) => Smooth \/ Setback
    BY DEF DepositTx, FinalTx, CancelTx, ForfeitOne, Smooth, Setback
  <2>4. \A e : ReservePiece(e) \/ MovePiece(e) \/ ErrandDies(e) => Smooth \/ Setback
    BY DEF ReservePiece, MovePiece, ErrandDies, Smooth, Setback
  <2>5. \A e : FinalCommitFails(e) => Smooth \/ Setback
    BY DEF FinalCommitFails, TryFails, Smooth, Setback
  <2>6. \A o : RetryUnmoved(o) \/ SeasonPasses \/ BossSpends => Smooth \/ Setback
    BY DEF RetryUnmoved, SeasonPasses, BossSpends, Smooth, Setback
  <2> QED
    BY <2>1, <2>2, <2>3, <2>4, <2>5, <2>6 DEF PreorderNext, ErrandWorks
<1>8. PromoNext => Smooth \/ Setback
  BY DEF Smooth, Setback, AtomicConsumeBudget, CalculateBestDiscount, CreateOrder, Midnight,
         OrderCloses, OrderFails, PromoNext, ReleaseDiscount, StopRule, TriesRule
<1>9. CouponNext => Smooth \/ Setback
  <2>1. \A c, u : ClaimCouponAtomic(c, u) => Smooth \/ Setback
    BY DEF ClaimCouponAtomic, Smooth, Setback
  <2>2. \A c, u : PersistClaim(c, u) => Smooth \/ Setback
    BY DEF PersistClaim, Smooth, Setback
  <2>3. \A c, u : RollbackClaim(c, u) \/ ClaimStarts(c, u) \/ RaiseCouponStock(c) => Smooth \/ Setback
    BY DEF RollbackClaim, ClaimStarts, RaiseCouponStock, Smooth, Setback
  <2>4. \A b : UseInTx(b) \/ ReleaseForOrderInTx(b) => Smooth \/ Setback
    BY DEF UseInTx, ReleaseForOrderInTx, Smooth, Setback
  <2>5. \A u : ReconcileReads \/ ReconcileRaises \/ StockKeyLost \/ UserKeyExpires(u) => Smooth \/ Setback
    BY DEF ReconcileReads, ReconcileRaises, StockKeyLost, UserKeyExpires, Smooth, Setback
  <2>6. \A i, b : GetUsable(b, i) \/ CouponTurnsLate(i) \/ ExpireOverdue => Smooth \/ Setback
    BY DEF GetUsable, CouponTurnsLate, ExpireOverdue, Smooth, Setback
  <2> QED
    BY <2>1, <2>2, <2>3, <2>4, <2>5, <2>6 DEF CouponNext, ClaimWorks
<1>10. Smooth \/ Setback
  BY <1>1, <1>2, <1>3, <1>4, <1>5, <1>6, <1>7, <1>8, <1>9 DEF ServicesNext, Service, Keeper, Campaign, services,
     keepers, campaigns, listening, Smooth
<1> QED
  BY <1>10, SetbacksAssumption DEF SetbacksTypeOK, Smooth, Setback

\* The types of the payments, the events and the gates.
ServiceTypes ==
  /\ running = "payments" => PaymentsTypeOK
  /\ running = "delivery" => DeliveryTypeOK
  /\ running = "breaker" => BreakerTypeOK
  /\ running = "token" => TokenTypeOK
  /\ running = "throttle" => ThrottleTypeOK

LEMMA ServiceTypesKept == ServicesSpec => []ServiceTypes
<1>1. ServicesSpec => [](running = "payments" => PaymentsTypeOK)
  BY PaymentsRuns, PaymentsTypeCorrect, PTL DEF ServicesSpec, PaymentsSpec
<1>2. ServicesSpec => [](running = "delivery" => DeliveryTypeOK)
  BY DeliveryRuns, DeliveryTypeCorrect, PTL DEF ServicesSpec, DeliverySpec
<1>3. ServicesSpec => [](running = "breaker" => BreakerTypeOK)
  BY BreakerRuns, BreakerTypeCorrect, PTL DEF ServicesSpec, BreakerSpec
<1>4. ServicesSpec => [](running = "token" => TokenTypeOK)
  BY TokenRuns, TokenTypeCorrect, PTL DEF ServicesSpec, TokenSpec
<1>5. ServicesSpec => [](running = "throttle" => ThrottleTypeOK)
  BY ThrottleRuns, ThrottleTypeCorrect, PTL DEF ServicesSpec, ThrottleSpec
<1> QED
  BY <1>1, <1>2, <1>3, <1>4, <1>5, PTL DEF ServiceTypes

\* The types of the listener, the sessions and the copies.
KeeperTypes ==
  /\ running = "listener" => ListenerTypeOK
  /\ running = "account" => AccountTypeOK
  /\ running = "cache" => CacheTypeOK
  /\ running = "index" => IndexTypeOK

LEMMA KeeperTypesKept == ServicesSpec => []KeeperTypes
<1>1. ServicesSpec => [](running = "listener" => ListenerTypeOK)
  BY ListenerRuns, ListenerTypeCorrect, PTL DEF ServicesSpec, ListenerSpec
<1>2. ServicesSpec => [](running = "account" => AccountTypeOK)
  BY AccountRuns, AccountTypeCorrect, PTL DEF ServicesSpec, AccountSpec
<1>3. ServicesSpec => [](running = "cache" => CacheTypeOK)
  BY CacheRuns, CacheTypeCorrect, PTL DEF ServicesSpec, CacheSpec
<1>4. ServicesSpec => [](running = "index" => IndexTypeOK)
  BY IndexRuns, IndexTypeCorrect, PTL DEF ServicesSpec, IndexSpec
<1> QED
  BY <1>1, <1>2, <1>3, <1>4, PTL DEF KeeperTypes

\* The types of the campaigns.
CampaignTypes ==
  /\ running = "packet" => PacketTypeOK
  /\ running = "group" => GroupTypeOK
  /\ running = "preorder" => PreorderTypeOK
  /\ running = "promo" => PromoTypeOK
  /\ running = "coupons" => CouponTypeOK

LEMMA CampaignTypesKept == ServicesSpec => []CampaignTypes
<1>1. ServicesSpec => [](running = "packet" => PacketTypeOK)
  BY PacketRuns, PacketTypeCorrect, PTL DEF ServicesSpec, PacketSpec
<1>2. ServicesSpec => [](running = "group" => GroupTypeOK)
  BY GroupRuns, GroupTypeCorrect, PTL DEF ServicesSpec, GroupSpec
<1>3. ServicesSpec => [](running = "preorder" => PreorderTypeOK)
  BY PreorderRuns, PresaleTypeCorrect, PTL DEF ServicesSpec, PreorderSpec
<1>4. ServicesSpec => [](running = "promo" => PromoTypeOK)
  BY PromoRuns, PromoTypeCorrect, PTL DEF ServicesSpec, PromoSpec
<1>5. ServicesSpec => [](running = "coupons" => CouponTypeOK)
  BY CouponRuns, CouponTypeCorrect, PTL DEF ServicesSpec, CouponSpec
<1> QED
  BY <1>1, <1>2, <1>3, <1>4, <1>5, PTL DEF CampaignTypes

\* The service that runs keeps the types of its state.
THEOREM ServicesTypeCorrect == ServicesSpec => []ServicesTypeOK
<1>1. ServicesInit => SetbacksTypeOK
  BY SetbacksAssumption DEF ServicesInit, SetbacksInit, SetbacksTypeOK
<1>2. ServiceTypes /\ KeeperTypes /\ CampaignTypes /\ SetbacksTypeOK => ServicesTypeOK
  BY DEF ServiceTypes, KeeperTypes, CampaignTypes, ServicesTypeOK
<1>3. ServicesSpec => []SetbacksTypeOK
  BY <1>1, SetbacksStep, PTL DEF ServicesSpec
<1> QED
  BY <1>2, <1>3, ServiceTypesKept, KeeperTypesKept, CampaignTypesKept, PTL

\* The breaker, the token, the limits and the middleware let through what they
\* should, for every value of the constants.
THEOREM GatesHoldTogether == ServicesSpec => []GatesHold
<1>1. ServicesSpec => [](running = "breaker" => ProbesLimited)
  BY BreakerRuns, ProbesStayLimited, PTL DEF ServicesSpec, BreakerSpec
<1>2. ServicesSpec => [](running = "token" => OncePerToken)
  BY TokenRuns, TokenHasOneEffect, PTL DEF ServicesSpec, TokenSpec
<1>3. ServicesSpec => [](running = "throttle" => LimitsHold)
  BY ThrottleRuns, LimitsStayHeld, PTL DEF ServicesSpec, ThrottleSpec
<1>4. ServicesSpec => [](running = "account" => SessionsEnd)
  BY AccountRuns, OldSessionsEnd, PTL DEF ServicesSpec, AccountSpec
<1> QED
  BY <1>1, <1>2, <1>3, <1>4, PTL DEF GatesHold

\* The copies of a product follow its row, for every value of the constants.
THEOREM CatalogueIsFollowed == ServicesSpec => []CatalogueFollows
<1>1. ServicesSpec => [](running = "cache" => DetailFollows)
  BY CacheRuns, DetailsFollowRow, PTL DEF ServicesSpec, CacheSpec
<1>2. ServicesSpec => [](running = "index" => IndexFollows)
  BY IndexRuns, SearchFollowsRow, PTL DEF ServicesSpec, IndexSpec
<1> QED
  BY <1>1, <1>2, PTL DEF CatalogueFollows
=============================================================================

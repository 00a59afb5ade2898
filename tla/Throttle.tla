------------------------------ MODULE Throttle ------------------------------
(***************************************************************************)
(* The two rate limits: a token bucket per address in the process, which a *)
(* janitor forgets when it is idle, and a sliding window in Redis, shared  *)
(* by all processes.  Time is counted in ticks; the clock of a process may *)
(* be late.                                                                *)
(***************************************************************************)
EXTENDS Integers, FiniteSets, Functions

CONSTANTS MaxTick,               \* bound: the last tick
          MaxBurst,              \* bound: requests admitted in one tick
          MaxSkew,               \* ticks by which the clock of a process may be late
          WindowTicks, WindowLimit,
          Refill, BucketSize,    \* tokens per tick, capacity
          IdleTicks              \* tokenBucketIdleTTL

\* A bucket that is forgotten would be full again: that is what makes it safe.
ASSUME ThrottleAssumption ==
  /\ MaxTick \in Nat /\ MaxBurst \in Nat
  /\ WindowTicks \in Nat \ {0} /\ WindowLimit \in Nat \ {0}
  /\ MaxSkew \in Nat /\ MaxSkew < WindowTicks
  /\ Refill \in Nat \ {0} /\ BucketSize \in Nat
  /\ IdleTicks \in Nat /\ IdleTicks * Refill >= BucketSize

VARIABLES
  tick,
  zset,         \* members of the window's sorted set, by score
  windowLeft,   \* ticks the set has to live
  passedWindow, \* requests that the window let pass, by tick
  openTicks,    \* ticks in which a request passed because Redis failed
  tokens,       \* the limiter of the address, -1 without one
  idleTicks,    \* since lastSeen
  passedBucket  \* requests that passed, by tick

windowVars   == <<zset, windowLeft, passedWindow, openTicks>>
bucketVars   == <<tokens, idleTicks, passedBucket>>
throttleVars == <<tick, windowVars, bucketVars>>

Ticks == 0..MaxTick
NoBucket == -1

ThrottleTypeOK ==
  /\ tick \in Ticks
  /\ zset \in [Ticks -> 0..WindowLimit] /\ windowLeft \in 0..WindowTicks
  /\ openTicks \subseteq Ticks
  /\ passedWindow \in [Ticks -> Nat] /\ passedBucket \in [Ticks -> 0..MaxBurst]
  /\ tokens \in NoBucket..BucketSize /\ idleTicks \in 0..(IdleTicks + 1)

ThrottleInit ==
  /\ tick = 0
  /\ zset = [t \in Ticks |-> 0] /\ windowLeft = 0
  /\ passedWindow = [t \in Ticks |-> 0] /\ openTicks = {}
  /\ tokens = NoBucket /\ idleTicks = 0
  /\ passedBucket = [t \in Ticks |-> 0]

Total(f, from, to) == SumFunctionOnSet(f, from..to)

Least(a, b) == IF a <= b THEN a ELSE b

-----------------------------------------------------------------------------
\* Tokens are added for the time that has passed; an untouched set expires.
Tick ==
  /\ tick < MaxTick /\ tick' = tick + 1
  /\ windowLeft' = IF windowLeft > 0 THEN windowLeft - 1 ELSE 0
  /\ zset' = IF windowLeft <= 1 THEN [t \in Ticks |-> 0] ELSE zset
  /\ tokens' = IF tokens = NoBucket THEN tokens ELSE Least(BucketSize, tokens + Refill)
  /\ idleTicks' = IF tokens = NoBucket THEN 0 ELSE Least(IdleTicks + 1, idleTicks + 1)
  /\ UNCHANGED <<passedWindow, openTicks, passedBucket>>

Clocks == {tick - late : late \in 0..Least(MaxSkew, tick)}

\* slidingWindowScript, with the clock of the process that calls it: entries as
\* old as the window go, then the rest counts.
Script(now, allowed) ==
  LET live == [t \in Ticks |-> IF t <= now - WindowTicks THEN 0 ELSE zset[t]] IN
  /\ allowed = (Total(live, 0, MaxTick) < WindowLimit)
  /\ zset' = IF allowed THEN [live EXCEPT ![now] = @ + 1] ELSE live
  /\ windowLeft' = IF allowed THEN WindowTicks ELSE windowLeft

SlidingWindowAllow ==
  /\ \E now \in Clocks, allowed \in BOOLEAN :
       /\ Script(now, allowed)
       /\ passedWindow' = IF allowed THEN [passedWindow EXCEPT ![tick] = @ + 1] ELSE passedWindow
  /\ UNCHANGED <<tick, openTicks, bucketVars>>

\* An error of Redis, though the script may have run: the request passes.
SlidingWindowFails ==
  /\ openTicks' = openTicks \cup {tick}
  /\ \/ UNCHANGED <<zset, windowLeft>>
     \/ \E now \in Clocks, allowed \in BOOLEAN : Script(now, allowed)
  /\ UNCHANGED <<tick, passedWindow, bucketVars>>

\* get and Allow.
TokenBucketAllow ==
  LET have == IF tokens = NoBucket THEN BucketSize ELSE tokens IN
  /\ passedBucket[tick] < MaxBurst
  /\ idleTicks' = 0
  /\ \/ have > 0 /\ tokens' = have - 1 /\ passedBucket' = [passedBucket EXCEPT ![tick] = @ + 1]
     \/ have = 0 /\ tokens' = 0 /\ UNCHANGED passedBucket
  /\ UNCHANGED <<tick, windowVars>>

Janitor ==
  /\ tokens # NoBucket /\ idleTicks > IdleTicks
  /\ tokens' = NoBucket /\ idleTicks' = 0
  /\ UNCHANGED <<tick, windowVars, passedBucket>>

ThrottleNext == Tick \/ SlidingWindowAllow \/ SlidingWindowFails \/ TokenBucketAllow \/ Janitor

ThrottleSpec == ThrottleInit /\ [][ThrottleNext]_throttleVars

-----------------------------------------------------------------------------
(* Properties *)

\* No stretch of the window less what the clocks differ by, wherever it begins,
\* lets more than the limit through, unless Redis failed in it; and no stretch
\* of time more than the bucket holds and refills: although entries age at the
\* boundary, keys expire and buckets are forgotten.
LimitsHold ==
  /\ \A t \in Ticks : LET to == t + WindowTicks - MaxSkew - 1 IN
       to <= MaxTick /\ openTicks \cap (t..to) = {} => Total(passedWindow, t, to) <= WindowLimit
  /\ \A t \in Ticks : \A u \in t..MaxTick :
       Total(passedBucket, t, u) <= BucketSize + Refill * (u - t)
=============================================================================

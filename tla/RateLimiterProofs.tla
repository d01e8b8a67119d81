-------------------------- MODULE RateLimiterProofs --------------------------
(***************************************************************************)
(* The rate limiter, for any number of keys and requests and any rate,     *)
(* burst and TTL.                                                          *)
(*                                                                         *)
(* What it promises its clients is not inductive: that a bucket, after     *)
(* whatever happened to it, holds between nothing and Capacity is the      *)
(* typing; that it was last filled when it was last seen is Seen; and      *)
(* Debt says how far a bucket is from the token its key was told to wait   *)
(* for.                                                                    *)
(***************************************************************************)
EXTENDS RateLimiter, TLAPS

\* No reading of the clock, and nothing made of one, is ahead of it.
Past ==
  /\ \A k \in DOMAIN buckets : buckets[k].last <= clock
  /\ \A r \in Requests : call[r] # Idle => call[r].now <= clock

Seen == \A k \in DOMAIN buckets : buckets[k].lastSeen = buckets[k].last

Debt ==
  \A k \in DOMAIN buckets :
    retryAt[k] # -1 =>
      /\ buckets[k].last <= retryAt[k]
      /\ buckets[k].tokens + (retryAt[k] - buckets[k].last) >= Cost

LInv == LimiterTypeOK /\ Past /\ Seen /\ Debt

\* With no time between the reading of the clock and the lock, readings are fresh.
Fresh == \A r \in Requests : call[r] # Idle => call[r].now = clock

USE LimiterConstants DEF Times, Buckets, Calls, Idle

(***************************************************************************)
(* The bucket of golang.org/x/time/rate.                                   *)
(***************************************************************************)

\* A bucket never holds less than nothing nor more than Capacity, whatever reading
\* of the clock it is asked with.
LEMMA LevelBounds ==
  ASSUME NEW b \in Buckets, NEW now \in Nat
  PROVE  Level(b, now) \in 0..Capacity
  BY DEF Level

\* It fills by one with every tick.
LEMMA LevelTicks ==
  ASSUME NEW b \in Buckets, NEW now \in Nat, b.last <= now
  PROVE  Level(b, now + 1) =
           IF Level(b, now) + 1 > Capacity THEN Capacity ELSE Level(b, now) + 1
  BY DEF Level

\* What is left in a bucket by a request, granted or turned away.
Served(b, now) ==
  [tokens   |-> IF Level(b, now) >= Cost THEN Level(b, now) - Cost ELSE Level(b, now),
   last     |-> now,
   lastSeen |-> now]

LEMMA ServedLevel ==
  ASSUME NEW b \in Buckets, NEW now \in Times
  PROVE  /\ Served(b, now) \in Buckets
         /\ Level(Served(b, now), now) = Served(b, now).tokens
<1>1. Level(b, now) \in 0..Capacity
  BY LevelBounds
<1> DEFINE left == IF Level(b, now) >= Cost THEN Level(b, now) - Cost ELSE Level(b, now)
<1>2. left \in 0..Capacity
  BY <1>1
<1>3. Served(b, now) = [tokens |-> left, last |-> now, lastSeen |-> now]
  BY DEF Served
<1> HIDE DEF left
<1> QED
  BY <1>2, <1>3 DEF Level

\* A reservation that is taken back leaves the bucket as full as it was.
LEMMA CancelUndoes ==
  ASSUME NEW b \in Buckets, NEW now \in Times
  PROVE  /\ Wait(b, now) = 0 => Reserve(b, now) = Served(b, now)
         /\ Wait(b, now) > 0 => Cancel(Reserve(b, now)) = Served(b, now)
<1>1. Level(b, now) \in 0..Capacity
  BY LevelBounds
<1>2. Reserve(b, now) = [tokens |-> Level(b, now) - Cost, last |-> now, lastSeen |-> now]
  <2> DEFINE left == Level(b, now) - Cost
  <2>1. Reserve(b, now) = [b EXCEPT !.tokens = left, !.last = now, !.lastSeen = now]
    BY DEF Reserve
  <2> HIDE DEF left
  <2>2. PICK t \in 0..Capacity, l \in Times, s \in Times :
          b = [tokens |-> t, last |-> l, lastSeen |-> s]
    OBVIOUS
  <2>3. Reserve(b, now) = [tokens |-> left, last |-> now, lastSeen |-> now]
    BY <2>1, <2>2
  <2> QED
    BY <2>3 DEF left
<1>3. Wait(b, now) = 0 <=> Level(b, now) >= Cost
  BY <1>1 DEF Wait
<1>4. Cancel(Reserve(b, now)) = [tokens |-> Level(b, now), last |-> now, lastSeen |-> now]
  BY <1>1, <1>2 DEF Cancel
<1>5. Wait(b, now) \in Nat
  BY <1>1 DEF Wait
<1> QED
  BY <1>2, <1>3, <1>4, <1>5 DEF Served

\* Retry-After never sends a client back too early.
LEMMA RetryAfterIsEnough ==
  ASSUME NEW wait \in Nat
  PROVE  RetryAfter(wait) \in Nat /\ RetryAfter(wait) >= wait
<1> DEFINE n == wait + Second - 1
<1>1. n \in Nat /\ Second \in Nat \ {0}
  OBVIOUS
<1>2. n \div Second \in Nat /\ n = Second * (n \div Second) + (n % Second) /\ n % Second \in 0..(Second - 1)
  BY <1>1
<1>3. RetryAfter(wait) = (n \div Second) * Second
  BY DEF RetryAfter
<1> QED
  BY <1>1, <1>2, <1>3

(***************************************************************************)
(* The typing and what strengthens it.                                     *)
(***************************************************************************)

LEMMA SweptKeeps ==
  ASSUME NEW now
  PROVE  /\ DOMAIN Swept(now) \subseteq DOMAIN buckets
         /\ \A k \in DOMAIN Swept(now) : Swept(now)[k] = buckets[k]
  BY DEF Swept

\* What a call of allow comes to, with the key and the reading it began with.
LEMMA AllowOutcome ==
  ASSUME LimiterTypeOK, NEW r \in Requests, Allow(r)
  PROVE  \E k \in Keys, now \in Times, b \in Buckets :
           /\ call[r] = [at |-> "locking", key |-> k, now |-> now]
           /\ b = IF k \in DOMAIN Swept(now) THEN buckets[k] ELSE NewBucket(now)
           /\ buckets' = Put(Swept(now), k, Served(b, now))
           /\ IF Level(b, now) >= Cost
                THEN retryAt' = [retryAt EXCEPT ![k] = -1]
                ELSE retryAt' = [retryAt EXCEPT ![k] = now + RetryAfter(Cost - Level(b, now))]
           /\ lastSweep' \in {lastSweep, now}
           /\ call' = [call EXCEPT ![r] = Idle]
           /\ UNCHANGED clock
<1>1. PICK k \in Keys, now \in Times : call[r] = [at |-> "locking", key |-> k, now |-> now]
  BY DEF LimiterTypeOK, Allow
<1> DEFINE b == IF k \in DOMAIN Swept(now) THEN Swept(now)[k] ELSE NewBucket(now)
<1>2. b = IF k \in DOMAIN Swept(now) THEN buckets[k] ELSE NewBucket(now)
  BY SweptKeeps
<1>3. b \in Buckets
  BY <1>2, SweptKeeps DEF LimiterTypeOK, NewBucket
<1>4. /\ \/ /\ Wait(b, now) = 0
            /\ buckets' = Put(Swept(now), k, Reserve(b, now))
            /\ retryAt' = [retryAt EXCEPT ![k] = -1]
         \/ /\ Wait(b, now) > 0
            /\ buckets' = Put(Swept(now), k, Cancel(Reserve(b, now)))
            /\ retryAt' = [retryAt EXCEPT ![k] = now + RetryAfter(Wait(b, now))]
      /\ lastSweep' \in {lastSweep, now}
      /\ call' = [call EXCEPT ![r] = Idle]
      /\ UNCHANGED clock
  BY <1>1 DEF Allow
<1> HIDE DEF b
<1>5. Level(b, now) \in 0..Capacity
  BY <1>3, LevelBounds
<1>6. /\ Wait(b, now) = 0 => Level(b, now) >= Cost
      /\ Wait(b, now) > 0 => Level(b, now) < Cost /\ Wait(b, now) = Cost - Level(b, now)
  BY <1>5 DEF Wait
<1>7. buckets' = Put(Swept(now), k, Served(b, now))
  BY <1>3, <1>4, CancelUndoes
<1> QED
  BY <1>1, <1>2, <1>3, <1>4, <1>5, <1>6, <1>7

\* The key of the request gets the bucket it left; another keeps its own or loses it.
LEMMA BucketsAfter ==
  ASSUME NEW k, NEW now, NEW b, buckets' = Put(Swept(now), k, b)
  PROVE  /\ DOMAIN buckets' = DOMAIN Swept(now) \cup {k}
         /\ buckets'[k] = b
         /\ \A j \in DOMAIN buckets' \ {k} :
              j \in DOMAIN buckets /\ j \in DOMAIN Swept(now) /\ buckets'[j] = buckets[j]
  BY SweptKeeps DEF Put

LEMMA InitLimiter == LimiterInit => LInv /\ Fresh
  BY DEF LimiterInit, LInv, LimiterTypeOK, Past, Seen, Debt, Fresh

LEMMA AllowKeeps ==
  ASSUME LInv, NEW r \in Requests, Allow(r)
  PROVE  LInv'
<1> USE DEF LInv
<1>1. PICK k \in Keys, now \in Times, b \in Buckets :
        /\ call[r] = [at |-> "locking", key |-> k, now |-> now]
        /\ buckets' = Put(Swept(now), k, Served(b, now))
        /\ IF Level(b, now) >= Cost
             THEN retryAt' = [retryAt EXCEPT ![k] = -1]
             ELSE retryAt' = [retryAt EXCEPT ![k] = now + RetryAfter(Cost - Level(b, now))]
        /\ lastSweep' \in {lastSweep, now}
        /\ call' = [call EXCEPT ![r] = Idle]
        /\ UNCHANGED clock
  BY AllowOutcome
<1>2. /\ DOMAIN buckets' = DOMAIN Swept(now) \cup {k}
      /\ buckets'[k] = Served(b, now)
      /\ \A j \in DOMAIN buckets' \ {k} :
           j \in DOMAIN buckets /\ j \in DOMAIN Swept(now) /\ buckets'[j] = buckets[j]
  BY <1>1, BucketsAfter
<1>3. Served(b, now) \in Buckets
  BY ServedLevel
<1>4. now <= clock
  BY <1>1 DEF Past
<1>5. Level(b, now) \in 0..Capacity
  BY LevelBounds
<1>6. /\ retryAt'[k] # -1 => /\ Level(b, now) < Cost
                             /\ retryAt'[k] = now + RetryAfter(Cost - Level(b, now))
      /\ \A j \in Keys \ {k} : retryAt'[j] = retryAt[j]
      /\ retryAt' \in [Keys -> Int]
  <2>1. CASE Level(b, now) >= Cost
    BY <1>1, <2>1 DEF LimiterTypeOK
  <2>2. CASE ~(Level(b, now) >= Cost)
    <3>1. Cost - Level(b, now) \in Nat
      BY <1>5, <2>2
    <3>2. RetryAfter(Cost - Level(b, now)) \in Nat
      BY <3>1, RetryAfterIsEnough
    <3> QED
      BY <1>1, <1>5, <2>2, <3>2 DEF LimiterTypeOK
  <2> QED
    BY <2>1, <2>2
<1>7. LimiterTypeOK'
  <2>1. DOMAIN buckets' \subseteq Keys /\ \A j \in DOMAIN buckets' : buckets'[j] \in Buckets
    BY <1>2, <1>3 DEF LimiterTypeOK
  <2>2. call' \in [Requests -> Calls]
    BY <1>1 DEF LimiterTypeOK
  <2> QED
    BY <1>1, <1>6, <2>1, <2>2 DEF LimiterTypeOK
<1>8. Past'
  BY <1>1, <1>2, <1>4 DEF Past, Served, LimiterTypeOK
<1>9. Seen'
  BY <1>2 DEF Seen, Served
<1>10. Debt'
  <2> SUFFICES ASSUME NEW j \in DOMAIN buckets', retryAt'[j] # -1
               PROVE  /\ buckets'[j].last <= retryAt'[j]
                      /\ buckets'[j].tokens + (retryAt'[j] - buckets'[j].last) >= Cost
    BY DEF Debt
  <2>1. CASE j = k
    <3>1. /\ Cost - Level(b, now) \in Nat
          /\ retryAt'[k] = now + RetryAfter(Cost - Level(b, now))
      BY <1>5, <1>6, <2>1
    <3>2. /\ RetryAfter(Cost - Level(b, now)) \in Nat
          /\ RetryAfter(Cost - Level(b, now)) >= Cost - Level(b, now)
      BY <3>1, RetryAfterIsEnough
    <3>3. buckets'[k].last = now /\ buckets'[k].tokens = Level(b, now)
      BY <1>2, <1>5, <1>6, <2>1 DEF Served
    <3> QED
      BY <1>5, <2>1, <3>1, <3>2, <3>3
  <2>2. CASE j # k
    BY <1>2, <1>6, <2>2 DEF Debt, LimiterTypeOK
  <2> QED
    BY <2>1, <2>2
<1> QED
  BY <1>7, <1>8, <1>9, <1>10

LEMMA LimiterStep == LInv /\ [LimiterNext]_limiterVars => LInv'
<1> SUFFICES ASSUME LInv, [LimiterNext]_limiterVars PROVE LInv'
  OBVIOUS
<1> USE DEF LInv, LimiterTypeOK, Past, Seen, Debt
<1>1. CASE Elapse
  BY <1>1 DEF Elapse
<1>2. ASSUME NEW r \in Requests, NEW k \in Keys, ReadClock(r, k)
      PROVE  LInv'
  BY <1>2 DEF ReadClock
<1>3. CASE UNCHANGED limiterVars
  BY <1>3 DEF limiterVars
<1> QED
  BY <1>1, <1>2, <1>3, AllowKeeps DEF LimiterNext

LEMMA LimiterKept == LimiterSpec => []LInv
  BY InitLimiter, LimiterStep, PTL DEF LimiterSpec

\* What a request leaves behind is a bucket of this limiter: between nothing and
\* Capacity, also after a reservation that ran into debt was cancelled (allow).
THEOREM LimiterTyped == LimiterSpec => []LimiterTypeOK
  BY LimiterKept, PTL DEF LInv

\* Whoever waits as long as Retry-After says finds a token, unless another request
\* of the same key took it: also with a clock read before the wait for the lock.
THEOREM RetryAfterKept == LimiterSpec => []RetryAfterHonest
<1>1. LInv => RetryAfterHonest
  <2> SUFFICES ASSUME LInv, NEW k \in Keys, retryAt[k] # -1, clock >= retryAt[k]
               PROVE  LevelNow(k) >= Cost
    BY DEF RetryAfterHonest
  <2> QED
    BY DEF LInv, LimiterTypeOK, Past, Debt, LevelNow, Level
<1> QED
  BY <1>1, LimiterKept, PTL

\* A bucket last seen TTL ago was last filled then, and has refilled since.
LEMMA IdleRefilled ==
  ASSUME Capacity <= TTL
  PROVE  LInv => IdleIsFull
<1> SUFFICES ASSUME LInv, NEW k \in DOMAIN buckets, clock - buckets[k].lastSeen >= TTL
             PROVE  LevelNow(k) = Capacity
  BY DEF IdleIsFull
<1> QED
  BY DEF LInv, LimiterTypeOK, Past, Seen, LevelNow, Level

\* If a full burst refills within bucketTTL, an idle bucket is a full one (the comment
\* on bucketTTL, "so forgetting it is free").
THEOREM IdleRefills ==
  ASSUME Capacity <= TTL
  PROVE  LimiterSpec => []IdleIsFull
  BY IdleRefilled, LimiterKept, PTL

(***************************************************************************)
(* The refinement of TokenBucket.                                          *)
(***************************************************************************)

LEMMA StepFresh ==
  ASSUME ~Preempted
  PROVE  LInv /\ Fresh /\ [LimiterNext]_limiterVars => Fresh'
<1> SUFFICES ASSUME LInv, Fresh, [LimiterNext]_limiterVars PROVE Fresh'
  OBVIOUS
<1> USE DEF LInv, LimiterTypeOK, Fresh
<1>1. CASE Elapse
  BY <1>1 DEF Elapse
<1>2. ASSUME NEW r \in Requests, NEW k \in Keys, ReadClock(r, k)
      PROVE  Fresh'
  BY <1>2 DEF ReadClock
<1>3. ASSUME NEW r \in Requests, Allow(r)
      PROVE  Fresh'
  <2>1. call' = [call EXCEPT ![r] = Idle] /\ clock' = clock
    BY <1>3 DEF Allow
  <2> QED
    BY <2>1
<1>4. CASE UNCHANGED limiterVars
  BY <1>4 DEF limiterVars
<1> QED
  BY <1>1, <1>2, <1>3, <1>4 DEF LimiterNext

LEMMA FreshKept ==
  ASSUME ~Preempted
  PROVE  LimiterSpec => [](LInv /\ Fresh)
<1>1. LInv /\ Fresh /\ [LimiterNext]_limiterVars => LInv' /\ Fresh'
  BY LimiterStep, StepFresh
<1> QED
  BY <1>1, InitLimiter, PTL DEF LimiterSpec

Held == [k \in Keys |-> LevelNow(k)]

\* Every bucket, known or forgotten, fills by one with a tick.
LEMMA ElapseMaps ==
  ASSUME LInv, Elapse
  PROVE  Held' = [k \in Keys |-> Promised!Filled(Held[k] + 1)]
<1> SUFFICES ASSUME NEW k \in Keys
             PROVE  LevelNow(k)' = Promised!Filled(LevelNow(k) + 1)
  BY DEF Held
<1>1. CASE k \in DOMAIN buckets
  <2>1. buckets[k] \in Buckets /\ clock \in Nat /\ buckets[k].last <= clock
    BY <1>1 DEF LInv, LimiterTypeOK, Past
  <2>2. /\ LevelNow(k) = Level(buckets[k], clock)
        /\ LevelNow(k)' = Level(buckets[k], clock + 1)
    BY <1>1 DEF LevelNow, Elapse, Level
  <2> QED
    BY <2>1, <2>2, LevelTicks DEF Promised!Filled
<1>2. CASE k \notin DOMAIN buckets
  BY <1>2 DEF LevelNow, Elapse, Promised!Filled
<1> QED
  BY <1>1, <1>2

\* A sweep shows in no bucket: one it drops was full.
LEMMA SweepShowsNot ==
  ASSUME LInv, IdleIsFull, NEW k \in Keys, k \notin DOMAIN Swept(clock)
  PROVE  LevelNow(k) = Capacity
<1>1. CASE k \in DOMAIN buckets
  <2>1. clock - buckets[k].lastSeen >= TTL
    BY <1>1 DEF Swept, LInv, LimiterTypeOK
  <2> QED
    BY <1>1, <2>1 DEF IdleIsFull
<1>2. CASE k \notin DOMAIN buckets
  BY <1>2 DEF LevelNow
<1> QED
  BY <1>1, <1>2

\* A request spends from the bucket of its key if there is a token, and else nothing.
LEMMA AllowMaps ==
  ASSUME LInv, Fresh, IdleIsFull, NEW r \in Requests, Allow(r)
  PROVE  \/ Held' = Held
         \/ \E k \in Keys : Held[k] >= Cost /\ Held' = [Held EXCEPT ![k] = @ - Cost]
<1> USE DEF LInv
<1>1. PICK k \in Keys, now \in Times, b \in Buckets :
        /\ call[r] = [at |-> "locking", key |-> k, now |-> now]
        /\ b = IF k \in DOMAIN Swept(now) THEN buckets[k] ELSE NewBucket(now)
        /\ buckets' = Put(Swept(now), k, Served(b, now))
        /\ UNCHANGED clock
  BY AllowOutcome
<1>2. now = clock /\ clock' = clock
  BY <1>1 DEF Fresh
<1>3. /\ DOMAIN buckets' = DOMAIN Swept(clock) \cup {k}
      /\ buckets'[k] = Served(b, clock)
      /\ \A j \in DOMAIN buckets' \ {k} :
           j \in DOMAIN buckets /\ j \in DOMAIN Swept(clock) /\ buckets'[j] = buckets[j]
  <2>1. buckets' = Put(Swept(clock), k, Served(b, clock))
    BY <1>1, <1>2
  <2> QED
    BY <2>1, BucketsAfter
<1>4. Level(b, clock) \in 0..Capacity
  BY <1>2, LevelBounds
<1>5. LevelNow(k) = Level(b, clock)
  <2>1. CASE k \in DOMAIN Swept(clock)
    BY <1>1, <1>2, <2>1, SweptKeeps DEF LevelNow
  <2>2. CASE k \notin DOMAIN Swept(clock)
    <3>1. LevelNow(k) = Capacity
      BY <2>2, SweepShowsNot
    <3>2. b = NewBucket(clock)
      BY <1>1, <1>2, <2>2
    <3>3. Level(NewBucket(clock), clock) = Capacity
      BY <1>2 DEF Level, NewBucket
    <3> QED
      BY <3>1, <3>2, <3>3
  <2> QED
    BY <2>1, <2>2
<1>6. LevelNow(k)' = IF Level(b, clock) >= Cost THEN Level(b, clock) - Cost ELSE Level(b, clock)
  <2>1. LevelNow(k)' = Level(Served(b, clock), clock)
    BY <1>2, <1>3 DEF LevelNow, Level
  <2>2. Level(Served(b, clock), clock) = Served(b, clock).tokens
    BY <1>2, ServedLevel
  <2> QED
    BY <2>1, <2>2 DEF Served
<1>7. ASSUME NEW j \in Keys \ {k}
      PROVE  LevelNow(j)' = LevelNow(j)
  <2>1. CASE j \in DOMAIN Swept(clock)
    BY <1>2, <1>3, <2>1 DEF LevelNow, Level
  <2>2. CASE j \notin DOMAIN Swept(clock)
    <3>1. j \notin DOMAIN buckets'
      BY <1>3, <2>2
    <3>2. LevelNow(j)' = Capacity
      BY <3>1 DEF LevelNow
    <3> QED
      BY <2>2, <3>2, SweepShowsNot
  <2> QED
    BY <2>1, <2>2
<1>8. CASE Level(b, clock) >= Cost
  <2>1. Held[k] >= Cost /\ Held' = [Held EXCEPT ![k] = @ - Cost]
    BY <1>5, <1>6, <1>7, <1>8 DEF Held
  <2> QED
    BY <2>1
<1>9. CASE ~(Level(b, clock) >= Cost)
  <2>1. Held' = Held
    BY <1>5, <1>6, <1>7, <1>9 DEF Held
  <2> QED
    BY <2>1
<1> QED
  BY <1>8, <1>9

LEMMA LimiterMaps ==
  ASSUME LInv, Fresh, IdleIsFull, [LimiterNext]_limiterVars
  PROVE  [Promised!BucketNext]_Held
<1> USE DEF Promised!BucketNext
<1>1. CASE Elapse
  BY <1>1, ElapseMaps DEF Promised!Tick, Held
<1>2. ASSUME NEW r \in Requests, Allow(r)
      PROVE  [Promised!BucketNext]_Held
  BY <1>2, AllowMaps DEF Promised!Grant, Held
<1>3. ASSUME NEW r \in Requests, NEW k \in Keys, ReadClock(r, k)
      PROVE  Held' = Held
  BY <1>3 DEF ReadClock, Held, LevelNow, Level
<1>4. CASE UNCHANGED limiterVars
  BY <1>4 DEF limiterVars, Held, LevelNow, Level
<1> QED
  BY <1>1, <1>2, <1>3, <1>4 DEF LimiterNext

\* The limiter hands out what token buckets that are never forgotten would, no more
\* and no less, if a full burst refills within bucketTTL and no time passes between the
\* reading of the clock and the lock.
THEOREM BucketsPromised ==
  ASSUME Capacity <= TTL, ~Preempted
  PROVE  LimiterSpec => ImplementsBuckets
<1>1. LimiterInit => Promised!BucketInit
  BY DEF LimiterInit, Promised!BucketInit, LevelNow
<1>2. LInv /\ Fresh /\ [LimiterNext]_limiterVars
        => [Promised!BucketNext]_([k \in Keys |-> LevelNow(k)])
  BY LimiterMaps, IdleRefilled DEF Held
<1> QED
  BY <1>1, <1>2, FreshKept, PTL DEF LimiterSpec, ImplementsBuckets, Promised!BucketSpec
=============================================================================

----------------------------- MODULE RateLimiter -----------------------------
(***************************************************************************)
(* keyedLimiter: a token bucket per key, made when the key shows up and    *)
(* swept away when it was idle for bucketTTL.  The buckets themselves are  *)
(* golang.org/x/time/rate; Reserve and Cancel say what its ReserveN and    *)
(* CancelAt do for one token.                                              *)
(*                                                                         *)
(* Time is counted in ticks and tokens in the ticks they take to refill:   *)
(* a token is worth Cost = 1/rate, a full bucket Capacity = burst/rate.    *)
(***************************************************************************)
EXTENDS Integers, FiniteSets

CONSTANTS
  Keys,       \* client addresses, or users
  Requests,   \* bound: the requests that may be in the limiter at one time
  Cost,       \* ticks to refill one token
  Capacity,   \* ticks to refill an empty bucket
  TTL,        \* bucketTTL
  Second,     \* ticks in a second, the unit of Retry-After
  MaxClock,   \* bound: ticks that pass
  Preempted   \* whether time may pass between the reading of the clock and the lock

\* RATE_LIMIT_* may be anything: nothing keeps a full bucket under bucketTTL.
ASSUME LimiterConstants ==
  /\ Cost \in Nat \ {0}
  /\ Capacity \in Nat /\ Cost <= Capacity
  /\ TTL \in Nat
  /\ Second \in Nat \ {0}
  /\ MaxClock \in Nat
  /\ Preempted \in BOOLEAN

VARIABLES
  clock,      \* the time
  buckets,    \* keyedLimiter.buckets, a function on the keys it knows
  lastSweep,  \* keyedLimiter.lastSweep
  call,       \* call[r]: the key and the reading of the clock of a call of allow
  retryAt     \* retryAt[k]: auxiliary, when k was last told to come back, or -1

limiterVars == <<clock, buckets, lastSweep, call, retryAt>>

Times == 0..MaxClock
Idle == [at |-> "idle"]
Calls == {Idle} \cup [at : {"locking"}, key : Keys, now : Times]
Buckets == [tokens : 0..Capacity, last : Times, lastSeen : Times]

LimiterTypeOK ==
  /\ clock \in Times
  /\ DOMAIN buckets \subseteq Keys
  /\ \A k \in DOMAIN buckets : buckets[k] \in Buckets
  /\ lastSweep \in Times
  /\ call \in [Requests -> Calls]
  /\ retryAt \in [Keys -> Int]

LimiterInit ==
  /\ clock = 0
  /\ buckets = [k \in {} |-> {}]
  /\ lastSweep = 0
  /\ call = [r \in Requests |-> Idle]
  /\ retryAt = [k \in Keys |-> -1]
-----------------------------------------------------------------------------
(***************************************************************************)
(* Fault variants.                                                         *)
(***************************************************************************)

\* The reservation of a request that is turned away is kept.
CancelForgotten(b) == b

\* Every bucket is dropped, idle or not.
SweptAll(now) ==
  IF now - lastSweep < TTL THEN buckets ELSE [k \in {} |-> {}]

\* Retry-After is rounded down.
RetryAfterFloor(wait) == (wait \div Second) * Second
-----------------------------------------------------------------------------
(***************************************************************************)
(* rate.Limiter                                                            *)
(***************************************************************************)
NewBucket(now) == [tokens |-> Capacity, last |-> now, lastSeen |-> now]

\* advance: a time before the last one counts as no time passed.
Level(b, now) ==
  LET elapsed == IF now < b.last THEN 0 ELSE now - b.last
  IN IF b.tokens + elapsed > Capacity THEN Capacity ELSE b.tokens + elapsed

\* How long a reservation has to wait: not at all if there is a token.
Wait(b, now) == IF Level(b, now) >= Cost THEN 0 ELSE Cost - Level(b, now)

\* ReserveN(now, 1), which may leave a debt, and CancelAt(now), which undoes it.
Reserve(b, now) ==
  [b EXCEPT !.tokens = Level(b, now) - Cost, !.last = now, !.lastSeen = now]

Cancel(b) == [b EXCEPT !.tokens = @ + Cost]
-----------------------------------------------------------------------------
(***************************************************************************)
(* keyedLimiter.allow                                                      *)
(***************************************************************************)

\* sweep: the buckets it leaves.
Swept(now) ==
  IF now - lastSweep < TTL THEN buckets
  ELSE [k \in {j \in DOMAIN buckets : now - buckets[j].lastSeen < TTL} |-> buckets[k]]

\* respondTooManyRequests: whole seconds, rounded up.
RetryAfter(wait) == ((wait + Second - 1) \div Second) * Second

\* now := time.Now(), before the lock is taken.
ReadClock(r, k) ==
  /\ call[r] = Idle
  /\ call' = [call EXCEPT ![r] = [at |-> "locking", key |-> k, now |-> clock]]
  /\ UNCHANGED <<clock, buckets, lastSweep, retryAt>>

Put(bs, k, b) == [j \in DOMAIN bs \cup {k} |-> IF j = k THEN b ELSE bs[j]]

\* The rest of allow, under the lock.
Allow(r) ==
  /\ call[r] # Idle
  /\ LET k    == call[r].key
         now  == call[r].now
         kept == Swept(now)
         b    == IF k \in DOMAIN kept THEN kept[k] ELSE NewBucket(now)
         wait == Wait(b, now)
     IN /\ \/ /\ wait = 0
              /\ buckets' = Put(kept, k, Reserve(b, now))
              /\ retryAt' = [retryAt EXCEPT ![k] = -1]
           \/ /\ wait > 0
              /\ buckets' = Put(kept, k, Cancel(Reserve(b, now)))
              /\ retryAt' = [retryAt EXCEPT ![k] = now + RetryAfter(wait)]
        /\ lastSweep' = IF now - lastSweep < TTL THEN lastSweep ELSE now
  /\ call' = [call EXCEPT ![r] = Idle]
  /\ UNCHANGED clock

\* Time passes.
Elapse ==
  /\ clock < MaxClock
  /\ Preempted \/ \A r \in Requests : call[r] = Idle
  /\ clock' = clock + 1
  /\ UNCHANGED <<buckets, lastSweep, call, retryAt>>

LimiterNext ==
  \/ Elapse
  \/ \E r \in Requests : Allow(r) \/ \E k \in Keys : ReadClock(r, k)

LimiterSpec == LimiterInit /\ [][LimiterNext]_limiterVars
-----------------------------------------------------------------------------
(***************************************************************************)
(* Properties.                                                             *)
(***************************************************************************)

\* What the limiter would find in the bucket of k now.
LevelNow(k) == IF k \in DOMAIN buckets THEN Level(buckets[k], clock) ELSE Capacity

\* The limiter never hands out a token the promised buckets do not hold, and
\* withholds none: forgetting an idle bucket is free (the comment on bucketTTL),
\* and so is a request that is turned away (the comment in allow).
Promised == INSTANCE TokenBucket WITH level <- [k \in Keys |-> LevelNow(k)]

ImplementsBuckets == Promised!BucketSpec

\* A key that comes back when Retry-After told it to is served, unless another
\* request of the key came in between (allow and respondTooManyRequests).
RetryAfterHonest ==
  \A k \in Keys : retryAt[k] # -1 /\ clock >= retryAt[k] => LevelNow(k) >= Cost

\* A bucket that was idle for bucketTTL has refilled, whatever became of the
\* requests before (the comment on bucketTTL, "so forgetting it is free").  It
\* takes a burst that refills within bucketTTL: Capacity <= TTL.
IdleIsFull ==
  \A k \in DOMAIN buckets :
    clock - buckets[k].lastSeen >= TTL => LevelNow(k) = Capacity
=============================================================================

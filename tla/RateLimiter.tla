----------------------------- MODULE RateLimiter -----------------------------
(***************************************************************************)
(* The rate limiter (rate_limiter.go) behind RateLimitMiddleware.  The     *)
(* whole of AllowRequest runs under one mutex and reads the clock inside   *)
(* it, so a request is one step: sweep, capacity check with eviction, and  *)
(* the client's token bucket (golang.org/x/time/rate).                     *)
(*                                                                         *)
(* The rate is Requests per Window ticks.  Tokens are counted in units of  *)
(* which Requests flow in per tick and a request costs Window, so that     *)
(* every amount the code keeps as a float64 is a whole number.             *)
(***************************************************************************)
EXTENDS Integers, FiniteSets

CONSTANTS
    Clients,        \* client keys
    Nil,            \* no bucket
    Requests, Window, Burst,   \* RateSpec
    SweepInterval,  \* rateLimiterSweepInterval
    MinBucketTTL,   \* rateLimiterMinBucketTTL
    IdleAge,        \* rateLimiterSaturationIdleAge
    MaxBuckets,     \* rateLimiterMaxBuckets
    Second,         \* ticks in a second, which has a whole half
    MaxTime         \* bound on the clock

ASSUME SpecAssumption ==
    /\ Requests \in Nat \ {0} /\ Window \in Nat \ {0} /\ Burst \in Nat \ {0}
    /\ SweepInterval \in Nat /\ MinBucketTTL \in Nat /\ IdleAge \in Nat
    /\ MaxBuckets \in Nat /\ Second \in Nat \ {0} /\ Second % 2 = 0 /\ MaxTime \in Nat

\* Nil is neither a time nor a bucket.
ASSUME NilAssumption ==
    Nil \notin Nat /\ Nil \notin [tokens : Nat, last : Nat, lastSeen : Nat]

VARIABLES
    now,        \* the monotonic clock, 0 being the zero time.Time
    lastSweep,
    buckets,    \* the map, Nil where it has no entry
    reply,      \* the last answer of the middleware
    promise     \* history: when a refused client was told to come back

vars == <<now, lastSweep, buckets, reply, promise>>

-----------------------------------------------------------------------------
\* Units in a full bucket.
Cap == Burst * Window

AtMost(a, b)  == IF a =< b THEN a ELSE b
AtLeast(a, b) == IF a >= b THEN a ELSE b

\* Mutant: a bucket is forgotten after a single window.
BucketTTLOneWindow == AtLeast(Window, MinBucketTTL)

\* rateBucketTTL
BucketTTL == AtLeast(2 * Window, MinBucketTTL)

\* TokensAt and the advance of rate.Limiter: what is in a bucket at time t.
LevelAt(b, t) == AtMost(Cap, b.tokens + (t - b.last) * Requests)

\* rate.NewLimiter: the first advance from the zero time fills the bucket.
NewBucket == [tokens |-> Cap, last |-> now, lastSeen |-> now]

\* AllowN(now, 1): pay, or leave the limiter as it is.
Allow(b) == LevelAt(b, now) >= Window
Pay(b)   == [b EXCEPT !.tokens = LevelAt(b, now) - Window, !.last = now]

Known(bs) == {c \in Clients : bs[c] # Nil}

\* sweepExpiredBuckets
SweepDue == lastSweep = 0 \/ now - lastSweep >= SweepInterval
Swept ==
    [c \in Clients |-> IF /\ SweepDue /\ buckets[c] # Nil
                          /\ now - buckets[c].lastSeen >= BucketTTL
                       THEN Nil ELSE buckets[c]]

\* Mutant: off by one.
HasRoomForOneMore(bs) == MaxBuckets = 0 \/ Cardinality(Known(bs)) =< MaxBuckets

\* ensureBucketCapacity: room, or the bucket that has been idle longest (any of
\* them, as the iteration order of a map decides between equals).
HasRoom(bs) == MaxBuckets = 0 \/ Cardinality(Known(bs)) < MaxBuckets
Idle(bs)    == {c \in Known(bs) : now - bs[c].lastSeen >= IdleAge}
Oldest(bs)  == {c \in Idle(bs) : \A d \in Idle(bs) : bs[c].lastSeen =< bs[d].lastSeen}

\* fmt "%.0f" rounds n/d to the nearest whole number, and half to even.
RoundHalfEven(n, d) ==
    LET q == n \div d
        r == n % d
    IN IF 2 * r < d \/ (2 * r = d /\ q % 2 = 0) THEN q ELSE q + 1

\* Mutant: what is in the bucket is taken for what is missing.
RetryAfterTooSoon(level) ==
    RoundHalfEven(AtLeast(level, Second * Requests), Second * Requests)

\* The retry duration of AllowRequest, at least a second, as the middleware's
\* Retry-After header prints it, in seconds.
RetryAfter(level) ==
    RoundHalfEven(AtLeast(Window - level, Second * Requests), Second * Requests)

-----------------------------------------------------------------------------
\* The client's bucket, found or made, decides; lastSeen is set either way.
Decide(c, bs) ==
    LET b == [(IF bs[c] = Nil THEN NewBucket ELSE bs[c]) EXCEPT !.lastSeen = now] IN
    IF Allow(b)
    THEN /\ buckets' = [bs EXCEPT ![c] = Pay(b)]
         /\ reply' = [answer |-> "next", retryAfter |-> 0]
         /\ promise' = [promise EXCEPT ![c] = Nil]
    ELSE LET wait == RetryAfter(LevelAt(b, now)) IN
         /\ buckets' = [bs EXCEPT ![c] = b]
         /\ reply' = [answer |-> "limited", retryAfter |-> wait]
         /\ promise' = [promise EXCEPT ![c] = now + wait * Second + Second \div 2]

\* AllowRequest, called by the middleware for a request of client c.
AllowRequest(c) ==
    /\ lastSweep' = IF SweepDue THEN now ELSE lastSweep
    /\ \/ /\ Swept[c] # Nil \/ HasRoom(Swept)
          /\ Decide(c, Swept)
       \/ /\ Swept[c] = Nil /\ ~HasRoom(Swept)
          /\ \E d \in Oldest(Swept) : Decide(c, [Swept EXCEPT ![d] = Nil])
       \/ /\ Swept[c] = Nil /\ ~HasRoom(Swept) /\ Oldest(Swept) = {}
          /\ buckets' = Swept
          /\ reply' = [answer |-> "saturated", retryAfter |-> 1]
          /\ promise' = [promise EXCEPT ![c] = Nil]
    /\ UNCHANGED now

\* Health checks and static assets pass the middleware without the limiter.
PassExempt(c) ==
    /\ reply' = [answer |-> "next", retryAfter |-> 0]
    /\ UNCHANGED <<now, lastSweep, buckets, promise>>

Tick ==
    /\ now < MaxTime
    /\ now' = now + 1
    /\ UNCHANGED <<lastSweep, buckets, reply, promise>>

Init ==
    /\ now = 1 /\ lastSweep = 0
    /\ buckets = [c \in Clients |-> Nil]
    /\ reply = [answer |-> "none", retryAfter |-> 0]
    /\ promise = [c \in Clients |-> Nil]

Next == Tick \/ \E c \in Clients : AllowRequest(c) \/ PassExempt(c)

Spec == Init /\ [][Next]_vars

-----------------------------------------------------------------------------
(* Properties *)

\* The map never outgrows maxBuckets, however many client keys show up, and no
\* bucket is overdrawn or overfull, however long it was left alone.
BucketsBounded ==
    /\ MaxBuckets > 0 => Cardinality(Known(buckets)) =< MaxBuckets
    /\ \A c \in Known(buckets) : buckets[c].tokens \in 0..Cap

\* Forgetting buckets lifts the limit no further than the code means to: the
\* sweep gives a client at most what it would not have regained in two windows
\* and the least TTL, and nothing where a bucket fills up in that time, and an
\* eviction at most what it would not have regained in IdleAge.  Apart from that
\* a client is admitted exactly as by a token bucket that exists for ever.
Buckets == INSTANCE TokenBuckets WITH
    SweepAge <- IF 2 * Window >= MinBucketTTL THEN 2 * Window ELSE MinBucketTTL,
    level <- [c \in Clients |-> IF buckets[c] = Nil THEN Cap ELSE LevelAt(buckets[c], now)]

ImplementsTokenBuckets == Buckets!Spec

\* A client that waits as long as Retry-After says, and half a second more
\* because the header is rounded, is not limited by its bucket again.
RetryAfterHonoured ==
    [][\A c \in Clients : AllowRequest(c) /\ promise[c] # Nil /\ now >= promise[c] =>
          reply'.answer # "limited"]_vars
=============================================================================

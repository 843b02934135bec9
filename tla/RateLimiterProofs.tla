-------------------------- MODULE RateLimiterProofs --------------------------
(***************************************************************************)
(* The rate limiter for every rate, table size and number of clients: its  *)
(* table stays bounded, forgetting buckets admits no more requests than    *)
(* TokenBuckets says, and a client that waits as it was told is served.    *)
(***************************************************************************)
EXTENDS RateLimiter, FiniteSetTheorems, TLAPS

Bucket == [tokens : 0..Cap, last : Nat, lastSeen : Nat]

\* A table of buckets, none of them used or seen after now.
Table(bs) ==
    /\ bs \in [Clients -> Bucket \cup {Nil}]
    /\ \A c \in Known(bs) : bs[c].last =< bs[c].lastSeen /\ bs[c].lastSeen =< now

\* A finite table that respects MaxBuckets.
Bounded(bs) ==
    /\ IsFiniteSet(Known(bs))
    /\ MaxBuckets > 0 => Cardinality(Known(bs)) =< MaxBuckets

\* A bucket holds the price of a request when the client was told to come back.
PromiseInv ==
    /\ promise \in [Clients -> Nat \cup {Nil}]
    /\ \A c \in Known(buckets) : promise[c] # Nil =>
          buckets[c].tokens + (promise[c] - buckets[c].last) * Requests >= Window

Inv == now \in Nat /\ lastSweep \in Nat /\ Table(buckets) /\ Bounded(buckets) /\ PromiseInv

-----------------------------------------------------------------------------
(* Arithmetic *)

\* Products of natural numbers are natural and grow with their factors.
LEMMA TimesNat == ASSUME NEW m \in Nat, NEW n \in Nat PROVE m * n \in Nat
BY SMT

\* The first factor.
LEMMA TimesMonotone ==
    ASSUME NEW m \in Nat, NEW n \in Nat, NEW k \in Nat, m =< n PROVE m * k =< n * k
<1>1. n = m + (n - m) /\ n - m \in Nat
  OBVIOUS
<1>2. n * k = m * k + (n - m) * k
  BY <1>1, SMT
<1>3. m * k \in Nat /\ (n - m) * k \in Nat
  BY <1>1, TimesNat
<1> QED
  BY <1>2, <1>3, SMT

\* A sum as a factor.
LEMMA Distribute ==
    ASSUME NEW a \in Int, NEW b \in Int, NEW k \in Int PROVE (a + b) * k = a * k + b * k
BY SMT

\* A full bucket holds the price of a request.
LEMMA CapPays == Cap \in Nat /\ Window \in Nat /\ Window =< Cap
<1>1. 1 * Window =< Burst * Window
  BY SpecAssumption, TimesMonotone
<1>2. Burst * Window \in Nat /\ Window \in Nat
  BY SpecAssumption, TimesNat
<1> QED
  BY <1>1, <1>2, SMT DEF Cap

\* RoundHalfEven is off by half a divisor at most.
LEMMA RoundClose ==
    ASSUME NEW n \in Nat, NEW d \in Nat \ {0}
    PROVE  RoundHalfEven(n, d) \in Nat /\ 2 * (RoundHalfEven(n, d) * d) + d >= 2 * n
<1> DEFINE q == n \div d
           r == n % d
<1>1. q \in Nat /\ r \in 0..(d - 1) /\ n = d * q + r
  BY SMT
<1>2. RoundHalfEven(n, d) = (IF 2 * r < d \/ (2 * r = d /\ q % 2 = 0) THEN q ELSE q + 1)
  BY DEF RoundHalfEven
<1> HIDE DEF q, r
<1>3. q * d = d * q /\ q * d \in Nat /\ (q + 1) * d = q * d + d
  BY <1>1, SMT
<1>4. CASE 2 * r < d \/ (2 * r = d /\ q % 2 = 0)
  <2>1. RoundHalfEven(n, d) = q
    BY <1>2, <1>4
  <2> QED
    BY <2>1, <1>1, <1>3, <1>4, SMT
<1>5. CASE ~(2 * r < d \/ (2 * r = d /\ q % 2 = 0))
  <2>1. RoundHalfEven(n, d) = q + 1
    BY <1>2, <1>5
  <2> QED
    BY <2>1, <1>1, <1>3, SMT
<1> QED
  BY <1>4, <1>5

\* What flows in until half a second after Retry-After is what was missing.
LEMMA RetryAfterSuffices ==
    ASSUME NEW level \in Nat, level < Window
    PROVE  LET wait == RetryAfter(level)
           IN  /\ wait \in Nat
               /\ (wait * Second + Second \div 2) * Requests >= Window - level
<1> DEFINE wait == RetryAfter(level)
           d == Second * Requests
           n == AtLeast(Window - level, d)
           h == Second \div 2
<1>1. d \in Nat \ {0} /\ Requests \in Nat \ {0}
  BY SpecAssumption, SMT
<1>2. h \in Nat /\ Second = 2 * h
  BY SpecAssumption, SMT
<1>3. n \in Nat /\ n >= Window - level
  BY <1>1, SpecAssumption, SMT DEF AtLeast
<1>4. wait = RoundHalfEven(n, d)
  BY DEF RetryAfter
<1> HIDE DEF n, wait
<1>5. wait \in Nat /\ 2 * (wait * d) + d >= 2 * n
  BY <1>1, <1>3, <1>4, RoundClose
<1> HIDE DEF h
<1>6. d = 2 * (h * Requests) /\ h * Requests \in Nat /\ wait * d \in Nat
  BY <1>1, <1>2, <1>5, TimesNat, SMT
<1>7. (wait * Second + h) * Requests = (wait * Second) * Requests + h * Requests
  BY <1>1, <1>2, <1>5, Distribute, SMT
<1>8. (wait * Second) * Requests = wait * d
  BY <1>1, <1>2, <1>5, SMT
<1>9. wait * d + h * Requests >= Window - level
  BY <1>3, <1>5, <1>6, SpecAssumption, SMT
<1> QED
  BY <1>5, <1>7, <1>8, <1>9 DEF wait, h

-----------------------------------------------------------------------------
(* Buckets *)

\* A bucket is no Nil.
LEMMA BucketNotNil == Nil \notin Bucket
<1>1. Cap \in Nat
  BY CapPays
<1> QED
  BY <1>1, NilAssumption DEF Bucket

\* What a bucket holds at a time after its last use.
LEMMA LevelBounds ==
    ASSUME NEW b \in Bucket, NEW t \in Nat, b.last =< t
    PROVE  /\ LevelAt(b, t) \in 0..Cap
           /\ LevelAt(b, t) >= AtMost(Cap, (t - b.last) * Requests)
           /\ LevelAt(b, t) =< b.tokens + (t - b.last) * Requests
           /\ LevelAt(b, t) < Window => LevelAt(b, t) = b.tokens + (t - b.last) * Requests
<1>1. (t - b.last) * Requests \in Nat
  BY SpecAssumption, TimesNat DEF Bucket
<1>2. b.tokens \in 0..Cap /\ Cap \in Nat /\ Window \in Nat /\ Window =< Cap
  BY CapPays DEF Bucket
<1> QED
  BY <1>1, <1>2, SMT DEF LevelAt, AtMost

\* A tick fills a bucket by Requests units.
LEMMA LevelTick ==
    ASSUME NEW b \in Bucket, NEW t \in Nat, b.last =< t
    PROVE  LevelAt(b, t + 1) = AtMost(Cap, LevelAt(b, t) + Requests)
<1>1. (t - b.last) * Requests \in Nat /\ Requests \in Nat
  BY SpecAssumption, TimesNat DEF Bucket
<1>2. ((t + 1) - b.last) * Requests = (t - b.last) * Requests + Requests
  <2>1. (t + 1) - b.last = (t - b.last) + 1 /\ t - b.last \in Int
    BY DEF Bucket
  <2>2. ((t - b.last) + 1) * Requests = (t - b.last) * Requests + 1 * Requests
    BY <2>1, <1>1, Distribute
  <2> QED
    BY <2>1, <2>2, <1>1
<1>3. b.tokens \in 0..Cap /\ Cap \in Nat
  BY CapPays DEF Bucket
<1> QED
  BY <1>1, <1>2, <1>3, SMT DEF LevelAt, AtMost

\* A new bucket is full.
LEMMA NewBucketFull ==
    ASSUME now \in Nat
    PROVE  NewBucket \in Bucket /\ LevelAt(NewBucket, now) = Cap
<1>1. Cap \in Nat /\ Requests \in Nat /\ (now - now) * Requests = 0
  BY CapPays, SpecAssumption
<1>2. NewBucket \in Bucket
  BY <1>1 DEF NewBucket, Bucket
<1>3. NewBucket.tokens = Cap /\ NewBucket.last = now
  BY DEF NewBucket
<1> QED
  BY <1>1, <1>2, <1>3, SMT DEF LevelAt, AtMost

\* The units of every client, as TokenBuckets counts them.
Levels(bs) == [c \in Clients |-> IF bs[c] = Nil THEN Cap ELSE LevelAt(bs[c], now)]

\* Every level lies between nothing and a full bucket.
LEMMA LevelsBounds ==
    ASSUME now \in Nat, NEW bs, Table(bs), NEW c \in Clients
    PROVE  Levels(bs)[c] \in 0..Cap
<1>1. CASE bs[c] = Nil
  BY <1>1, CapPays DEF Levels
<1>2. CASE bs[c] # Nil
  <2>1. bs[c] \in Bucket /\ bs[c].last =< now
    BY <1>2 DEF Table, Known, Bucket
  <2> QED
    BY <1>2, <2>1, LevelBounds DEF Levels
<1> QED
  BY <1>1, <1>2

\* The client's bucket pays Window units or none, and nothing else changes.
LEMMA DecideStep ==
    ASSUME now \in Nat, NEW bs, Table(bs), NEW c \in Clients, Decide(c, bs), now' = now
    PROVE  /\ Table(buckets)' /\ Known(buckets') \subseteq Known(bs) \cup {c}
           /\ \E cost \in {0, Window} :
                 /\ cost =< Levels(bs)[c]
                 /\ Levels(buckets)' = [Levels(bs) EXCEPT ![c] = @ - cost]
<1> DEFINE b == [(IF bs[c] = Nil THEN NewBucket ELSE bs[c]) EXCEPT !.lastSeen = now]
<1>1. /\ b \in Bucket /\ b.last =< now /\ b.lastSeen = now
      /\ LevelAt(b, now) = Levels(bs)[c]
  <2>1. CASE bs[c] = Nil
    <3>1. b = NewBucket
      BY <2>1 DEF NewBucket
    <3> QED
      BY <2>1, <3>1, NewBucketFull DEF Levels, NewBucket
  <2>2. CASE bs[c] # Nil
    <3>1. bs[c] \in Bucket /\ bs[c].last =< now
      BY <2>2 DEF Table, Known, Bucket
    <3>2. b = [bs[c] EXCEPT !.lastSeen = now]
      BY <2>2
    <3>3. b \in Bucket /\ b.last = bs[c].last /\ b.tokens = bs[c].tokens /\ b.lastSeen = now
      BY <3>1, <3>2 DEF Bucket
    <3> HIDE DEF b
    <3> QED
      BY <2>2, <3>1, <3>3 DEF Levels, LevelAt
  <2> QED
    BY <2>1, <2>2
<1>2. LevelAt(b, now) \in 0..Cap /\ Window \in Nat /\ Cap \in Nat /\ Requests \in Nat
  BY <1>1, LevelBounds, CapPays, SpecAssumption
<1> DEFINE cost == IF Allow(b) THEN Window ELSE 0
           n == IF Allow(b) THEN Pay(b) ELSE b
<1>3. buckets' = [bs EXCEPT ![c] = n]
  BY DEF Decide
<1>4. cost \in {0, Window} /\ cost =< Levels(bs)[c]
  <2> HIDE DEF b
  <2> QED
    BY <1>1, <1>2 DEF Allow
<1>5. n \in Bucket /\ n.last =< now /\ n.lastSeen = now /\ LevelAt(n, now) = LevelAt(b, now) - cost
  <2> HIDE DEF b
  <2>1. CASE ~Allow(b)
    BY <1>1, <1>2, <2>1
  <2>2. CASE Allow(b)
    <3>1. /\ Pay(b) \in Bucket /\ Pay(b).last = now /\ Pay(b).lastSeen = now
          /\ Pay(b).tokens = LevelAt(b, now) - Window
      <4> DEFINE l == LevelAt(b, now)
      <4>1. l - Window \in 0..Cap
        BY <1>2, <2>2 DEF Allow
      <4>2. Pay(b) = [b EXCEPT !.tokens = l - Window, !.last = now]
        BY DEF Pay
      <4> HIDE DEF l
      <4>3. Pay(b) \in Bucket /\ Pay(b).last = now /\ Pay(b).tokens = l - Window
            /\ Pay(b).lastSeen = now
        BY <1>1, <4>1, <4>2 DEF Bucket
      <4> QED
        BY <4>3 DEF l
    <3>2. (now - now) * Requests = 0
      BY <1>2
    <3>3. LevelAt(Pay(b), now) = LevelAt(b, now) - Window
      <4> DEFINE l == LevelAt(b, now)
      <4>1. LevelAt(Pay(b), now) = AtMost(Cap, (l - Window) + 0)
        BY <3>1, <3>2 DEF LevelAt
      <4> HIDE DEF l
      <4>2. l \in 0..Cap /\ l >= Window
        BY <1>2, <2>2 DEF l, Allow
      <4> QED
        BY <1>2, <4>1, <4>2 DEF AtMost, l
    <3> QED
      BY <1>2, <2>2, <3>1, <3>3
  <2> QED
    BY <2>1, <2>2
<1> HIDE DEF b, n, cost
<1>6. n # Nil
  BY <1>5, BucketNotNil
<1>7. Table(buckets)' /\ Known(buckets') \subseteq Known(bs) \cup {c}
  <2>1. buckets' \in [Clients -> Bucket \cup {Nil}]
    BY <1>3, <1>5 DEF Table
  <2>2. \A d \in Clients : buckets'[d] = IF d = c THEN n ELSE bs[d]
    BY <1>3 DEF Table
  <2>3. \A d \in Known(buckets') :
           buckets'[d].last =< buckets'[d].lastSeen /\ buckets'[d].lastSeen =< now
    BY <1>5, <2>2 DEF Table, Known
  <2> QED
    BY <2>1, <2>2, <2>3 DEF Table, Known
<1>8. Levels(buckets)' = [Levels(bs) EXCEPT ![c] = @ - cost]
  <2>1. Levels(buckets)' =
           [d \in Clients |-> IF buckets'[d] = Nil THEN Cap ELSE LevelAt(buckets'[d], now)]
    BY DEF Levels
  <2>2. \A d \in Clients : Levels(buckets)'[d] =
           IF d = c THEN Levels(bs)[c] - cost ELSE Levels(bs)[d]
    BY <1>1, <1>3, <1>5, <1>6, <2>1 DEF Levels, Table
  <2> QED
    BY <2>1, <2>2 DEF Levels
<1> QED
  BY <1>4, <1>7, <1>8

-----------------------------------------------------------------------------
(* Forgetting buckets *)

\* A part of a bounded table is bounded.
LEMMA BoundedSubset ==
    ASSUME NEW bs, NEW cs, Bounded(bs), Known(cs) \subseteq Known(bs)
    PROVE  Bounded(cs)
<1>1. IsFiniteSet(Known(cs)) /\ Cardinality(Known(cs)) =< Cardinality(Known(bs))
  BY FS_Subset DEF Bounded
<1>2. Cardinality(Known(cs)) \in Nat /\ Cardinality(Known(bs)) \in Nat
  BY <1>1, FS_CardinalityType DEF Bounded
<1> QED
  BY <1>1, <1>2, SpecAssumption DEF Bounded

\* A table with room stays bounded with one client more.
LEMMA BoundedAdd ==
    ASSUME NEW bs, NEW cs, NEW c, IsFiniteSet(Known(bs)), HasRoom(bs),
           Known(cs) \subseteq Known(bs) \cup {c}
    PROVE  Bounded(cs)
<1> DEFINE S == Known(bs) \cup {c}
<1>1. IsFiniteSet(S) /\ Cardinality(S) =< Cardinality(Known(bs)) + 1
  <2> DEFINE K == Known(bs)
  <2> HIDE DEF K
  <2>1. IsFiniteSet(K)
    BY DEF K
  <2>2. /\ IsFiniteSet(K \cup {c}) /\ Cardinality(K) \in Nat
        /\ Cardinality(K \cup {c}) = IF c \in K THEN Cardinality(K) ELSE Cardinality(K) + 1
    BY <2>1, FS_AddElement, FS_CardinalityType
  <2> QED
    BY <2>2 DEF K
<1>2. IsFiniteSet(Known(cs)) /\ Cardinality(Known(cs)) =< Cardinality(S)
  BY <1>1, FS_Subset
<1>3. /\ Cardinality(Known(cs)) \in Nat /\ Cardinality(Known(bs)) \in Nat
      /\ Cardinality(S) \in Nat
  BY <1>1, <1>2, FS_CardinalityType
<1> HIDE DEF S
<1>4. MaxBuckets > 0 => Cardinality(Known(bs)) < MaxBuckets
  BY SpecAssumption DEF HasRoom
<1> QED
  BY <1>1, <1>2, <1>3, <1>4, SpecAssumption DEF Bounded

\* A client without a request for some time has regained what flows in during
\* that time.
LEMMA IdleRegained ==
    ASSUME now \in Nat, Table(buckets), NEW d \in Known(buckets),
           NEW age \in Nat, now - buckets[d].lastSeen >= age
    PROVE  d \in Buckets!Regained(age)
<1> DEFINE b == buckets[d]
<1>1. b \in Bucket /\ b # Nil /\ d \in Clients /\ b.last =< b.lastSeen /\ b.lastSeen =< now
  BY DEF Table, Known
<1>2. age * Requests =< (now - b.last) * Requests
  <2>1. now - b.last \in Nat /\ age =< now - b.last
    BY <1>1 DEF Bucket
  <2> QED
    BY <2>1, SpecAssumption, TimesMonotone
<1>3. LevelAt(b, now) >= AtMost(Cap, (now - b.last) * Requests) /\ LevelAt(b, now) \in 0..Cap
  BY <1>1, LevelBounds DEF Bucket
<1>4. /\ age * Requests \in Nat /\ (now - b.last) * Requests \in Nat /\ Cap \in Nat
  BY <1>1, SpecAssumption, TimesNat, CapPays DEF Bucket
<1>5. LevelAt(b, now) >= AtMost(Cap, age * Requests)
  BY <1>2, <1>3, <1>4, SMT DEF AtMost
<1>6. Buckets!AtMost(Buckets!Cap, age * Requests) = AtMost(Cap, age * Requests)
  BY DEF Buckets!AtMost, Buckets!Cap, AtMost, Cap
<1> QED
  BY <1>1, <1>5, <1>6 DEF Buckets!Regained

\* The clients whose bucket the sweep forgets.
SweptClients == {d \in Known(buckets) : Swept[d] = Nil}

\* The sweep forgets only clients that were gone long enough.
LEMMA SweepStep ==
    ASSUME now \in Nat, Table(buckets), Bounded(buckets)
    PROVE  /\ Table(Swept) /\ Bounded(Swept) /\ Known(Swept) \subseteq Known(buckets)
           /\ \A d \in Known(Swept) : Swept[d] = buckets[d]
           /\ SweptClients \in
                 SUBSET Buckets!Regained(IF 2 * Window >= MinBucketTTL THEN 2 * Window
                                         ELSE MinBucketTTL)
           /\ \A d \in Clients :
                 Levels(Swept)[d] = IF d \in SweptClients THEN Cap ELSE Levels(buckets)[d]
<1>1. \A d \in Clients : Swept[d] \in {Nil, buckets[d]}
  BY DEF Swept
<1>2. \A d \in Known(Swept) : Swept[d] = buckets[d] /\ d \in Known(buckets)
  BY <1>1 DEF Known
<1>3. Table(Swept)
  <2>1. Swept \in [Clients -> Bucket \cup {Nil}]
    BY DEF Swept, Table
  <2> QED
    BY <1>2, <2>1 DEF Table
<1>4. Bounded(Swept)
  BY <1>2, BoundedSubset
<1>5. ASSUME NEW d \in SweptClients
      PROVE  d \in Buckets!Regained(IF 2 * Window >= MinBucketTTL THEN 2 * Window
                                    ELSE MinBucketTTL)
  <2> DEFINE age == IF 2 * Window >= MinBucketTTL THEN 2 * Window ELSE MinBucketTTL
  <2>1. age \in Nat /\ age = BucketTTL
    BY SpecAssumption DEF BucketTTL, AtLeast
  <2>2. now - buckets[d].lastSeen >= BucketTTL
    BY DEF SweptClients, Swept, Known
  <2>3. d \in Known(buckets)
    BY DEF SweptClients
  <2> HIDE DEF age
  <2>4. d \in Buckets!Regained(age)
    BY <2>1, <2>2, <2>3, IdleRegained
  <2> QED
    BY <2>4 DEF age
<1>6. ASSUME NEW d \in Clients
      PROVE  Levels(Swept)[d] = IF d \in SweptClients THEN Cap ELSE Levels(buckets)[d]
  BY <1>1 DEF Levels, SweptClients, Known
<1> QED
  BY <1>2, <1>3, <1>4, <1>5, <1>6

-----------------------------------------------------------------------------
(* AllowRequest *)

\* A step of AllowRequest: the sweep, perhaps the eviction of one idle client
\* other than the caller, and perhaps a payment.
LEMMA AllowRequestStep ==
    ASSUME Inv, NEW c \in Clients, AllowRequest(c)
    PROVE  Table(buckets)' /\ Bounded(buckets)' /\ Buckets!Next
<1> USE DEF Inv
<1> DEFINE sweepAge == IF 2 * Window >= MinBucketTTL THEN 2 * Window ELSE MinBucketTTL
<1>1. /\ Table(Swept) /\ Bounded(Swept) /\ Known(Swept) \subseteq Known(buckets)
      /\ \A d \in Known(Swept) : Swept[d] = buckets[d]
      /\ SweptClients \in SUBSET Buckets!Regained(sweepAge)
      /\ \A d \in Clients :
            Levels(Swept)[d] = IF d \in SweptClients THEN Cap ELSE Levels(buckets)[d]
  BY SweepStep
<1>2. now' = now /\ now \in Nat
  BY DEF AllowRequest
<1>3. Buckets!Cap = Cap
  BY DEF Buckets!Cap, Cap
<1>4. ASSUME NEW evicted \in {{}} \cup {{d} : d \in Buckets!Regained(IdleAge)}, c \notin evicted,
             NEW bs,
             \A d \in Clients : Levels(bs)[d] = IF d \in SweptClients \cup evicted THEN Cap
                                               ELSE Levels(buckets)[d],
             \E cost \in {0, Window} :
                /\ cost =< Levels(bs)[c]
                /\ Levels(buckets)' = [Levels(bs) EXCEPT ![c] = @ - cost]
      PROVE  Buckets!Next
  <2>0. PICK cost \in {0, Window} :
           /\ cost =< Levels(bs)[c]
           /\ Levels(buckets)' = [Levels(bs) EXCEPT ![c] = @ - cost]
    BY <1>4
  <2>1. Levels(bs) = [d \in Clients |-> IF d \in SweptClients \cup evicted THEN Buckets!Cap
                                        ELSE Levels(buckets)[d]]
    BY <1>3, <1>4 DEF Levels
  <2>2. Buckets!Serve(c, cost, SweptClients, evicted)
    BY <1>4, <2>0, <2>1 DEF Buckets!Serve, Levels
  <2> QED
    BY <1>1, <1>4, <2>2 DEF Buckets!Next
<1>5. CASE (Swept[c] # Nil \/ HasRoom(Swept)) /\ Decide(c, Swept)
  <2>1. Table(buckets)' /\ Known(buckets') \subseteq Known(Swept) \cup {c}
    BY <1>1, <1>2, <1>5, DecideStep
  <2>2. \E cost \in {0, Window} :
           /\ cost =< Levels(Swept)[c]
           /\ Levels(buckets)' = [Levels(Swept) EXCEPT ![c] = @ - cost]
    BY <1>1, <1>2, <1>5, DecideStep
  <2>3. Bounded(buckets')
    <3>1. CASE Swept[c] # Nil
      <4>1. Known(buckets') \subseteq Known(Swept)
        BY <2>1, <3>1 DEF Known
      <4> QED
        BY <1>1, <4>1, BoundedSubset
    <3>2. CASE HasRoom(Swept)
      BY <1>1, <2>1, <3>2, BoundedAdd DEF Bounded
    <3> QED
      BY <1>5, <3>1, <3>2
  <2>4. \A d \in Clients : Levels(Swept)[d] = IF d \in SweptClients \cup {} THEN Cap
                                              ELSE Levels(buckets)[d]
    BY <1>1
  <2>5. {} \in {{}} \cup {{d} : d \in Buckets!Regained(IdleAge)} /\ c \notin {}
    OBVIOUS
  <2>6. Buckets!Next
    BY <1>4, <2>2, <2>4, <2>5
  <2> QED
    BY <2>1, <2>3, <2>6 DEF Bounded, Known
<1>6. ASSUME Swept[c] = Nil, NEW d \in Oldest(Swept), Decide(c, [Swept EXCEPT ![d] = Nil])
      PROVE  Table(buckets)' /\ Bounded(buckets)' /\ Buckets!Next
  <2> DEFINE bs == [Swept EXCEPT ![d] = Nil]
  <2>1. d \in Known(Swept) /\ d \in Clients /\ now - Swept[d].lastSeen >= IdleAge /\ d # c
    BY <1>6 DEF Oldest, Idle, Known
  <2>2. \A e \in Clients : bs[e] = IF e = d THEN Nil ELSE Swept[e]
    BY <1>1 DEF Table
  <2>3. Known(bs) = Known(Swept) \ {d}
    BY <2>1, <2>2 DEF Known
  <2>4. Table(bs)
    <3>1. bs \in [Clients -> Bucket \cup {Nil}]
      BY <1>1 DEF Table
    <3>2. \A e \in Known(bs) : bs[e] = Swept[e]
      BY <2>2, <2>3 DEF Known
    <3> QED
      BY <1>1, <2>3, <3>1, <3>2 DEF Table
  <2>5. Decide(c, bs)
    BY <1>6
  <2> HIDE DEF bs
  <2>6. Table(buckets)' /\ Known(buckets') \subseteq Known(bs) \cup {c}
    BY <1>2, <2>4, <2>5, DecideStep
  <2>7. \E cost \in {0, Window} :
           /\ cost =< Levels(bs)[c]
           /\ Levels(buckets)' = [Levels(bs) EXCEPT ![c] = @ - cost]
    BY <1>2, <2>4, <2>5, DecideStep
  <2>8. Bounded(buckets')
    <3> DEFINE K == Known(Swept)
    <3>1. /\ IsFiniteSet(K \ {d}) /\ Cardinality(K) \in Nat
          /\ Cardinality(K \ {d}) = Cardinality(K) - 1
      <4>1. IsFiniteSet(K) /\ d \in K
        BY <1>1, <2>1 DEF Bounded
      <4> HIDE DEF K
      <4> QED
        BY <4>1, FS_RemoveElement, FS_CardinalityType
    <3>2. HasRoom(bs)
      BY <1>1, <2>3, <3>1, SpecAssumption DEF HasRoom, Bounded
    <3> QED
      BY <2>3, <2>6, <3>1, <3>2, BoundedAdd
  <2>9. d \in Buckets!Regained(IdleAge)
    BY <1>1, <1>2, <2>1, SpecAssumption, IdleRegained
  <2>10. \A e \in Clients : Levels(bs)[e] = IF e \in SweptClients \cup {d} THEN Cap
                                           ELSE Levels(buckets)[e]
    <3>1. \A e \in Clients : Levels(bs)[e] = IF e = d THEN Cap ELSE Levels(Swept)[e]
      BY <2>2 DEF Levels
    <3> QED
      BY <1>1, <3>1
  <2>11. Buckets!Next
    <3>1. {d} \in {{}} \cup {{e} : e \in Buckets!Regained(IdleAge)} /\ c \notin {d}
      BY <2>1, <2>9
    <3> QED
      BY <1>4, <2>7, <2>10, <3>1
  <2> QED
    BY <2>6, <2>8, <2>11 DEF Bounded, Known
<1>7. CASE buckets' = Swept
  <2>1. Table(buckets)' /\ Bounded(buckets)'
    BY <1>1, <1>2, <1>7 DEF Table, Bounded, Known
  <2>2. Levels(Swept)[c] \in 0..Cap /\ Cap \in Nat
    BY <1>1, <1>2, LevelsBounds, CapPays
  <2>3. Levels(buckets)' = [Levels(Swept) EXCEPT ![c] = @ - 0]
    BY <1>2, <1>7, <2>2 DEF Levels
  <2>4. 0 \in {0, Window} /\ 0 =< Levels(Swept)[c]
    BY <2>2
  <2>5. \A d \in Clients : Levels(Swept)[d] = IF d \in SweptClients \cup {} THEN Cap
                                              ELSE Levels(buckets)[d]
    BY <1>1
  <2>6. {} \in {{}} \cup {{d} : d \in Buckets!Regained(IdleAge)} /\ c \notin {}
    OBVIOUS
  <2>7. Buckets!Next
    BY <1>4, <2>3, <2>4, <2>5, <2>6
  <2> QED
    BY <2>1, <2>7
<1> QED
  BY <1>5, <1>6, <1>7 DEF AllowRequest

-----------------------------------------------------------------------------
(* Retry-After *)

\* A refused client is told a time by which its bucket can pay, and a client
\* that comes back then is not limited.
LEMMA DecidePromise ==
    ASSUME now \in Nat, PromiseInv, NEW bs, Table(bs), NEW c \in Clients, Decide(c, bs),
           \A d \in Known(bs) : bs[d] = buckets[d] /\ d \in Known(buckets)
    PROVE  /\ PromiseInv'
           /\ promise[c] # Nil /\ now >= promise[c] => reply'.answer # "limited"
<1> DEFINE b == [(IF bs[c] = Nil THEN NewBucket ELSE bs[c]) EXCEPT !.lastSeen = now]
<1>1. CASE Allow(b)
  <2>1. /\ buckets' = [bs EXCEPT ![c] = Pay(b)] /\ promise' = [promise EXCEPT ![c] = Nil]
        /\ reply'.answer = "next"
    BY <1>1 DEF Decide
  <2> HIDE DEF b
  <2>2. \A d \in Clients \ {c} : buckets'[d] = bs[d] /\ promise'[d] = promise[d]
    BY <2>1 DEF Table, PromiseInv
  <2>3. promise' \in [Clients -> Nat \cup {Nil}] /\ promise'[c] = Nil
    BY <2>1 DEF PromiseInv
  <2> QED
    BY <2>1, <2>2, <2>3 DEF PromiseInv, Known
<1>2. CASE ~Allow(b)
  <2> DEFINE l == LevelAt(b, now)
             wait == RetryAfter(l)
             p == now + wait * Second + Second \div 2
  <2>1. /\ buckets' = [bs EXCEPT ![c] = b] /\ promise' = [promise EXCEPT ![c] = p]
    BY <1>2 DEF Decide
  <2>2. bs[c] # Nil
    <3>1. SUFFICES ASSUME bs[c] = Nil PROVE FALSE
      OBVIOUS
    <3>2. b = NewBucket
      BY <3>1 DEF NewBucket
    <3>3. LevelAt(b, now) = Cap
      BY <3>2, NewBucketFull
    <3> HIDE DEF b
    <3> QED
      BY <1>2, <3>3, CapPays DEF Allow
  <2>3. bs[c] \in Bucket /\ bs[c].last =< now /\ bs[c] = buckets[c] /\ c \in Known(buckets)
    BY <2>2 DEF Table, Known, Bucket
  <2>4. b \in Bucket /\ b.last = bs[c].last /\ b.tokens = bs[c].tokens
    <3>1. b = [bs[c] EXCEPT !.lastSeen = now]
      BY <2>2
    <3> HIDE DEF b
    <3> QED
      BY <2>3, <3>1 DEF Bucket
  <2> HIDE DEF b
  <2>5. /\ l \in Nat /\ l < Window /\ Window \in Nat /\ Requests \in Nat
        /\ l = b.tokens + (now - b.last) * Requests
    BY <1>2, <2>3, <2>4, LevelBounds, CapPays, SpecAssumption DEF Allow
  <2> HIDE DEF l
  <2>6. wait \in Nat /\ (wait * Second + Second \div 2) * Requests >= Window - l
    BY <2>5, RetryAfterSuffices
  <2> HIDE DEF wait
  <2>7. wait * Second \in Nat /\ Second \div 2 \in Nat
    BY <2>6, SpecAssumption, TimesNat
  <2>8. p \in Nat /\ b.tokens + (p - b.last) * Requests >= Window
    <3> DEFINE w == wait * Second + Second \div 2
    <3>1. w \in Nat /\ p = now + w
      BY <2>7
    <3> HIDE DEF w, p
    <3>2. b.last \in Nat /\ b.tokens \in Nat
      BY <2>4, CapPays DEF Bucket
    <3>3. p - b.last = (now - b.last) + w
      BY <3>1, <3>2
    <3>4. (p - b.last) * Requests = (now - b.last) * Requests + w * Requests
      BY <2>5, <3>1, <3>2, <3>3, Distribute
    <3>5. w * Requests >= Window - l
      BY <2>6 DEF w
    <3>6. w * Requests \in Int /\ (now - b.last) * Requests \in Int
      BY <2>5, <3>1, <3>2
    <3> HIDE DEF w
    <3> QED
      BY <2>5, <3>1, <3>2, <3>4, <3>5, <3>6
  <2> HIDE DEF p
  <2>9. promise' \in [Clients -> Nat \cup {Nil}] /\ promise'[c] = p /\ buckets'[c] = b
    BY <2>1, <2>8 DEF PromiseInv, Table
  <2>10. \A d \in Clients \ {c} : buckets'[d] = bs[d] /\ promise'[d] = promise[d]
    BY <2>1 DEF Table, PromiseInv
  <2>11. PromiseInv'
    BY <2>8, <2>9, <2>10 DEF PromiseInv, Known
  <2>12. ASSUME promise[c] # Nil, now >= promise[c] PROVE FALSE
    <3>1. promise[c] \in Nat /\ b.tokens + (promise[c] - b.last) * Requests >= Window
      BY <2>3, <2>4, <2>12 DEF PromiseInv
    <3>2. (now - b.last) * Requests =
             (promise[c] - b.last) * Requests + (now - promise[c]) * Requests
      <4>1. now - b.last = (promise[c] - b.last) + (now - promise[c]) /\ b.last \in Nat
        BY <2>4, <3>1 DEF Bucket
      <4> QED
        BY <2>5, <3>1, <4>1, Distribute
    <3>3. (now - promise[c]) * Requests \in Nat
      BY <2>5, <2>12, <3>1, TimesNat
    <3>4. (promise[c] - b.last) * Requests \in Int /\ b.tokens \in Nat
      BY <2>4, <2>5, <3>1, CapPays DEF Bucket
    <3> QED
      BY <2>5, <3>1, <3>2, <3>3, <3>4
  <2> QED
    BY <2>11, <2>12
<1> QED
  BY <1>1, <1>2

\* AllowRequest keeps its promises.
LEMMA AllowRequestPromise ==
    ASSUME Inv, NEW c \in Clients, AllowRequest(c)
    PROVE  /\ PromiseInv'
           /\ promise[c] # Nil /\ now >= promise[c] => reply'.answer # "limited"
<1> USE DEF Inv
<1>1. /\ Table(Swept) /\ now \in Nat
      /\ \A d \in Known(Swept) : Swept[d] = buckets[d] /\ d \in Known(buckets)
  BY SweepStep
<1>2. CASE Decide(c, Swept)
  BY <1>1, <1>2, DecidePromise
<1>3. ASSUME NEW d \in Oldest(Swept), Decide(c, [Swept EXCEPT ![d] = Nil])
      PROVE  /\ PromiseInv'
             /\ promise[c] # Nil /\ now >= promise[c] => reply'.answer # "limited"
  <2> DEFINE bs == [Swept EXCEPT ![d] = Nil]
  <2>1. \A e \in Clients : bs[e] \in {Nil, Swept[e]}
    BY <1>1 DEF Table
  <2>2. bs \in [Clients -> Bucket \cup {Nil}]
    BY <1>1 DEF Table
  <2>3. Decide(c, bs)
    BY <1>3
  <2> HIDE DEF bs
  <2>4. \A e \in Known(bs) : bs[e] = Swept[e] /\ e \in Known(Swept)
    BY <2>1 DEF Known
  <2>5. Table(bs)
    BY <1>1, <2>2, <2>4 DEF Table
  <2> QED
    BY <1>1, <2>3, <2>4, <2>5, DecidePromise
<1>4. CASE /\ buckets' = Swept
           /\ reply' = [answer |-> "saturated", retryAfter |-> 1]
           /\ promise' = [promise EXCEPT ![c] = Nil]
  <2>1. PromiseInv'
    BY <1>1, <1>4 DEF PromiseInv, Known
  <2> QED
    BY <1>4, <2>1
<1> QED
  BY <1>2, <1>3, <1>4 DEF AllowRequest

-----------------------------------------------------------------------------
\* The empty table.
LEMMA InitInv == Init => Inv /\ Buckets!Init
<1> SUFFICES ASSUME Init PROVE Inv /\ Buckets!Init
  OBVIOUS
<1>1. Known(buckets) = {}
  BY DEF Init, Known
<1>2. Bounded(buckets)
  BY <1>1, FS_EmptySet, SpecAssumption DEF Bounded
<1>3. Inv
  BY <1>1, <1>2 DEF Init, Inv, Table, PromiseInv
<1>4. Buckets!Init
  BY DEF Init, Buckets!Init, Buckets!Cap, Cap
<1> QED
  BY <1>3, <1>4

\* A tick fills every bucket.
LEMMA TickStep ==
    ASSUME Inv, Tick
    PROVE  Inv' /\ Buckets!Next
<1>1. now \in Nat /\ now' = now + 1 /\ UNCHANGED <<lastSweep, buckets, promise>>
  BY DEF Inv, Tick
<1>2. \A c \in Known(buckets) : /\ buckets[c] \in Bucket /\ buckets[c] # Nil
                               /\ buckets[c].last =< buckets[c].lastSeen
                               /\ buckets[c].lastSeen =< now
  BY DEF Inv, Table, Known
<1>3. Inv'
  <2>1. Table(buckets)'
    BY <1>1, <1>2 DEF Inv, Table, Known, Bucket
  <2>2. Bounded(buckets)' /\ PromiseInv'
    BY <1>1 DEF Inv, Bounded, PromiseInv, Known
  <2> QED
    BY <1>1, <2>1, <2>2 DEF Inv
<1>4. ASSUME NEW c \in Clients
      PROVE  Levels(buckets)'[c] = AtMost(Cap, Levels(buckets)[c] + Requests)
  <2>1. CASE buckets[c] = Nil
    <3>1. Levels(buckets)[c] = Cap /\ Levels(buckets)'[c] = Cap
      BY <1>1, <2>1 DEF Levels
    <3> QED
      BY <3>1, CapPays, SpecAssumption DEF AtMost
  <2>2. CASE buckets[c] # Nil
    <3>1. buckets[c] \in Bucket /\ buckets[c].last =< now
      BY <1>1, <1>2, <2>2 DEF Known, Bucket
    <3>2. /\ Levels(buckets)[c] = LevelAt(buckets[c], now)
          /\ Levels(buckets)'[c] = LevelAt(buckets[c], now + 1)
      BY <1>1, <2>2 DEF Levels
    <3> QED
      BY <1>1, <3>1, <3>2, LevelTick
  <2> QED
    BY <2>1, <2>2
<1>5. Levels(buckets)' = [c \in Clients |-> AtMost(Cap, Levels(buckets)[c] + Requests)]
  BY <1>4 DEF Levels
<1>6. Buckets!Fill
  <2>1. \A x : Buckets!AtMost(Buckets!Cap, x) = AtMost(Cap, x)
    BY DEF Buckets!AtMost, Buckets!Cap, AtMost, Cap
  <2> QED
    BY <1>5, <2>1 DEF Buckets!Fill, Levels
<1> QED
  BY <1>3, <1>6 DEF Buckets!Next

\* Every step keeps the invariant and is one of TokenBuckets.
LEMMA NextInv ==
    ASSUME Inv, [Next]_vars
    PROVE  Inv' /\ [Buckets!Next]_(Levels(buckets))
<1>1. CASE Tick
  BY <1>1, TickStep
<1>2. ASSUME NEW c \in Clients, AllowRequest(c) PROVE Inv' /\ Buckets!Next
  <2>1. now' \in Nat /\ lastSweep' \in Nat
    BY <1>2 DEF Inv, AllowRequest
  <2> QED
    BY <1>2, <2>1, AllowRequestStep, AllowRequestPromise DEF Inv
<1>3. ASSUME UNCHANGED <<now, lastSweep, buckets, promise>>
      PROVE  Inv' /\ UNCHANGED Levels(buckets)
  BY <1>3 DEF Inv, Table, Bounded, Known, PromiseInv, Levels
<1> QED
  BY <1>1, <1>2, <1>3 DEF Next, PassExempt, vars

\* The invariant holds in every state of the limiter.
LEMMA Invariance == Spec => []Inv
BY InitInv, NextInv, PTL DEF Spec

\* For any number of clients the table respects MaxBuckets, and no bucket is
\* overdrawn or overfull.
THEOREM TableBounded == Spec => []BucketsBounded
<1>1. Inv => BucketsBounded
  BY DEF Inv, Table, Bounded, Known, Bucket, BucketsBounded
<1> QED
  BY <1>1, Invariance, PTL

\* Sweeping and evicting buckets admits no more requests than TokenBuckets.
THEOREM Refinement == Spec => ImplementsTokenBuckets
<1>1. Inv /\ [Next]_vars =>
         [Buckets!Next]_[c \in Clients |-> IF buckets[c] = Nil THEN Cap
                                           ELSE LevelAt(buckets[c], now)]
  BY NextInv DEF Levels
<1> QED
  BY <1>1, InitInv, Invariance, PTL DEF Spec, ImplementsTokenBuckets, Buckets!Spec

\* A client that waits as it was told is not limited again.
THEOREM PromiseKept == Spec => RetryAfterHonoured
<1>1. Inv /\ [Next]_vars =>
         [\A c \in Clients : AllowRequest(c) /\ promise[c] # Nil /\ now >= promise[c] =>
             reply'.answer # "limited"]_vars
  BY AllowRequestPromise
<1> QED
  BY <1>1, Invariance, PTL DEF Spec, RetryAfterHonoured
=============================================================================

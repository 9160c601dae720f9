--------------------------- MODULE AdmissionProofs ---------------------------
(***************************************************************************)
(* Proofs about auth.rs: about module Admission, for every set of keys and *)
(* of concurrent requests and revocations, every clock resolution and      *)
(* every bound on it, and, from section "The calendar" on, about module    *)
(* PeriodToken, for every last year up to 2099.  The two specifications    *)
(* share no variable and no theorem is about both.                         *)
(***************************************************************************)
EXTENDS Admission, PeriodToken, TLAPS
-----------------------------------------------------------------------------
(***************************************************************************)
(* The token bucket of auth.rs.                                            *)
(***************************************************************************)

(* Products of natural numbers. *)
LEMMA Scale ==
    ASSUME NEW c \in Nat, NEW m \in Nat, NEW n \in Nat
    PROVE  c * m \in Nat /\ c * (m + n) = c * m + c * n
    OBVIOUS

(* A new bucket is full, and has granted nothing. *)
LEMMA NewBucket ==
    ASSUME NEW rps \in Nat, NEW t \in Nat
    PROVE  /\ TokenBucket_new(rps, t) \in Bucket
           /\ TokenBucket_new(rps, t).last_refill = t
           /\ Accounts(TokenBucket_new(rps, t), <<>>)
<1>1. TicksPerSecond \in Nat /\ rps * TicksPerSecond \in Nat
    BY TicksAssumption
<1>2. QED
    BY <1>1 DEF TokenBucket_new, Bucket, Accounts

(* Refilling adds at most what has flowed in, and keeps the account. *)
LEMMA RefillAccounts ==
    ASSUME NEW b \in Bucket, NEW t \in Nat, b.last_refill <= t, NEW g \in Seq(Nat), Accounts(b, g)
    PROVE  /\ refilled(b, t) \in Bucket
           /\ refilled(b, t).last_refill = t
           /\ refilled(b, t).capacity = b.capacity
           /\ refilled(b, t).refill_per_second = b.refill_per_second
           /\ Accounts(refilled(b, t), g)
<1> DEFINE rate == b.refill_per_second
           inflow == (t - b.last_refill) * rate
           c == refilled(b, t)
<1>1. /\ b.available \in Nat /\ b.capacity \in Nat /\ rate \in Nat /\ b.last_refill \in Nat
      /\ t - b.last_refill \in Nat /\ TicksPerSecond \in Nat
    BY TicksAssumption DEF Bucket
<1>2. inflow \in Nat
    BY <1>1, Scale
<1>3. /\ c.available = IF b.available + inflow < b.capacity THEN b.available + inflow ELSE b.capacity
      /\ c.last_refill = t /\ c.capacity = b.capacity /\ c.refill_per_second = rate
    BY DEF refilled, Bucket
<1>4. c.available \in Nat /\ c.available <= b.available + inflow /\ c.available <= b.capacity
    <2> HIDE DEF inflow
    <2>1. QED
        BY <1>1, <1>2, <1>3
<1>5. c \in Bucket
    <2> DEFINE held == IF b.available + inflow < b.capacity THEN b.available + inflow ELSE b.capacity
    <2>1. c = [b EXCEPT !.available = held, !.last_refill = t]
        BY DEF refilled
    <2>2. held \in Nat
        BY <1>3, <1>4
    <2> HIDE DEF c, held
    <2>3. QED
        BY <2>1, <2>2 DEF Bucket
<1>6. ASSUME NEW i \in 1..Len(g)
      PROVE  /\ g[i] <= t
             /\ (Len(g) - i + 1) * TicksPerSecond + c.available <= b.capacity + rate * (t - g[i])
    <2>1. g[i] \in Nat /\ g[i] <= b.last_refill /\ b.last_refill - g[i] \in Nat
        <3>1. g[i] \in Nat
            OBVIOUS
        <3>2. g[i] <= b.last_refill
            BY DEF Accounts
        <3>3. QED
            BY <1>1, <3>1, <3>2
    <2>2. rate * (t - g[i]) = rate * (b.last_refill - g[i]) + inflow
        <3>1. t - g[i] = (b.last_refill - g[i]) + (t - b.last_refill)
            BY <1>1, <2>1
        <3>2. rate * ((b.last_refill - g[i]) + (t - b.last_refill))
                = rate * (b.last_refill - g[i]) + rate * (t - b.last_refill)
            BY <1>1, <2>1, Scale, SMTT(20)
        <3>3. QED
            BY <1>1, <3>1, <3>2
    <2>3. (Len(g) - i + 1) * TicksPerSecond + b.available
            <= b.capacity + rate * (b.last_refill - g[i])
        BY <1>6 DEF Accounts
    <2>4. (Len(g) - i + 1) * TicksPerSecond \in Nat /\ rate * (b.last_refill - g[i]) \in Nat
        BY <1>1, <1>6, <2>1, Len(g) - i + 1 \in Nat, Scale
    <2>5. g[i] <= t
        BY <1>1, <2>1
    <2>6. ASSUME NEW x \in Nat, NEW y \in Nat, NEW f \in Nat, NEW a \in Nat,
                 x + b.available <= b.capacity + y, a <= b.available + f
          PROVE  x + a <= b.capacity + (y + f)
        BY <1>1, <2>6, SMTT(20)
    <2> HIDE DEF c, inflow
    <2>7. QED
        BY <1>2, <1>4, <2>2, <2>3, <2>4, <2>5, <2>6
<1>7. Accounts(c, g)
    <2> HIDE DEF c
    <2>1. QED
        BY <1>3, <1>4, <1>6 DEF Accounts
<1>8. QED
    BY <1>3, <1>5, <1>7

(* A bucket that has been refilled at t takes part in a request of time t: *)
(* with a token, it grants it; without one, it stays as it is.             *)
LEMMA ConsumeAccounts ==
    ASSUME NEW b \in Bucket, NEW t \in Nat, b.last_refill = t, NEW g \in Seq(Nat), Accounts(b, g)
    PROVE  /\ try_consume(b) \in Bucket
           /\ try_consume(b).last_refill = t
           /\ try_consume(b).capacity = b.capacity
           /\ try_consume(b).refill_per_second = b.refill_per_second
           /\ Accounts(try_consume(b), IF has_token(b) THEN Append(g, t) ELSE g)
<1> DEFINE rate == b.refill_per_second
           c == try_consume(b)
           h == Append(g, t)
<1>1. /\ b.available \in Nat /\ b.capacity \in Nat /\ rate \in Nat /\ TicksPerSecond \in Nat
    BY TicksAssumption DEF Bucket
<1>2. CASE ~ has_token(b)
    BY <1>2 DEF try_consume
<1>3. CASE has_token(b)
    <2>1. c = [b EXCEPT !.available = b.available - TicksPerSecond]
        BY <1>3 DEF try_consume
    <2>2. b.available - TicksPerSecond \in Nat
        BY <1>1, <1>3 DEF has_token
    <2>3. /\ c.available = b.available - TicksPerSecond /\ c \in Bucket
          /\ c.last_refill = t /\ c.capacity = b.capacity /\ c.refill_per_second = rate
        BY <2>1, <2>2 DEF Bucket
    <2>4. c.available <= b.capacity
        BY <1>1, <2>2, <2>3 DEF Accounts
    <2>5. /\ Len(g) \in Nat /\ Len(h) = Len(g) + 1 /\ h[Len(g) + 1] = t
          /\ \A i \in 1..Len(g) : h[i] = g[i]
        OBVIOUS
    <2>6. ASSUME NEW i \in 1..Len(g)
          PROVE  /\ g[i] <= t
                 /\ (Len(g) + 1 - i + 1) * TicksPerSecond + c.available
                       <= b.capacity + rate * (t - g[i])
        <3>1. (Len(g) - i + 1) * TicksPerSecond + b.available <= b.capacity + rate * (t - g[i])
            BY <2>6 DEF Accounts
        <3>2. (Len(g) + 1 - i + 1) * TicksPerSecond
                = (Len(g) - i + 1) * TicksPerSecond + TicksPerSecond
            <4>1. Len(g) - i + 1 \in Nat /\ Len(g) + 1 - i + 1 = (Len(g) - i + 1) + 1
                BY <2>5, <2>6
            <4>2. TicksPerSecond * ((Len(g) - i + 1) + 1)
                    = TicksPerSecond * (Len(g) - i + 1) + TicksPerSecond * 1
                BY <1>1, <4>1, Scale
            <4>3. QED
                BY <1>1, <4>1, <4>2
        <3>3. (Len(g) - i + 1) * TicksPerSecond \in Nat
            BY <1>1, <2>5, <2>6, Len(g) - i + 1 \in Nat, Scale
        <3>4. g[i] <= t
            BY <2>6 DEF Accounts
        <3>5. (Len(g) + 1 - i + 1) * TicksPerSecond + c.available
                = (Len(g) - i + 1) * TicksPerSecond + b.available
            BY <1>1, <2>3, <3>2, <3>3
        <3>6. QED
            BY <3>1, <3>4, <3>5
    <2>7. (Len(g) + 1 - (Len(g) + 1) + 1) * TicksPerSecond + c.available
            <= b.capacity + rate * (t - t)
        <3>1. Len(g) + 1 - (Len(g) + 1) + 1 = 1 /\ t - t = 0
            BY <2>5
        <3>2. 1 * TicksPerSecond = TicksPerSecond /\ rate * 0 = 0
            BY <1>1
        <3>3. TicksPerSecond + c.available <= b.capacity + 0
            BY <1>1, <2>3, <2>2 DEF Accounts
        <3>4. QED
            BY <3>1, <3>2, <3>3
    <2>8. Accounts(c, h)
        <3>1. ASSUME NEW i \in 1..Len(h)
              PROVE  /\ h[i] <= t
                     /\ (Len(h) - i + 1) * TicksPerSecond + c.available
                           <= b.capacity + rate * (t - h[i])
            <4>1. CASE i = Len(g) + 1
                BY <2>5, <2>7, <4>1
            <4>2. CASE i # Len(g) + 1
                <5>1. i \in 1..Len(g)
                    BY <2>5, <3>1, <4>2
                <5>2. QED
                    BY <2>5, <2>6, <5>1
            <4>3. QED
                BY <4>1, <4>2
        <3> HIDE DEF c, h
        <3>2. QED
            BY <2>3, <2>4, <3>1 DEF Accounts
    <2>9. QED
        BY <1>3, <2>3, <2>8
<1>4. QED
    BY <1>2, <1>3

(* The bound of BurstBound, for one bucket and its grants. *)
Burst(b, g) ==
    \A i, j \in 1..Len(g) : i <= j =>
        (j - i + 1) * TicksPerSecond <= b.capacity + b.refill_per_second * (g[j] - g[i])

(* The windows that end with a new grant are within the bound too. *)
LEMMA GrantBurst ==
    ASSUME NEW b \in Bucket, NEW t \in Nat, b.last_refill = t, NEW g \in Seq(Nat),
           Burst(b, g), Accounts(b, Append(g, t))
    PROVE  Burst(b, Append(g, t))
<1> DEFINE h == Append(g, t)
<1>1. Len(g) \in Nat /\ Len(h) = Len(g) + 1 /\ h[Len(g) + 1] = t /\ \A i \in 1..Len(g) : h[i] = g[i]
    OBVIOUS
<1>2. ASSUME NEW i \in 1..Len(h), NEW j \in 1..Len(h), i <= j
      PROVE  (j - i + 1) * TicksPerSecond <= b.capacity + b.refill_per_second * (h[j] - h[i])
    <2>1. CASE j = Len(g) + 1
        <3>1. (Len(h) - i + 1) * TicksPerSecond + b.available
                <= b.capacity + b.refill_per_second * (t - h[i])
            BY <1>2 DEF Accounts
        <3>2. b.available \in Nat /\ b.capacity \in Nat /\ b.refill_per_second \in Nat
            BY DEF Bucket
        <3>3. (Len(h) - i + 1) * TicksPerSecond \in Nat
            BY <1>1, <1>2, Len(h) - i + 1 \in Nat, TicksAssumption, Scale
        <3>4. h[i] \in Nat /\ h[i] <= t
            <4>1. h \in Seq(Nat)
                OBVIOUS
            <4>2. h[i] \in Nat
                BY <1>2, <4>1
            <4>3. h[i] <= t
                BY <1>2 DEF Accounts
            <4>4. QED
                BY <4>2, <4>3
        <3>5. b.refill_per_second * (t - h[i]) \in Nat
            BY <3>2, <3>4, t - h[i] \in Nat, Scale
        <3>6. (Len(h) - i + 1) * TicksPerSecond <= b.capacity + b.refill_per_second * (t - h[i])
            <4>1. ASSUME NEW x \in Nat, NEW y \in Nat, x + b.available <= b.capacity + y
                  PROVE  x <= b.capacity + y
                BY <3>2, <4>1
            <4>2. QED
                BY <3>1, <3>3, <3>5, <4>1
        <3>7. QED
            BY <1>1, <2>1, <3>6
    <2>2. CASE j # Len(g) + 1
        <3>1. i \in 1..Len(g) /\ j \in 1..Len(g)
            BY <1>1, <1>2, <2>2
        <3>2. QED
            BY <1>1, <1>2, <3>1 DEF Burst
    <2>3. QED
        BY <2>1, <2>2
<1> HIDE DEF h
<1>3. QED
    BY <1>2 DEF Burst, h

(* RateLimiter::check as a whole. *)
LEMMA CheckAccounts ==
    ASSUME NEW b \in Bucket, NEW t \in Nat, b.last_refill = t, NEW g \in Seq(Nat), Accounts(b, g),
           Burst(b, g)
    PROVE  LET c == try_consume(b)
               h == IF has_token(b) THEN Append(g, t) ELSE g
           IN  c \in Bucket /\ c.last_refill = t /\ Accounts(c, h) /\ Burst(c, h) /\ h \in Seq(Nat)
<1> DEFINE c == try_consume(b)
           h == IF has_token(b) THEN Append(g, t) ELSE g
<1>1. /\ c \in Bucket /\ c.last_refill = t /\ Accounts(c, h)
      /\ c.capacity = b.capacity /\ c.refill_per_second = b.refill_per_second
    BY ConsumeAccounts
<1>2. Burst(c, g)
    BY <1>1 DEF Burst
<1> HIDE DEF c
<1>3. Burst(c, h)
    BY <1>1, <1>2, GrantBurst
<1>4. h \in Seq(Nat)
    OBVIOUS
<1>5. QED
    BY <1>1, <1>3, <1>4 DEF c
-----------------------------------------------------------------------------
(***************************************************************************)
(* The key store.                                                          *)
(***************************************************************************)

(* insert and removal keep one key per hash. *)
LEMMA StoreChanges ==
    ASSUME NEW S \in KeySet, NEW k \in Keys
    PROVE  insert(S, k) \in KeySet /\ S \ {k} \in KeySet
    BY DEF KeySet, IsKeyStore, insert

(* A request that has seen a set that grants it still has after a change. *)
LEMMA InstallOK ==
    ASSUME TypeOK, SeenInv, NEW S \in KeySet, Install(S), UNCHANGED req
    PROVE  /\ store' \in KeySet /\ issued' \in SUBSET Tokens
           /\ seen' \in [Requests -> SUBSET KeySet]
           /\ SeenInv'
<1>1. \A k \in S : k.hash \in Tokens
    BY DEF KeySet, Tokens
<1>2. store' = S /\ issued' \in SUBSET Tokens
    BY <1>1 DEF Install, TypeOK
<1>3. seen' \in [Requests -> SUBSET KeySet]
    BY DEF Install, TypeOK
<1>4. \A r \in Requests : /\ seen[r] \subseteq seen'[r]
                          /\ req[r].pc # "idle" => S \in seen'[r]
    BY DEF Install, TypeOK
<1>5. SeenInv'
    BY <1>2, <1>4 DEF SeenInv
<1>6. QED
    BY <1>2, <1>3, <1>5

(* The keys of a set are what authenticate gives: those of the token. *)
LEMMA DecisionOfStore ==
    ASSUME NEW S, NEW token, NEW k \in authenticate(S, token)
    PROVE  k \in S /\ k \in Decision(S, token)
    BY DEF authenticate, Decision
-----------------------------------------------------------------------------
(***************************************************************************)
(* IInv holds initially, and every step keeps it: one lemma per action.    *)
(***************************************************************************)
LEMMA InitOK == Init => IInv
<1> SUFFICES ASSUME Init PROVE IInv
    OBVIOUS
<1>1. Idle \in [pc : {"idle"}, token : {None}, key : {anonymous}]
    BY DEF Idle
<1>2. TypeOK
    <2>1. now \in 0..MaxNow /\ store \in KeySet
        BY AdmissionAssumption DEF Init
    <2>2. req \in [Requests -> [pc : {"idle", "arrived", "lookup", "expiry", "rate"} \cup Answered,
                                token : Tokens, key : Keys \cup {anonymous}]]
        BY <1>1 DEF Init, Tokens
    <2>3. issued \in SUBSET Tokens
        BY DEF Init, Tokens, KeySet
    <2>4. grants \in [Ids -> Seq(Nat)]
        BY DEF Init
    <2>5. QED
        BY <2>1, <2>2, <2>3, <2>4 DEF Init, TypeOK
<1>3. SeenInv
    BY DEF Init, SeenInv, Idle
<1>4. BucketInv /\ BurstBound
    BY DEF Init, BucketInv, BurstBound
<1>5. ForgetInv
    BY DEF Init, ForgetInv
<1>6. QED
    BY <1>2, <1>3, <1>4, <1>5 DEF IInv

(* What does not touch the buckets keeps what is said of them. *)
LEMMA BucketsKept ==
    ASSUME IInv, UNCHANGED <<now, buckets, grants>>
    PROVE  BucketInv' /\ BurstBound'
<1>1. BucketInv'
    BY DEF IInv, BucketInv
<1>2. BurstBound'
    <2> SUFFICES ASSUME NEW id \in Ids, buckets[id] # None
                 PROVE  Burst(buckets[id], grants[id])
        BY DEF BurstBound, Burst
    <2>1. QED
        BY DEF IInv, BurstBound, Burst
<1>3. QED
    BY <1>1, <1>2

(* The middleware's steps up to the expiry check change only one request. *)
LEMMA ArriveOK ==
    ASSUME IInv, NEW r \in Requests, NEW token \in Tokens, Arrive(r, token)
    PROVE  IInv'
<1> DEFINE q == [pc |-> "arrived", token |-> token, key |-> anonymous]
<1>1. /\ req' = [req EXCEPT ![r] = q] /\ seen' = [seen EXCEPT ![r] = {store}]
      /\ UNCHANGED <<now, store, buckets, admin, grants, issued>>
    BY DEF Arrive
<1>2. TypeOK'
    BY <1>1 DEF IInv, TypeOK
<1>3. SeenInv'
    BY <1>1 DEF IInv, TypeOK, SeenInv
<1>4. ForgetInv'
    BY <1>1 DEF IInv, ForgetInv
<1>5. QED
    BY <1>1, <1>2, <1>3, <1>4, BucketsKept DEF IInv

LEMMA IsEmptyOK ==
    ASSUME IInv, NEW r \in Requests, IsEmpty(r)
    PROVE  IInv'
<1>1. /\ req[r].pc = "arrived"
      /\ req' = [req EXCEPT ![r].pc = IF store = {} THEN "expiry" ELSE "lookup"]
      /\ UNCHANGED <<now, store, buckets, admin, seen, grants, issued>>
    BY DEF IsEmpty
<1>2. TypeOK'
    BY <1>1, ZenonT(60) DEF IInv, TypeOK
<1>3. SeenInv'
    <2>1. store = {} => req[r].key \in Decision(store, req[r].token)
        BY <1>1 DEF IInv, SeenInv, Decision
    <2>2. store \in seen[r]
        BY <1>1 DEF IInv, SeenInv
    <2>3. QED
        BY <1>1, <2>1, <2>2 DEF IInv, TypeOK, SeenInv
<1>4. ForgetInv'
    BY <1>1 DEF IInv, ForgetInv
<1>5. QED
    BY <1>1, <1>2, <1>3, <1>4, BucketsKept DEF IInv

LEMMA AuthenticateOK ==
    ASSUME IInv, NEW r \in Requests, Authenticate(r)
    PROVE  IInv'
<1>1. /\ req[r].pc = "lookup"
      /\ UNCHANGED <<now, store, buckets, admin, seen, grants, issued>>
    BY DEF Authenticate
<1>2. store \in seen[r] /\ store \subseteq Keys
    BY <1>1 DEF IInv, TypeOK, SeenInv, KeySet
<1>3. TypeOK' /\ SeenInv'
    <2>1. CASE req' = [req EXCEPT ![r].pc = "unauthorized"]
        <3>1. TypeOK'
            BY <1>1, <2>1, ZenonT(60) DEF IInv, TypeOK, Answered
        <3>2. SeenInv'
            BY <1>1, <2>1 DEF IInv, TypeOK, SeenInv
        <3>3. QED
            BY <3>1, <3>2
    <2>2. ASSUME NEW k \in authenticate(store, req[r].token),
                 req' = [req EXCEPT ![r].pc = "expiry", ![r].key = k]
          PROVE  TypeOK' /\ SeenInv'
        <3>1. k \in Keys /\ k \in Decision(store, req[r].token)
            BY <1>2, DecisionOfStore
        <3>2. TypeOK'
            BY <1>1, <2>2, <3>1, ZenonT(60) DEF IInv, TypeOK
        <3>3. SeenInv'
            BY <1>1, <1>2, <2>2, <3>1 DEF IInv, TypeOK, SeenInv
        <3>4. QED
            BY <3>2, <3>3
    <2>3. QED
        BY <2>1, <2>2 DEF Authenticate
<1>4. ForgetInv'
    BY <1>1 DEF IInv, ForgetInv
<1>5. QED
    BY <1>1, <1>3, <1>4, BucketsKept DEF IInv

LEMMA CheckExpiryOK ==
    ASSUME IInv, NEW r \in Requests, CheckExpiry(r)
    PROVE  IInv'
<1> DEFINE pc == IF is_expired(req[r].key, now) THEN "expired"
                 ELSE IF req[r].key.rate_limit_rps = None THEN "admitted" ELSE "rate"
<1>1. /\ req[r].pc = "expiry" /\ req' = [req EXCEPT ![r].pc = pc]
      /\ UNCHANGED <<now, store, buckets, admin, seen, grants, issued>>
    BY DEF CheckExpiry
<1>2. /\ pc \in {"expired", "admitted", "rate"}
      /\ pc = "rate" => req[r].key.rate_limit_rps # None
    OBVIOUS
<1> HIDE DEF pc
<1>3. TypeOK'
    BY <1>1, <1>2, ZenonT(60) DEF IInv, TypeOK, Answered
<1>4. SeenInv'
    <2>1. pc = "rate" => req[r].key \in Keys
        BY <1>2 DEF IInv, TypeOK, anonymous
    <2>2. QED
        BY <1>1, <1>2, <2>1 DEF IInv, TypeOK, SeenInv
<1>5. ForgetInv'
    BY <1>1 DEF IInv, ForgetInv
<1>6. QED
    BY <1>1, <1>3, <1>4, <1>5, BucketsKept DEF IInv

(* RateLimiter::check on the bucket that the requests of a key share. *)
LEMMA CheckRateOK ==
    ASSUME IInv, NEW r \in Requests, CheckRate(r)
    PROVE  IInv'
<1> DEFINE k == req[r].key
           id == identifier(k)
           b == BucketFor(k)
           c == try_consume(b)
           h == IF has_token(b) THEN Append(grants[id], now) ELSE grants[id]
           pc == IF has_token(b) THEN "admitted" ELSE "limited"
<1>1. /\ req[r].pc = "rate"
      /\ buckets' = [buckets EXCEPT ![id] = c]
      /\ grants' = [grants EXCEPT ![id] = h]
      /\ req' = [req EXCEPT ![r].pc = pc]
      /\ UNCHANGED <<now, store, admin, seen, issued>>
    BY DEF CheckRate
<1>2. k \in Keys /\ id \in Ids /\ k.rate_limit_rps \in Nat
    <2>1. k \in Keys /\ k.rate_limit_rps # None
        BY <1>1 DEF IInv, SeenInv
    <2>2. QED
        BY <2>1, AdmissionAssumption DEF Ids
<1>3. now \in Nat /\ grants[id] \in Seq(Nat) /\ buckets[id] \in Bucket \cup {None}
    BY <1>2, AdmissionAssumption DEF IInv, TypeOK
<1>4. b \in Bucket /\ b.last_refill = now /\ Accounts(b, grants[id]) /\ Burst(b, grants[id])
    <2>1. CASE buckets[id] = None
        <3>1. b = TokenBucket_new(k.rate_limit_rps, now) /\ grants[id] = <<>>
            BY <1>2, <2>1 DEF BucketFor, IInv, BucketInv
        <3>2. Burst(b, <<>>)
            BY DEF Burst
        <3>3. QED
            BY <1>2, <1>3, <3>1, <3>2, NewBucket
    <2>2. CASE buckets[id] # None
        <3>1. b = refilled(buckets[id], now)
            BY <2>2 DEF BucketFor
        <3>2. buckets[id].last_refill <= now /\ Accounts(buckets[id], grants[id])
            BY <1>2, <2>2 DEF IInv, BucketInv
        <3>3. Burst(buckets[id], grants[id])
            BY <1>2, <2>2 DEF IInv, BurstBound, Burst
        <3>4. /\ b \in Bucket /\ b.last_refill = now /\ Accounts(b, grants[id])
              /\ b.capacity = buckets[id].capacity
              /\ b.refill_per_second = buckets[id].refill_per_second
            BY <1>3, <2>2, <3>1, <3>2, RefillAccounts
        <3> HIDE DEF b
        <3>5. QED
            BY <3>3, <3>4 DEF Burst
    <2>3. QED
        BY <2>1, <2>2
<1>5. c \in Bucket /\ c.last_refill = now /\ Accounts(c, h) /\ Burst(c, h) /\ h \in Seq(Nat)
    <2> HIDE DEF b
    <2>1. QED
        BY <1>3, <1>4, CheckAccounts
<1>6. pc \in {"admitted", "limited"}
    OBVIOUS
<1> HIDE DEF b, c, h, pc
<1>7. TypeOK'
    <2>1. buckets' \in [Ids -> Bucket \cup {None}] /\ grants' \in [Ids -> Seq(Nat)]
        BY <1>1, <1>5 DEF IInv, TypeOK
    <2>2. req' \in [Requests -> [pc : {"idle", "arrived", "lookup", "expiry", "rate"} \cup Answered,
                                 token : Tokens, key : Keys \cup {anonymous}]]
        BY <1>1, <1>6, SMTT(20) DEF IInv, TypeOK, Answered
    <2>3. QED
        BY <1>1, <2>1, <2>2 DEF IInv, TypeOK
<1>8. SeenInv'
    BY <1>1, <1>6 DEF IInv, TypeOK, SeenInv
<1> HIDE DEF id
<1>9. ASSUME NEW other \in Ids
      PROVE  IF other = id THEN buckets'[other] = c /\ grants'[other] = h
             ELSE buckets'[other] = buckets[other] /\ grants'[other] = grants[other]
    BY <1>1, <1>2 DEF IInv, TypeOK
<1>10. BucketInv'
    <2> SUFFICES ASSUME NEW other \in Ids
                 PROVE  IF buckets'[other] = None THEN grants'[other] = <<>>
                        ELSE buckets'[other].last_refill <= now' /\ Accounts(buckets'[other], grants'[other])
        BY DEF BucketInv, Accounts
    <2>1. CASE other = id
        BY <1>1, <1>3, <1>5, <1>9, <2>1, BucketAssumption
    <2>2. CASE other # id
        BY <1>1, <1>9, <2>2 DEF IInv, BucketInv
    <2>3. QED
        BY <2>1, <2>2
<1>11. BurstBound'
    <2> SUFFICES ASSUME NEW other \in Ids, buckets'[other] # None
                 PROVE  Burst(buckets'[other], grants'[other])
        BY DEF BurstBound, Burst
    <2>1. CASE other = id
        BY <1>5, <1>9, <2>1
    <2>2. CASE other # id
        BY <1>9, <2>2 DEF IInv, BurstBound, Burst
    <2>3. QED
        BY <2>1, <2>2
<1>12. ForgetInv'
    BY <1>1 DEF IInv, ForgetInv
<1>13. QED
    BY <1>7, <1>8, <1>10, <1>11, <1>12 DEF IInv

LEMMA LeaveOK ==
    ASSUME IInv, NEW r \in Requests, Leave(r)
    PROVE  IInv'
<1>1. /\ req' = [req EXCEPT ![r] = Idle] /\ seen' = [seen EXCEPT ![r] = {}]
      /\ UNCHANGED <<now, store, buckets, admin, grants, issued>>
    BY DEF Leave
<1>2. Idle \in [pc : {"idle"}, token : Tokens, key : {anonymous}]
    BY DEF Idle, Tokens
<1>3. TypeOK'
    BY <1>1, <1>2 DEF IInv, TypeOK
<1>4. SeenInv'
    BY <1>1, <1>2 DEF IInv, TypeOK, SeenInv
<1>5. ForgetInv'
    BY <1>1 DEF IInv, ForgetInv
<1>6. QED
    BY <1>1, <1>3, <1>4, <1>5, BucketsKept DEF IInv

(* The three changes of the key store. *)
LEMMA create_keyOK ==
    ASSUME IInv, NEW k \in Keys, create_key(k)
    PROVE  IInv'
<1>1. insert(store, k) \in KeySet
    BY StoreChanges DEF IInv, TypeOK
<1>2. Install(insert(store, k)) /\ UNCHANGED <<now, buckets, req, admin, grants>>
    BY DEF create_key
<1>3. /\ store' \in KeySet /\ issued' \in SUBSET Tokens
      /\ seen' \in [Requests -> SUBSET KeySet] /\ SeenInv'
    BY <1>1, <1>2, InstallOK DEF IInv
<1>4. TypeOK' /\ ForgetInv'
    BY <1>2, <1>3 DEF IInv, TypeOK, ForgetInv
<1>5. QED
    BY <1>2, <1>3, <1>4, BucketsKept DEF IInv

LEMMA delete_keyOK ==
    ASSUME IInv, NEW a \in Admins, NEW k \in Keys, delete_key(a, k)
    PROVE  IInv'
<1>1. store \ {k} \in KeySet
    BY StoreChanges DEF IInv, TypeOK
<1>2. /\ Install(store \ {k}) /\ UNCHANGED <<now, buckets, req, grants>>
      /\ admin' = [admin EXCEPT ![a] = [pc |-> "forget_rate", id |-> identifier(k)]]
    BY DEF delete_key
<1>3. /\ store' \in KeySet /\ issued' \in SUBSET Tokens
      /\ seen' \in [Requests -> SUBSET KeySet] /\ SeenInv'
    BY <1>1, <1>2, InstallOK DEF IInv
<1>4. identifier(k) \in Ids
    BY DEF Ids
<1>5. TypeOK' /\ ForgetInv'
    BY <1>2, <1>3, <1>4 DEF IInv, TypeOK, ForgetInv
<1>6. QED
    BY <1>2, <1>3, <1>5, BucketsKept DEF IInv

LEMMA replace_allOK ==
    ASSUME IInv, NEW S \in KeySet, replace_all(S)
    PROVE  IInv'
<1>1. Install(S) /\ UNCHANGED <<now, buckets, req, admin, grants>>
    BY DEF replace_all
<1>2. /\ store' \in KeySet /\ issued' \in SUBSET Tokens
      /\ seen' \in [Requests -> SUBSET KeySet] /\ SeenInv'
    BY <1>1, InstallOK DEF IInv
<1>3. TypeOK' /\ ForgetInv'
    BY <1>1, <1>2 DEF IInv, TypeOK, ForgetInv
<1>4. QED
    BY <1>1, <1>2, <1>3, BucketsKept DEF IInv

(* Forgetting a bucket forgets its grants with it. *)
LEMMA ForgetRateOK ==
    ASSUME IInv, NEW a \in Admins, ForgetRate(a)
    PROVE  IInv'
<1> DEFINE id == admin[a].id
<1>1. /\ admin[a].pc = "forget_rate"
      /\ buckets' = [buckets EXCEPT ![id] = None] /\ grants' = [grants EXCEPT ![id] = <<>>]
      /\ admin' = [admin EXCEPT ![a] = [pc |-> "idle", id |-> None]]
      /\ UNCHANGED <<now, store, req, seen, issued>>
    BY DEF ForgetRate
<1>2. TypeOK'
    <2>1. <<>> \in Seq(Nat)
        OBVIOUS
    <2>2. QED
        BY <1>1, <2>1 DEF IInv, TypeOK
<1>3. SeenInv'
    BY <1>1 DEF IInv, SeenInv
<1>4. ForgetInv'
    BY <1>1 DEF IInv, TypeOK, ForgetInv
<1> HIDE DEF id
<1>5. \A other \in Ids : \/ buckets'[other] = None /\ grants'[other] = <<>>
                         \/ buckets'[other] = buckets[other] /\ grants'[other] = grants[other]
    BY <1>1 DEF IInv, TypeOK
<1>6. BucketInv'
    BY <1>1, <1>5 DEF IInv, BucketInv, Accounts
<1>7. BurstBound'
    <2> SUFFICES ASSUME NEW other \in Ids, buckets'[other] # None
                 PROVE  Burst(buckets'[other], grants'[other])
        BY DEF BurstBound, Burst
    <2>1. QED
        BY <1>5 DEF IInv, BurstBound, Burst
<1>8. QED
    BY <1>2, <1>3, <1>4, <1>6, <1>7 DEF IInv

LEMMA TickOK ==
    ASSUME IInv, Tick
    PROVE  IInv'
<1>1. now' = now + 1 /\ now < MaxNow /\ UNCHANGED <<store, buckets, req, admin, seen, grants, issued>>
    BY DEF Tick
<1>2. TypeOK'
    BY <1>1, AdmissionAssumption DEF IInv, TypeOK
<1>3. SeenInv' /\ ForgetInv'
    BY <1>1 DEF IInv, SeenInv, ForgetInv
<1>4. BucketInv'
    <2>1. ASSUME NEW id \in Ids, buckets[id] # None
          PROVE  buckets[id].last_refill <= now + 1 /\ Accounts(buckets[id], grants[id])
        <3>1. buckets[id].last_refill \in Nat /\ now \in Nat
            BY <2>1, AdmissionAssumption DEF IInv, TypeOK, Bucket
        <3>2. QED
            BY <2>1, <3>1 DEF IInv, BucketInv
    <2>2. QED
        BY <1>1, <2>1 DEF IInv, BucketInv, Accounts
<1>5. BurstBound'
    BY <1>1 DEF IInv, BurstBound
<1>6. QED
    BY <1>2, <1>3, <1>4, <1>5 DEF IInv

LEMMA StepOK == IInv /\ [Next]_vars => IInv'
<1> SUFFICES ASSUME IInv, [Next]_vars PROVE IInv'
    OBVIOUS
<1>1. CASE UNCHANGED vars
    <2>1. TypeOK' /\ ForgetInv'
        BY <1>1 DEF vars, IInv, TypeOK, ForgetInv
    <2>2. SeenInv'
        BY <1>1 DEF vars, IInv, SeenInv
    <2>3. QED
        BY <1>1, <2>1, <2>2, BucketsKept DEF vars, IInv
<1>2. CASE \E r \in Requests : \/ \E token \in Tokens : Arrive(r, token)
                               \/ IsEmpty(r) \/ Authenticate(r) \/ CheckExpiry(r)
                               \/ CheckRate(r) \/ Leave(r)
    BY <1>2, ArriveOK, IsEmptyOK, AuthenticateOK, CheckExpiryOK, CheckRateOK, LeaveOK
<1>3. CASE \/ \E k \in Keys : create_key(k)
           \/ \E a \in Admins : \E k \in Keys : delete_key(a, k)
           \/ \E a \in Admins : ForgetRate(a)
           \/ \E S \in KeySet : replace_all(S)
           \/ Tick
    BY <1>3, create_keyOK, delete_keyOK, ForgetRateOK, replace_allOK, TickOK
<1>4. QED
    BY <1>1, <1>2, <1>3 DEF Next
-----------------------------------------------------------------------------
(***************************************************************************)
(* The theorems.                                                           *)
(***************************************************************************)

(* IInv is inductive: it holds of every reachable state of the middleware, *)
(* the key store and the rate limiter.                                     *)
THEOREM InductiveInvariant == Spec => []IInv
    BY InitOK, StepOK, PTL DEF Spec

(* KeyStore keeps one key per hash, RateLimiter's buckets stay buckets     *)
(* (available is never negative) and the middleware keeps its shape.       *)
THEOREM TypeCorrect == Spec => []TypeOK
<1>1. IInv => TypeOK
    BY DEF IInv
<1>2. QED
    BY <1>1, InductiveInvariant, PTL

(* However the key store changes between the two read locks of the         *)
(* authenticate middleware, an admitted request was admitted under a key   *)
(* that one key set, held since the request arrived, grants its token.     *)
THEOREM OneKeySetAdmits == Spec => []AdmissionFollowsOneKeySet
<1>1. IInv => AdmissionFollowsOneKeySet
    BY DEF IInv, SeenInv, AdmissionFollowsOneKeySet
<1>2. QED
    BY <1>1, InductiveInvariant, PTL

(* RateLimiter::check: no window holds more grants of a bucket than its    *)
(* capacity and its refill in that window, for every rate and number of    *)
(* requests.                                                               *)
THEOREM BurstIsBounded == Spec => []BurstBound
<1>1. IInv => BurstBound
    BY DEF IInv
<1>2. QED
    BY <1>1, InductiveInvariant, PTL
-----------------------------------------------------------------------------
(***************************************************************************)
(* The calendar.                                                           *)
(***************************************************************************)
Leap(y) == IF y % 4 = 0 THEN 1 ELSE 0

(* y is the year of day d. *)
InYear(d, y) == y \in 2024..LastYear /\ FirstDay(y) <= d /\ d < FirstDay(y + 1)

(* The first day of a year, by the number of leap years before it. *)
LEMMA FirstDays ==
    ASSUME NEW y \in Int, y >= 2021
    PROVE  /\ FirstDay(y) \in Int
           /\ FirstDay(y + 1) = FirstDay(y) + 365 + Leap(y)
<1> DEFINE q == (y - 2021) \div 4
           r == (y - 2021) % 4
<1>1. q \in Int /\ r \in 0..3 /\ y - 2021 = 4 * q + r
    OBVIOUS
<1>2. ((y + 1) - 2021) \div 4 = IF r = 3 THEN q + 1 ELSE q
    OBVIOUS
<1>3. Leap(y) = IF r = 3 THEN 1 ELSE 0
    BY DEF Leap
<1> HIDE DEF q, r
<1>4. FirstDay(y) = 365 * (y - 2024) + q
    BY DEF FirstDay, q
<1>5. FirstDay(y + 1) = 365 * ((y + 1) - 2024) + (IF r = 3 THEN q + 1 ELSE q)
    BY <1>2 DEF FirstDay
<1>6. QED
    BY <1>1, <1>3, <1>4, <1>5

(* Years follow one another. *)
LEMMA LaterYears ==
    ASSUME NEW y \in Int, NEW z \in Int, 2021 <= y, y < z
    PROVE  FirstDay(y + 1) <= FirstDay(z)
<1>1. (y + 1 - 2021) \div 4 <= (z - 2021) \div 4
    OBVIOUS
<1>2. QED
    BY <1>1 DEF FirstDay

(* year finds the only year that a day is in. *)
LEMMA YearIs ==
    ASSUME NEW d \in Int, NEW y, InYear(d, y)
    PROVE  /\ year(d) = y
           /\ ordinal(d) \in 1..(365 + Leap(y)) /\ ordinal(d) = d - FirstDay(y) + 1
<1>1. y \in Int /\ y >= 2024 /\ FirstDay(y) \in Int /\ FirstDay(y + 1) = FirstDay(y) + 365 + Leap(y)
    BY PeriodTokenAssumption, FirstDays DEF InYear
<1>2. /\ year(d) \in 2024..LastYear
      /\ FirstDay(year(d)) <= d /\ d < FirstDay(year(d) + 1)
    BY DEF year, InYear
<1>3. year(d) = y
    <2> DEFINE z == year(d)
    <2>1. z \in Int /\ z >= 2024 /\ FirstDay(z) \in Int /\ FirstDay(z + 1) \in Int /\ FirstDay(y + 1) \in Int
        BY <1>1, <1>2, PeriodTokenAssumption, FirstDays
    <2>2. FirstDay(z) <= d /\ d < FirstDay(z + 1) /\ FirstDay(y) <= d /\ d < FirstDay(y + 1)
        BY <1>2 DEF InYear
    <2> HIDE DEF z
    <2>3. ~ (y < z)
        BY <1>1, <2>1, <2>2, LaterYears
    <2>4. ~ (z < y)
        BY <1>1, <2>1, <2>2, LaterYears
    <2>5. QED
        BY <1>1, <2>1, <2>3, <2>4 DEF z
<1>4. Leap(y) \in {0, 1}
    BY DEF Leap
<1>5. QED
    BY <1>1, <1>3, <1>4 DEF ordinal, InYear

(* The months. *)
LEMMA Months ==
    ASSUME NEW y \in Int
    PROVE  LET l == Leap(y)
           IN  /\ l \in {0, 1}
               /\ Before(y, 1) = 0 /\ Before(y, 2) = 31 /\ Before(y, 3) = 59 + l
               /\ Before(y, 4) = 90 + l /\ Before(y, 5) = 120 + l /\ Before(y, 6) = 151 + l
               /\ Before(y, 7) = 181 + l /\ Before(y, 8) = 212 + l /\ Before(y, 9) = 243 + l
               /\ Before(y, 10) = 273 + l /\ Before(y, 11) = 304 + l /\ Before(y, 12) = 334 + l
    BY DEF Before, Leap

(* The last day of a month. *)
After(y, m) == IF m = 12 THEN 365 + Leap(y) ELSE Before(y, m + 1)

(* month finds the only month that a day is in. *)
LEMMA MonthIs ==
    ASSUME NEW d \in Int, NEW y, InYear(d, y), NEW m \in 1..12,
           Before(y, m) < ordinal(d), ordinal(d) <= After(y, m)
    PROVE  month(d) = m
<1>1. year(d) = y /\ ordinal(d) \in Int /\ y \in Int
    BY PeriodTokenAssumption, YearIs DEF InYear
<1>2. \A n \in 1..12 : Before(y, n) \in Int /\ (Before(y, n) < ordinal(d) => n <= m)
    BY <1>1, Months DEF After
<1>3. \E k \in 1..12 : /\ Before(y, k) < ordinal(d)
                       /\ \A n \in 1..12 : Before(y, n) < ordinal(d) => n <= k
    BY <1>2
<1>4. /\ month(d) \in 1..12 /\ Before(y, month(d)) < ordinal(d)
      /\ \A n \in 1..12 : Before(y, n) < ordinal(d) => n <= month(d)
    BY <1>1, <1>3 DEF month
<1>5. month(d) <= m /\ m <= month(d)
    BY <1>2, <1>4
<1>6. QED
    BY <1>4, <1>5

(* Every day is in a month. *)
LEMMA MonthOf ==
    ASSUME NEW d \in Int, NEW y, InYear(d, y)
    PROVE  \E m \in 1..12 : Before(y, m) < ordinal(d) /\ ordinal(d) <= After(y, m)
<1>1. y \in Int /\ ordinal(d) \in 1..(365 + Leap(y))
    BY PeriodTokenAssumption, YearIs DEF InYear
<1>2. Leap(y) \in {0, 1}
    BY DEF Leap
<1>3. PICK m \in 1..12 : /\ Before(y, m) < ordinal(d)
                         /\ m # 12 => ~ (Before(y, m + 1) < ordinal(d))
    BY <1>1, <1>2, Months
<1>4. QED
    BY <1>1, <1>2, <1>3, Months DEF After
-----------------------------------------------------------------------------
(***************************************************************************)
(* civil_from_days, for the days of this century: it counts in years that  *)
(* begin in March, from the year 2000.                                     *)
(***************************************************************************)

(* Day doe of the era is day doy of its year 4 * a + b: a cycle of four    *)
(* years has 1461 days, the last of its years 366.                         *)
DayOfEra(doe, a, b, doy) ==
    /\ a \in 0..24 /\ b \in 0..3 /\ doy \in 0..365 /\ (b # 3 => doy < 365)
    /\ doe = 1461 * a + 365 * b + doy /\ doe < 36524

YearOfEra(doe) == (doe - doe \div 1460 + doe \div 36524 - doe \div 146096) \div 365

(* The divisions by which civil_from_days finds the year of the era. *)
LEMMA YearOfEraIs ==
    ASSUME NEW a, NEW b, NEW doy, NEW doe, DayOfEra(doe, a, b, doy)
    PROVE  YearOfEra(doe) = 4 * a + b
<1> USE DEF DayOfEra
<1> DEFINE q == doe \div 1460
<1>1. doe \in Nat /\ q \in Nat /\ 1460 * q <= doe /\ doe < 1460 * q + 1460
    OBVIOUS
<1>2. doe \div 36524 = 0 /\ doe \div 146096 = 0
    BY <1>1
<1>3. YearOfEra(doe) = (doe - q) \div 365
    BY <1>1, <1>2 DEF YearOfEra, q
<1> HIDE DEF q
<1>4. q = a \/ q = a + 1
    BY <1>1
<1>5. 365 * (4 * a + b) <= doe - q /\ doe - q < 365 * (4 * a + b) + 365
    BY <1>1, <1>4
<1>6. doe - q \in Int /\ 4 * a + b \in Int
    BY <1>1
<1>7. ASSUME NEW n \in Int, NEW k \in Int, 365 * k <= n, n < 365 * k + 365
      PROVE  n \div 365 = k
    BY <1>7
<1>8. (doe - q) \div 365 = 4 * a + b
    BY <1>5, <1>6, <1>7
<1>9. QED
    BY <1>3, <1>8

(* What is left to compute once the year is known. *)
LEMMA CivilIs ==
    ASSUME NEW n \in Nat, NEW a, NEW b, NEW doy,
           DayOfEra(n + 719468 - 5 * 146097, a, b, doy),
           NEW mp, mp = (5 * doy + 2) \div 153,
           NEW m, m = IF mp < 10 THEN mp + 3 ELSE mp - 9
    PROVE  civil_from_days(n) =
              [year |-> 4 * a + b + 2000 + (IF m <= 2 THEN 1 ELSE 0), month |-> m,
               day |-> doy - (153 * mp + 2) \div 5 + 1]
<1> DEFINE z   == n + 719468
           era == z \div 146097
           doe == z - era * 146097
           yoe == (doe - doe \div 1460 + doe \div 36524 - doe \div 146096) \div 365
           dof == doe - (365 * yoe + yoe \div 4 - yoe \div 100)
<1>1. era = 5
    BY DEF DayOfEra
<1>2. doe = n + 719468 - 5 * 146097
    BY <1>1
<1>3. yoe = YearOfEra(doe)
    BY DEF YearOfEra
<1> HIDE DEF doe, yoe
<1>4. yoe = 4 * a + b /\ doe = 1461 * a + 365 * b + doy
    <2>1. DayOfEra(doe, a, b, doy)
        BY <1>2
    <2>2. yoe = 4 * a + b
        BY <1>3, <2>1, YearOfEraIs
    <2>3. QED
        BY <2>1, <2>2 DEF DayOfEra
<1>o. yoe \div 4 = a /\ yoe \div 100 = 0
    BY <1>4 DEF DayOfEra
<1>5. dof = doy
    BY <1>4, <1>o DEF DayOfEra
<1>6. civil_from_days(n) =
         LET mq == (5 * dof + 2) \div 153
             k  == IF mq < 10 THEN mq + 3 ELSE mq - 9
         IN  [year |-> yoe + era * 400 + (IF k <= 2 THEN 1 ELSE 0), month |-> k,
              day |-> dof - (153 * mq + 2) \div 5 + 1]
    BY DEF civil_from_days, doe, yoe
<1> HIDE DEF era, dof
<1>7. civil_from_days(n) =
         [year |-> (4 * a + b) + 5 * 400 + (IF m <= 2 THEN 1 ELSE 0), month |-> m,
          day |-> doy - (153 * mp + 2) \div 5 + 1]
    BY <1>1, <1>4, <1>5, <1>6
<1>8. (4 * a + b) + 5 * 400 + (IF m <= 2 THEN 1 ELSE 0) = 4 * a + b + 2000 + (IF m <= 2 THEN 1 ELSE 0)
    BY DEF DayOfEra
<1>9. QED
    BY <1>7, <1>8

(* The months from March on: the divisions by 153 and by 5 find them. *)
DayFromMarch(y, m, o) == IF m > 2 THEN o - 60 - Leap(y) ELSE o + 305

(* The divisions by which it finds month and day in a year that begins in  *)
(* March.                                                                  *)
LEMMA MonthFromMarch ==
    ASSUME NEW y \in Int, NEW m \in 1..12, NEW o \in Int, Before(y, m) < o, o <= After(y, m),
           NEW doy, doy = DayFromMarch(y, m, o), NEW mp, mp = (5 * doy + 2) \div 153
    PROVE  /\ doy \in 0..(364 + Leap(y)) /\ (m > 2 => doy < 365)
           /\ mp = IF m > 2 THEN m - 3 ELSE m + 9
           /\ doy - (153 * mp + 2) \div 5 + 1 = o - Before(y, m)
<1> DEFINE l == Leap(y)
<1>1. /\ l \in {0, 1}
      /\ Before(y, 1) = 0 /\ Before(y, 2) = 31 /\ Before(y, 3) = 59 + l
      /\ Before(y, 4) = 90 + l /\ Before(y, 5) = 120 + l /\ Before(y, 6) = 151 + l
      /\ Before(y, 7) = 181 + l /\ Before(y, 8) = 212 + l /\ Before(y, 9) = 243 + l
      /\ Before(y, 10) = 273 + l /\ Before(y, 11) = 304 + l /\ Before(y, 12) = 334 + l
    BY Months
<1>2. doy = (IF m > 2 THEN o - 60 - l ELSE o + 305) /\ o <= IF m = 12 THEN 365 + l ELSE Before(y, m + 1)
    BY DEF DayFromMarch, After
<1>l. Leap(y) = l /\ l \in {0, 1}
    BY <1>1
<1> HIDE DEF l
<1>3. CASE m = 1
    <2>1. doy \in 306..336 /\ doy <= 364 + l /\ doy - 306 + 1 = o - Before(y, m)
        BY <1>1, <1>2, <1>3
    <2>2. mp = 10
        BY <2>1
    <2>3. (153 * mp + 2) \div 5 = 306
        BY <2>2
    <2>4. mp = (IF m > 2 THEN m - 3 ELSE m + 9) /\ (m > 2 => doy < 365)
        BY <1>3, <2>1, <2>2
    <2>5. doy \in 0..(364 + Leap(y))
        BY <1>l, <2>1
    <2>6. QED
        BY <2>1, <2>3, <2>4, <2>5
<1>4. CASE m = 2
    <2>1. doy \in 337..365 /\ doy <= 364 + l /\ doy - 337 + 1 = o - Before(y, m)
        BY <1>1, <1>2, <1>4
    <2>2. mp = 11
        BY <2>1
    <2>3. (153 * mp + 2) \div 5 = 337
        BY <2>2
    <2>4. mp = (IF m > 2 THEN m - 3 ELSE m + 9) /\ (m > 2 => doy < 365)
        BY <1>4, <2>1, <2>2
    <2>5. doy \in 0..(364 + Leap(y))
        BY <1>l, <2>1
    <2>6. QED
        BY <2>1, <2>3, <2>4, <2>5
<1>5. CASE m = 3
    <2>1. doy \in Nat /\ doy <= 30 /\ doy <= 364 + l /\ doy + 1 = o - Before(y, m)
        BY <1>1, <1>2, <1>5
    <2>2. mp = 0
        BY <2>1
    <2>3. (153 * mp + 2) \div 5 = 0
        BY <2>2
    <2>4. mp = (IF m > 2 THEN m - 3 ELSE m + 9) /\ (m > 2 => doy < 365)
        BY <1>5, <2>1, <2>2
    <2>5. doy \in 0..(364 + Leap(y))
        BY <1>l, <2>1
    <2>6. QED
        BY <2>1, <2>3, <2>4, <2>5
<1>6. CASE m = 4
    <2>1. doy \in 31..60 /\ doy <= 364 + l /\ doy - 31 + 1 = o - Before(y, m)
        BY <1>1, <1>2, <1>6
    <2>2. mp = 1
        BY <2>1
    <2>3. (153 * mp + 2) \div 5 = 31
        BY <2>2
    <2>4. mp = (IF m > 2 THEN m - 3 ELSE m + 9) /\ (m > 2 => doy < 365)
        BY <1>6, <2>1, <2>2
    <2>5. doy \in 0..(364 + Leap(y))
        BY <1>l, <2>1
    <2>6. QED
        BY <2>1, <2>3, <2>4, <2>5
<1>7. CASE m = 5
    <2>1. doy \in 61..91 /\ doy <= 364 + l /\ doy - 61 + 1 = o - Before(y, m)
        BY <1>1, <1>2, <1>7
    <2>2. mp = 2
        BY <2>1
    <2>3. (153 * mp + 2) \div 5 = 61
        BY <2>2
    <2>4. mp = (IF m > 2 THEN m - 3 ELSE m + 9) /\ (m > 2 => doy < 365)
        BY <1>7, <2>1, <2>2
    <2>5. doy \in 0..(364 + Leap(y))
        BY <1>l, <2>1
    <2>6. QED
        BY <2>1, <2>3, <2>4, <2>5
<1>8. CASE m = 6
    <2>1. doy \in 92..121 /\ doy <= 364 + l /\ doy - 92 + 1 = o - Before(y, m)
        BY <1>1, <1>2, <1>8
    <2>2. mp = 3
        BY <2>1
    <2>3. (153 * mp + 2) \div 5 = 92
        BY <2>2
    <2>4. mp = (IF m > 2 THEN m - 3 ELSE m + 9) /\ (m > 2 => doy < 365)
        BY <1>8, <2>1, <2>2
    <2>5. doy \in 0..(364 + Leap(y))
        BY <1>l, <2>1
    <2>6. QED
        BY <2>1, <2>3, <2>4, <2>5
<1>9. CASE m = 7
    <2>1. doy \in 122..152 /\ doy <= 364 + l /\ doy - 122 + 1 = o - Before(y, m)
        BY <1>1, <1>2, <1>9
    <2>2. mp = 4
        BY <2>1
    <2>3. (153 * mp + 2) \div 5 = 122
        BY <2>2
    <2>4. mp = (IF m > 2 THEN m - 3 ELSE m + 9) /\ (m > 2 => doy < 365)
        BY <1>9, <2>1, <2>2
    <2>5. doy \in 0..(364 + Leap(y))
        BY <1>l, <2>1
    <2>6. QED
        BY <2>1, <2>3, <2>4, <2>5
<1>10. CASE m = 8
    <2>1. doy \in 153..183 /\ doy <= 364 + l /\ doy - 153 + 1 = o - Before(y, m)
        BY <1>1, <1>2, <1>10
    <2>2. mp = 5
        BY <2>1
    <2>3. (153 * mp + 2) \div 5 = 153
        BY <2>2
    <2>4. mp = (IF m > 2 THEN m - 3 ELSE m + 9) /\ (m > 2 => doy < 365)
        BY <1>10, <2>1, <2>2
    <2>5. doy \in 0..(364 + Leap(y))
        BY <1>l, <2>1
    <2>6. QED
        BY <2>1, <2>3, <2>4, <2>5
<1>11. CASE m = 9
    <2>1. doy \in 184..213 /\ doy <= 364 + l /\ doy - 184 + 1 = o - Before(y, m)
        BY <1>1, <1>2, <1>11
    <2>2. mp = 6
        BY <2>1
    <2>3. (153 * mp + 2) \div 5 = 184
        BY <2>2
    <2>4. mp = (IF m > 2 THEN m - 3 ELSE m + 9) /\ (m > 2 => doy < 365)
        BY <1>11, <2>1, <2>2
    <2>5. doy \in 0..(364 + Leap(y))
        BY <1>l, <2>1
    <2>6. QED
        BY <2>1, <2>3, <2>4, <2>5
<1>12. CASE m = 10
    <2>1. doy \in 214..244 /\ doy <= 364 + l /\ doy - 214 + 1 = o - Before(y, m)
        BY <1>1, <1>2, <1>12
    <2>2. mp = 7
        BY <2>1
    <2>3. (153 * mp + 2) \div 5 = 214
        BY <2>2
    <2>4. mp = (IF m > 2 THEN m - 3 ELSE m + 9) /\ (m > 2 => doy < 365)
        BY <1>12, <2>1, <2>2
    <2>5. doy \in 0..(364 + Leap(y))
        BY <1>l, <2>1
    <2>6. QED
        BY <2>1, <2>3, <2>4, <2>5
<1>13. CASE m = 11
    <2>1. doy \in 245..274 /\ doy <= 364 + l /\ doy - 245 + 1 = o - Before(y, m)
        BY <1>1, <1>2, <1>13
    <2>2. mp = 8
        BY <2>1
    <2>3. (153 * mp + 2) \div 5 = 245
        BY <2>2
    <2>4. mp = (IF m > 2 THEN m - 3 ELSE m + 9) /\ (m > 2 => doy < 365)
        BY <1>13, <2>1, <2>2
    <2>5. doy \in 0..(364 + Leap(y))
        BY <1>l, <2>1
    <2>6. QED
        BY <2>1, <2>3, <2>4, <2>5
<1>14. CASE m = 12
    <2>1. doy \in 275..305 /\ doy <= 364 + l /\ doy - 275 + 1 = o - Before(y, m)
        BY <1>1, <1>2, <1>14
    <2>2. mp = 9
        BY <2>1
    <2>3. (153 * mp + 2) \div 5 = 275
        BY <2>2
    <2>4. mp = (IF m > 2 THEN m - 3 ELSE m + 9) /\ (m > 2 => doy < 365)
        BY <1>14, <2>1, <2>2
    <2>5. doy \in 0..(364 + Leap(y))
        BY <1>l, <2>1
    <2>6. QED
        BY <2>1, <2>3, <2>4, <2>5
<1>15. QED
    BY <1>3, <1>4, <1>5, <1>6, <1>7, <1>8, <1>9, <1>10, <1>11, <1>12, <1>13, <1>14

(* Where a day of the calendar is in the era, by cycles of four years: a   *)
(* year of the calendar begins two months before the era's.                *)
LEMMA DayInEra ==
    ASSUME NEW d \in Int, NEW y, InYear(d, y), NEW m \in 1..12,
           NEW doy \in 0..(364 + Leap(y)), doy = DayFromMarch(y, m, ordinal(d)), m > 2 => doy < 365
    PROVE  LET w == IF m > 2 THEN y - 2000 ELSE y - 2001
           IN  DayOfEra(d + 8706, w \div 4, w % 4, doy)
<1> DEFINE w == IF m > 2 THEN y - 2000 ELSE y - 2001
           a == w \div 4
           b == w % 4
           q == (y - 2021) \div 4
           r == (y - 2021) % 4
<1>1. /\ y \in Int /\ 2024 <= y /\ y <= 2099 /\ ordinal(d) \in Int
      /\ ordinal(d) = d - (365 * (y - 2024) + q) + 1
    <2>1. y \in Int /\ 2024 <= y /\ y <= 2099
        BY PeriodTokenAssumption DEF InYear
    <2>2. ordinal(d) \in 1..(365 + Leap(y)) /\ ordinal(d) = d - FirstDay(y) + 1
        BY YearIs
    <2>3. FirstDay(y) = 365 * (y - 2024) + q
        BY DEF FirstDay
    <2> HIDE DEF q
    <2>4. QED
        BY <2>1, <2>2, <2>3
<1>2. q \in Int /\ r \in 0..3 /\ y - 2021 = 4 * q + r /\ Leap(y) = IF r = 3 THEN 1 ELSE 0
    BY <1>1 DEF Leap
<1>3. w \in Int /\ w >= 23 /\ w <= 99 /\ a \in Int /\ b \in 0..3 /\ w = 4 * a + b
    BY <1>1
<1>4. m > 2 => a = (IF r = 3 THEN q + 6 ELSE q + 5) /\ b = (IF r = 3 THEN 0 ELSE r + 1)
    BY <1>1, <1>2, <1>3
<1>5. m <= 2 => a = q + 5 /\ b = r
    BY <1>1, <1>2, <1>3
<1>6. doy = IF m > 2 THEN ordinal(d) - 60 - Leap(y) ELSE ordinal(d) + 305
    BY DEF DayFromMarch
<1> HIDE DEF a, b, q, r
<1>7. a \in 0..24 /\ b \in 0..3
    <2> HIDE DEF w
    <2>1. QED
        BY <1>3
<1>8. d + 8706 = 1461 * a + 365 * b + doy
    BY <1>1, <1>2, <1>4, <1>5, <1>6
<1>9. doy \in 0..365 /\ (b # 3 => doy < 365)
    BY <1>2, <1>4, <1>5
<1>10. d + 8706 < 36524
    BY <1>1, <1>2, <1>6
<1>11. QED
    BY <1>7, <1>8, <1>9, <1>10 DEF DayOfEra, a, b

(* The date by civil_from_days is that of the calendar. *)
LEMMA SignedDate ==
    ASSUME NEW d \in Nat, NEW y, InYear(d, y)
    PROVE  civil_from_days(DaysToEpoch + d) =
              [year |-> year(d), month |-> month(d), day |-> ordinal(d) - Before(year(d), month(d))]
<1>1. PICK k \in 1..12 : Before(y, k) < ordinal(d) /\ ordinal(d) <= After(y, k)
    BY MonthOf
<1>2. year(d) = y /\ month(d) = k /\ y \in Int /\ ordinal(d) \in Int
    BY <1>1, PeriodTokenAssumption, YearIs, MonthIs DEF InYear
<1> DEFINE doy == DayFromMarch(y, k, ordinal(d))
           mp == (5 * doy + 2) \div 153
           m == IF mp < 10 THEN mp + 3 ELSE mp - 9
           w == IF k > 2 THEN y - 2000 ELSE y - 2001
           a == w \div 4
           b == w % 4
           n == DaysToEpoch + d
<1>3. /\ doy \in 0..(364 + Leap(y)) /\ (k > 2 => doy < 365)
      /\ mp = IF k > 2 THEN k - 3 ELSE k + 9
      /\ doy - (153 * mp + 2) \div 5 + 1 = ordinal(d) - Before(y, k)
    BY <1>1, <1>2, MonthFromMarch
<1> HIDE DEF doy, mp
<1>4. DayOfEra(d + 8706, a, b, doy)
    BY <1>3, DayInEra DEF doy
<1>5. m = k
    BY <1>3
<1>6. w = 4 * a + b
    BY <1>2
<1>7. n \in Nat /\ n + 719468 - 5 * 146097 = d + 8706
    BY DEF DaysToEpoch
<1> HIDE DEF a, b, n, m
<1>8. civil_from_days(n) =
         [year |-> 4 * a + b + 2000 + (IF m <= 2 THEN 1 ELSE 0), month |-> m,
          day |-> doy - (153 * mp + 2) \div 5 + 1]
    BY <1>4, <1>7, CivilIs DEF m, mp
<1>9. 4 * a + b + 2000 + (IF m <= 2 THEN 1 ELSE 0) = y
    BY <1>2, <1>5, <1>6
<1>10. civil_from_days(n) = [year |-> y, month |-> k, day |-> ordinal(d) - Before(y, k)]
    BY <1>3, <1>5, <1>8, <1>9
<1>11. QED
    BY <1>2, <1>10 DEF n

(* The clock stays within the years of the calendar. *)
ClockInv == day \in Nat /\ \E y \in 2024..LastYear : InYear(day, y)

(* The next day is in the same year or is the first of the next. *)
LEMMA NextDay ==
    ASSUME NEW y, day \in Nat, InYear(day, y), Midnight
    PROVE  /\ day' = day + 1 /\ day' \in Nat
           /\ \/ InYear(day', y)
              \/ InYear(day', y + 1) /\ day' = FirstDay(y + 1)
<1>1. /\ y \in Int /\ 2024 <= y /\ y <= LastYear /\ LastYear \in Int
      /\ FirstDay(y) <= day /\ day < FirstDay(y + 1)
      /\ day' = day + 1 /\ day' < FirstDay(LastYear + 1)
    BY PeriodTokenAssumption DEF InYear, Midnight
<1>2. FirstDay(y) \in Int /\ FirstDay(y + 1) \in Int /\ FirstDay((y + 1) + 1) \in Int
    BY <1>1, FirstDays
<1>3. FirstDay((y + 1) + 1) > FirstDay(y + 1)
    <2>1. FirstDay((y + 1) + 1) = FirstDay(y + 1) + 365 + Leap(y + 1)
        BY <1>1, FirstDays
    <2>2. Leap(y + 1) \in {0, 1}
        BY DEF Leap
    <2>3. QED
        BY <1>2, <2>1, <2>2
<1>4. CASE day' < FirstDay(y + 1)
    BY <1>1, <1>2, <1>4 DEF InYear
<1>5. CASE day' = FirstDay(y + 1)
    <2>1. y # LastYear
        BY <1>1, <1>5
    <2>2. y + 1 \in 2024..LastYear
        BY <1>1, <2>1
    <2>3. InYear(day', y + 1)
        BY <1>2, <1>3, <1>5, <2>2 DEF InYear
    <2>4. QED
        BY <1>1, <1>5, <2>3
<1>6. QED
    BY <1>1, <1>2, <1>4, <1>5

(* The clock never leaves the calendar. *)
LEMMA ClockInvariant == ClockSpec => []ClockInv
<1>1. ClockInit => ClockInv
    <2> SUFFICES ASSUME ClockInit PROVE ClockInv
        OBVIOUS
    <2>1. day = 0 /\ 2024 \in 2024..LastYear
        BY PeriodTokenAssumption DEF ClockInit
    <2>2. FirstDay(2024) = 0 /\ FirstDay(2024 + 1) = 366
        BY DEF FirstDay
    <2>3. InYear(day, 2024)
        BY <2>1, <2>2 DEF InYear
    <2>4. QED
        BY <2>1, <2>3 DEF ClockInv
<1>2. ClockInv /\ [Midnight]_day => ClockInv'
    <2> SUFFICES ASSUME ClockInv, Midnight PROVE ClockInv'
        BY DEF ClockInv, InYear
    <2>1. PICK y \in 2024..LastYear : InYear(day, y)
        BY DEF ClockInv
    <2>2. day' \in Nat /\ (InYear(day', y) \/ InYear(day', y + 1))
        BY <2>1, NextDay DEF ClockInv
    <2>3. QED
        BY <2>2 DEF ClockInv, InYear
<1>3. QED
    BY <1>1, <1>2, PTL DEF ClockSpec

(* civil_from_days, which signs a request without the time crate, gives    *)
(* the date of the calendar on every day until the end of 2099.            *)
THEOREM DatesAreSigned == ClockSpec => []SignedDateIsTheDate
<1>1. ClockInv => SignedDateIsTheDate
    BY SignedDate DEF ClockInv, SignedDateIsTheDate
<1>2. QED
    BY <1>1, ClockInvariant, PTL
-----------------------------------------------------------------------------
(***************************************************************************)
(* The codes of the periods, from one day to the next.                     *)
(***************************************************************************)

(* The month code. *)
LEMMA MonthCodes ==
    ASSUME NEW y, day \in Nat, InYear(day, y), Midnight
    PROVE  LET before == year(day) * 100 + month(day)
               after  == year(day') * 100 + month(day')
           IN  IF month(day') = month(day) THEN before = after ELSE before < after
<1>1. day' = day + 1 /\ day' \in Nat /\ day \in Int /\ day' \in Int /\ y \in Int
    BY PeriodTokenAssumption, NextDay DEF InYear
<1>2. PICK m \in 1..12 : Before(y, m) < ordinal(day) /\ ordinal(day) <= After(y, m)
    BY <1>1, MonthOf
<1>3. /\ year(day) = y /\ month(day) = m
      /\ ordinal(day) \in 1..(365 + Leap(y)) /\ ordinal(day) = day - FirstDay(y) + 1
    BY <1>1, <1>2, YearIs, MonthIs
<1>4. FirstDay(y) \in Int /\ FirstDay(y + 1) = FirstDay(y) + 365 + Leap(y) /\ Leap(y) \in {0, 1}
    BY PeriodTokenAssumption, FirstDays DEF InYear, Leap
<1>5. CASE InYear(day', y)
    <2>1. PICK n \in 1..12 : Before(y, n) < ordinal(day') /\ ordinal(day') <= After(y, n)
        BY <1>1, <1>5, MonthOf
    <2>2. /\ year(day') = y /\ month(day') = n
          /\ ordinal(day') \in Int /\ ordinal(day') = day' - FirstDay(y) + 1
        BY <1>1, <1>5, <2>1, YearIs, MonthIs
    <2>3. ordinal(day) < ordinal(day')
        BY <1>1, <1>3, <1>4, <2>2
    <2>4. m <= n
        BY <1>1, <1>2, <1>3, <2>1, <2>2, <2>3, Months DEF After
    <2>5. QED
        BY <1>1, <1>3, <2>2, <2>4
<1>6. CASE InYear(day', y + 1) /\ day' = FirstDay(y + 1)
    <2>1. PICK n \in 1..12 : Before(y + 1, n) < ordinal(day') /\ ordinal(day') <= After(y + 1, n)
        BY <1>1, <1>6, MonthOf
    <2>2. year(day') = y + 1 /\ month(day') = n /\ ordinal(day') = 1
        BY <1>1, <1>4, <1>6, <2>1, YearIs, MonthIs
    <2>3. n = 1
        BY <1>1, <2>1, <2>2, Months
    <2>4. m = 12
        BY <1>1, <1>2, <1>3, <1>4, <1>6, Months DEF After
    <2>5. QED
        BY <1>1, <1>3, <2>2, <2>3, <2>4
<1>7. QED
    BY <1>5, <1>6, NextDay

(* The Thursday of a day's week. *)
Thursday(d) == d - weekday(d) + 3

(* The Thursday of the week of a day: the next day has the same, unless it *)
(* is a Monday.                                                            *)
LEMMA Thursdays ==
    ASSUME NEW d \in Nat
    PROVE  /\ Thursday(d) \in Int /\ d - 3 <= Thursday(d) /\ Thursday(d) <= d + 3
           /\ weekday(d + 1) # 0 => Thursday(d + 1) = Thursday(d)
           /\ weekday(d + 1) = 0 => Thursday(d + 1) = Thursday(d) + 7 /\ Thursday(d) = d - 3
<1> DEFINE q == d \div 7
           r == d % 7
<1>1. q \in Int /\ r \in 0..6 /\ d = 7 * q + r
    OBVIOUS
<1>2. (d + 1) % 7 = IF r = 6 THEN 0 ELSE r + 1
    OBVIOUS
<1> HIDE DEF q, r
<1>3. Thursday(d) = d - r + 3 /\ weekday(d + 1) = (IF r = 6 THEN 0 ELSE r + 1)
    BY <1>2 DEF Thursday, weekday, r
<1>4. Thursday(d + 1) = (d + 1) - (IF r = 6 THEN 0 ELSE r + 1) + 3
    BY <1>2 DEF Thursday, weekday
<1>5. QED
    BY <1>1, <1>3, <1>4

(* The week of a day in year y, which may be the last of the year before   *)
(* or the first of the next.                                               *)
LEMMA WeekIs ==
    ASSUME NEW d \in Nat, NEW y, InYear(d, y)
    PROVE  LET t == Thursday(d)
           IN  /\ FirstDay(y) <= t /\ t < FirstDay(y + 1) =>
                     iso_week(d) = (t - FirstDay(y)) \div 7 + 1
               /\ t < FirstDay(y) => iso_week(d) \in 52..53
               /\ t >= FirstDay(y + 1) => iso_week(d) = 1
               /\ iso_week(d) \in 1..53
<1> DEFINE t == Thursday(d)
           f == FirstDay(y)
           p == FirstDay(y - 1)
           n == FirstDay(y + 1)
           start == IF t < f THEN p ELSE IF t >= n THEN n ELSE f
<1>1. y \in Int /\ y >= 2024 /\ year(d) = y /\ f <= d /\ d < n
    BY PeriodTokenAssumption, YearIs DEF InYear
<1>2. f \in Int /\ n = f + 365 + Leap(y) /\ Leap(y) \in {0, 1}
    BY <1>1, FirstDays DEF Leap
<1>3. p \in Int /\ f = p + 365 + Leap(y - 1) /\ Leap(y - 1) \in {0, 1}
    <2>1. y - 1 \in Int /\ y - 1 >= 2021 /\ (y - 1) + 1 = y
        BY <1>1
    <2>2. p \in Int /\ FirstDay((y - 1) + 1) = p + 365 + Leap(y - 1)
        BY <2>1, FirstDays
    <2>3. QED
        BY <2>1, <2>2 DEF Leap
<1>4. t \in Int /\ d - 3 <= t /\ t <= d + 3
    BY Thursdays
<1>5. iso_week(d) = (t - start) \div 7 + 1
    BY <1>1 DEF iso_week, Thursday
<1> HIDE DEF t, f, p, n
<1>6. CASE t < f
    <2>1. start = p /\ t - p \in Int /\ 362 <= t - p /\ t - p <= 365
        BY <1>1, <1>2, <1>3, <1>4, <1>6
    <2>2. (t - p) \div 7 \in 51..52
        BY <2>1
    <2>3. iso_week(d) \in 52..53
        BY <1>5, <2>1, <2>2
    <2>4. QED
        BY <1>1, <1>2, <1>4, <1>6, <2>3 DEF t, f, n
<1>7. CASE t >= n
    <2>1. start = n /\ t - n \in Int /\ 0 <= t - n /\ t - n <= 2
        BY <1>1, <1>2, <1>3, <1>4, <1>7
    <2>2. (t - n) \div 7 = 0
        BY <2>1
    <2>3. iso_week(d) = 1
        BY <1>5, <2>1, <2>2
    <2>4. ~ (t < f) /\ ~ (t < n)
        BY <1>2, <1>4, <1>7
    <2>5. QED
        BY <2>3, <2>4 DEF t, f, n
<1>8. CASE f <= t /\ t < n
    <2>1. start = f /\ t - f \in Int /\ 0 <= t - f /\ t - f <= 365
        BY <1>1, <1>2, <1>3, <1>4, <1>8
    <2>2. (t - f) \div 7 \in 0..52
        BY <2>1
    <2>3. iso_week(d) \in 1..53 /\ iso_week(d) = (t - f) \div 7 + 1
        BY <1>5, <2>1, <2>2
    <2>4. ~ (t < f) /\ ~ (t >= n)
        BY <1>2, <1>4, <1>8
    <2>5. QED
        BY <2>3, <2>4 DEF t, f, n
<1>9. QED
    BY <1>2, <1>4, <1>6, <1>7, <1>8

(* The week code changes on Mondays and at New Year. *)
LEMMA WeekCodes ==
    ASSUME NEW y, day \in Nat, InYear(day, y), Midnight
    PROVE  (year(day) * 100 + iso_week(day) # year(day') * 100 + iso_week(day'))
              <=> (weekday(day') = 0 \/ year(day') # year(day))
<1> DEFINE t == Thursday(day)
           u == Thursday(day')
           f == FirstDay(y)
           n == FirstDay(y + 1)
<1>1. /\ day' = day + 1 /\ day' \in Nat /\ y \in Int /\ year(day) = y /\ iso_week(day) \in 1..53
      /\ f <= day
    BY PeriodTokenAssumption, NextDay, YearIs, WeekIs DEF InYear
<1>2. CASE InYear(day', y + 1)
    <2>1. year(day') = y + 1 /\ iso_week(day') \in 1..53
        BY <1>1, <1>2, YearIs, WeekIs
    <2>2. QED
        BY <1>1, <2>1
<1>3. CASE InYear(day', y)
    <2>1. year(day') = y /\ day' < n
        BY <1>1, <1>3, YearIs DEF InYear
    <2>2. f \in Int /\ n = f + 365 + Leap(y) /\ Leap(y) \in {0, 1}
        BY <1>1, PeriodTokenAssumption, FirstDays DEF InYear, Leap
    <2>3. /\ t \in Int /\ u \in Int /\ day - 3 <= t /\ t <= day + 3
          /\ weekday(day') # 0 => u = t
          /\ weekday(day') = 0 => u = t + 7 /\ t = day - 3
        BY <1>1, Thursdays
    <2>4. /\ f <= t /\ t < n => iso_week(day) = (t - f) \div 7 + 1
          /\ t < f => iso_week(day) \in 52..53
          /\ t >= n => iso_week(day) = 1
        BY WeekIs
    <2>5. /\ f <= u /\ u < n => iso_week(day') = (u - f) \div 7 + 1
          /\ u < f => iso_week(day') \in 52..53
          /\ u >= n => iso_week(day') = 1
        BY <1>1, <1>3, WeekIs
    <2>6. ASSUME weekday(day') # 0
          PROVE  iso_week(day') = iso_week(day)
        <3>1. Thursday(day') = Thursday(day)
            BY <2>3, <2>6
        <3>2. QED
            BY <1>1, <2>1, <3>1 DEF iso_week, Thursday
    <2> HIDE DEF t, u, f, n
    <2>7. ASSUME weekday(day') = 0
          PROVE  iso_week(day') # iso_week(day)
        <3>1. u = t + 7 /\ t = day - 3
            BY <2>3, <2>7
        <3>2. CASE t < f
            <4>1. f <= u /\ u < f + 7 /\ u < n
                BY <1>1, <2>2, <2>3, <3>1, <3>2
            <4>2. (u - f) \div 7 = 0
                BY <2>2, <2>3, <4>1
            <4>3. QED
                BY <2>4, <2>5, <3>2, <4>1, <4>2
        <3>3. CASE f <= t /\ u < n
            <4>1. f <= u /\ t < n
                BY <2>2, <2>3, <3>1, <3>3
            <4>2. (u - f) \div 7 = (t - f) \div 7 + 1
                BY <2>2, <2>3, <3>1
            <4>3. (t - f) \div 7 \in Int
                BY <2>2, <2>3
            <4>4. QED
                BY <2>4, <2>5, <3>3, <4>1, <4>2, <4>3
        <3>4. CASE f <= t /\ u >= n
            <4>1. t < n /\ t - f >= 350 /\ t - f \in Int
                BY <1>1, <2>1, <2>2, <2>3, <3>1, <3>4
            <4>2. (t - f) \div 7 >= 50 /\ (t - f) \div 7 \in Int
                BY <4>1
            <4>3. QED
                BY <2>4, <2>5, <3>4, <4>1, <4>2
        <3>5. QED
            BY <2>2, <2>3, <3>2, <3>3, <3>4
    <2>8. iso_week(day') \in 1..53
        BY <1>1, <1>3, WeekIs
    <2>9. CASE weekday(day') # 0
        BY <1>1, <2>1, <2>6, <2>9
    <2>10. CASE weekday(day') = 0
        <3>1. y * 100 + iso_week(day) # y * 100 + iso_week(day')
            BY <1>1, <2>7, <2>8, <2>10
        <3>2. QED
            BY <1>1, <2>1, <2>10, <3>1
    <2>11. QED
        BY <2>9, <2>10
<1>4. QED
    BY <1>2, <1>3, NextDay

(* The codes that current_period_token gives to budget periods follow the  *)
(* calendar until the end of 2099: day and month codes go up at the end of *)
(* each day and month and stay the same within it, the code of a week      *)
(* changes on Mondays and at New Year and on no other day.                 *)
THEOREM CodesFollow == ClockSpec => CodesFollowTheCalendar
<1> DEFINE Follow ==
        LET before(p) == current_period_token(p, day)
            after(p)  == current_period_token(p, day')
        IN  /\ before("day") < after("day")
            /\ IF month(day') = month(day) THEN before("month") = after("month")
               ELSE before("month") < after("month")
            /\ before("week") # after("week") <=> weekday(day') = 0 \/ year(day') # year(day)
<1>1. ClockInv /\ [Midnight]_day => [Follow]_day
    <2> SUFFICES ASSUME ClockInv, Midnight PROVE Follow
        OBVIOUS
    <2>1. PICK y \in 2024..LastYear : InYear(day, y)
        BY DEF ClockInv
    <2>2. day \in Nat /\ day' = day + 1
        BY DEF ClockInv, Midnight
    <2>3. ASSUME NEW d
          PROVE  /\ current_period_token("day", d) = DaysToEpoch + d
                 /\ current_period_token("week", d) = year(d) * 100 + iso_week(d)
                 /\ current_period_token("month", d) = year(d) * 100 + month(d)
        BY DEF current_period_token
    <2>4. DaysToEpoch + day < DaysToEpoch + day'
        BY <2>2 DEF DaysToEpoch
    <2>5. IF month(day') = month(day)
          THEN year(day) * 100 + month(day) = year(day') * 100 + month(day')
          ELSE year(day) * 100 + month(day) < year(day') * 100 + month(day')
        BY <2>1, <2>2, MonthCodes
    <2>6. (year(day) * 100 + iso_week(day) # year(day') * 100 + iso_week(day'))
             <=> (weekday(day') = 0 \/ year(day') # year(day))
        BY <2>1, <2>2, WeekCodes
    <2>7. QED
        BY <2>3, <2>4, <2>5, <2>6
<1>2. QED
    BY <1>1, ClockInvariant, PTL DEF ClockSpec, CodesFollowTheCalendar
=============================================================================

----------------------------- MODULE Admission -----------------------------
(***************************************************************************)
(* Admission of proxy requests: the authenticate middleware (proxy.rs)     *)
(* running concurrently with the operations that change the key store, the *)
(* admin API's create_key and delete_key (admin.rs) and the control-plane  *)
(* client's replace_all (auth.rs, client.rs).                              *)
(*                                                                         *)
(* The middleware takes the key store's read lock twice (is_empty, then    *)
(* authenticate), reads the clock and then locks the rate limiter;         *)
(* delete_key takes the key store's write lock, then the rate limiter's.   *)
(* Every lock acquisition is one action, so the store may change between   *)
(* any two of them.  (delete_key's third lock, the spend tracker, belongs  *)
(* to module Proxy.)                                                       *)
(***************************************************************************)
EXTENDS Auth, Sequences

CONSTANTS
    Keys,       \* every VirtualKey that is ever issued or pulled
    Requests,   \* slots for requests being admitted concurrently
    Admins,     \* slots for concurrent DELETE /admin/keys/{id} calls
    MaxNow      \* bound on the clock

ASSUME AdmissionAssumption ==
    /\ MaxNow \in Nat
    /\ anonymous \notin Keys
    /\ \A k \in Keys : k.rate_limit_rps \in Nat \cup {None}

VARIABLES
    now,        \* the clock, in ticks
    store,      \* KeyStore.by_hash
    buckets,    \* RateLimiter.buckets, by key identifier; None when absent
    req,        \* [pc, token, key] of each request slot
    admin,      \* [pc, id] of each delete_key call
    issued,     \* the tokens in use so far: generate_key draws new ones
    \* History, read by properties only:
    seen,       \* the key sets the store has held since a request arrived
    grants      \* when the current bucket of an identifier granted a request

vars == <<now, store, buckets, req, admin, issued, seen, grants>>

Tokens == {k.hash : k \in Keys} \cup {None}     \* None: no bearer token
Ids == {identifier(k) : k \in Keys}

KeySet == {S \in SUBSET Keys : IsKeyStore(S)}

Bucket == [capacity : Nat, refill_per_second : Nat, available : Nat, last_refill : Nat]

ASSUME BucketAssumption == None \notin Bucket

Idle == [pc |-> "idle", token |-> None, key |-> anonymous]

Answered == {"admitted", "unauthorized", "expired", "limited"}

TypeOK ==
    /\ now \in 0..MaxNow
    /\ store \in KeySet
    /\ buckets \in [Ids -> Bucket \cup {None}]
    /\ req \in [Requests -> [pc : {"idle", "arrived", "lookup", "expiry", "rate"} \cup Answered,
                             token : Tokens, key : Keys \cup {anonymous}]]
    /\ admin \in [Admins -> [pc : {"idle", "forget_rate"}, id : Ids \cup {None}]]
    /\ issued \in SUBSET Tokens
    /\ seen \in [Requests -> SUBSET KeySet]
    /\ grants \in [Ids -> Seq(Nat)]

Init ==
    /\ now = 0
    /\ store \in KeySet
    /\ buckets = [id \in Ids |-> None]
    /\ req = [r \in Requests |-> Idle]
    /\ admin = [a \in Admins |-> [pc |-> "idle", id |-> None]]
    /\ issued = {k.hash : k \in store}
    /\ seen = [r \in Requests |-> {}]
    /\ grants = [id \in Ids |-> <<>>]
-----------------------------------------------------------------------------
(***************************************************************************)
(* The middleware.                                                         *)
(***************************************************************************)

(* A request reaches the proxy router, with or without a bearer token. *)
Arrive(r, token) ==
    /\ req[r].pc = "idle"
    /\ req' = [req EXCEPT ![r] = [pc |-> "arrived", token |-> token, key |-> anonymous]]
    /\ seen' = [seen EXCEPT ![r] = {store}]
    /\ UNCHANGED <<now, store, buckets, admin, grants, issued>>

(* keys.is_empty(): an empty store means anonymous access. *)
IsEmpty(r) ==
    /\ req[r].pc = "arrived"
    /\ req' = [req EXCEPT ![r].pc = IF store = {} THEN "expiry" ELSE "lookup"]
    /\ UNCHANGED <<now, store, buckets, admin, seen, grants, issued>>

(* Mutant: an unknown token falls through to anonymous access. *)
Authenticate_or_anonymous(r) ==
    /\ req[r].pc = "lookup"
    /\ \/ \E k \in authenticate(store, req[r].token) :
              req' = [req EXCEPT ![r].pc = "expiry", ![r].key = k]
       \/ /\ authenticate(store, req[r].token) = {}
          /\ req' = [req EXCEPT ![r].pc = "expiry"]
    /\ UNCHANGED <<now, store, buckets, admin, seen, grants, issued>>

(* keys.authenticate(token): the matching key is cloned, or 401. *)
Authenticate(r) ==
    /\ req[r].pc = "lookup"
    /\ LET found == authenticate(store, req[r].token)
       IN  \/ \E k \in found :
                  req' = [req EXCEPT ![r].pc = "expiry", ![r].key = k]
           \/ /\ found = {}
              /\ req' = [req EXCEPT ![r].pc = "unauthorized"]
    /\ UNCHANGED <<now, store, buckets, admin, seen, grants, issued>>

(* key.is_expired() on the cloned key; a key without a rate limit is done. *)
CheckExpiry(r) ==
    /\ req[r].pc = "expiry"
    /\ LET k == req[r].key
       IN  req' = [req EXCEPT ![r].pc =
                     IF is_expired(k, now) THEN "expired"
                     ELSE IF k.rate_limit_rps = None THEN "admitted" ELSE "rate"]
    /\ UNCHANGED <<now, store, buckets, admin, seen, grants, issued>>

(* RateLimiter::check, one acquisition of the limiter's mutex: the bucket  *)
(* is created from the caller's rps only when there is none.               *)
BucketFor(k) ==
    LET b == buckets[identifier(k)]
    IN  IF b = None THEN TokenBucket_new(k.rate_limit_rps, now) ELSE refilled(b, now)

CheckRate(r) ==
    LET k  == req[r].key
        id == identifier(k)
        b  == BucketFor(k)
    IN  /\ req[r].pc = "rate"
        /\ buckets' = [buckets EXCEPT ![id] = try_consume(b)]
        /\ grants' = [grants EXCEPT ![id] = IF has_token(b) THEN Append(@, now) ELSE @]
        /\ req' = [req EXCEPT ![r].pc = IF has_token(b) THEN "admitted" ELSE "limited"]
        /\ UNCHANGED <<now, store, admin, seen, issued>>

(* The request leaves the middleware: to the handler, or with an error. *)
Leave(r) ==
    /\ req[r].pc \in Answered
    /\ req' = [req EXCEPT ![r] = Idle]
    /\ seen' = [seen EXCEPT ![r] = {}]
    /\ UNCHANGED <<now, store, buckets, admin, grants, issued>>
-----------------------------------------------------------------------------
(***************************************************************************)
(* Changes of the key store.                                               *)
(***************************************************************************)
Install(S) ==
    /\ store' = S
    /\ issued' = issued \cup {k.hash : k \in S}
    /\ seen' = [r \in Requests |->
                   IF req[r].pc = "idle" THEN seen[r] ELSE seen[r] \cup {S}]

(* POST /admin/keys.  generate_key draws a fresh random token. *)
create_key(k) ==
    /\ k.hash \notin issued
    /\ Install(insert(store, k))
    /\ UNCHANGED <<now, buckets, req, admin, grants>>

(* DELETE /admin/keys/{id}: remove_by_id drops one key with that id.  (No  *)
(* such key: 404 and nothing changes.)                                     *)
delete_key(a, k) ==
    /\ admin[a].pc = "idle"
    /\ k \in store
    /\ Install(store \ {k})
    /\ admin' = [admin EXCEPT ![a] = [pc |-> "forget_rate", id |-> identifier(k)]]
    /\ UNCHANGED <<now, buckets, req, grants>>

(* ... then rate_limiter.forget(id), under the limiter's mutex. *)
ForgetRate(a) ==
    LET id == admin[a].id
    IN  /\ admin[a].pc = "forget_rate"
        /\ buckets' = [buckets EXCEPT ![id] = None]
        /\ grants' = [grants EXCEPT ![id] = <<>>]
        /\ admin' = [admin EXCEPT ![a] = [pc |-> "idle", id |-> None]]
        /\ UNCHANGED <<now, store, req, seen, issued>>

(* The control-plane client swaps in the key set it pulled. *)
replace_all(S) ==
    /\ S # store
    /\ Install(S)
    /\ UNCHANGED <<now, buckets, req, admin, grants>>

Tick ==
    /\ now < MaxNow
    /\ now' = now + 1
    /\ UNCHANGED <<store, buckets, req, admin, seen, grants, issued>>
-----------------------------------------------------------------------------
Next ==
    \/ \E r \in Requests : \E token \in Tokens : Arrive(r, token)
    \/ \E r \in Requests : IsEmpty(r)
    \/ \E r \in Requests : Authenticate(r)
    \/ \E r \in Requests : CheckExpiry(r)
    \/ \E r \in Requests : CheckRate(r)
    \/ \E r \in Requests : Leave(r)
    \/ \E k \in Keys : create_key(k)
    \/ \E a \in Admins : \E k \in Keys : delete_key(a, k)
    \/ \E a \in Admins : ForgetRate(a)
    \/ \E S \in KeySet : replace_all(S)
    \/ Tick

Spec == Init /\ [][Next]_vars
-----------------------------------------------------------------------------
(***************************************************************************)
(* Properties.                                                             *)
(***************************************************************************)

(* What the middleware decides for a token when the store holds S for the  *)
(* whole request: the key to admit it under, or nobody (401).              *)
Decision(S, token) == IF S = {} THEN {anonymous} ELSE authenticate(S, token)

(* An admitted request was admitted under a key that one key set, held by  *)
(* the store at some moment after the request arrived, grants its token:   *)
(* the two read locks of the middleware never combine two key sets into an *)
(* admission neither grants, so a key revoked before a request arrives is  *)
(* never used for it, and anonymous access needs a store that was empty.   *)
AdmissionFollowsOneKeySet ==
    \A r \in Requests :
        req[r].pc = "admitted" =>
            \E S \in seen[r] : req[r].key \in Decision(S, req[r].token)

(* RateLimiter::check: in every window that starts and ends with a grant,  *)
(* a bucket grants at most its capacity plus what it refills in the        *)
(* window, whatever the interleaving of the requests that share it.        *)
BurstBound ==
    \A id \in Ids : buckets[id] # None =>
        LET b == buckets[id]
            g == grants[id]
        IN  \A i, j \in 1..Len(g) : i <= j =>
                (j - i + 1) * TicksPerSecond
                    <= b.capacity + b.refill_per_second * (g[j] - g[i])

(***************************************************************************)
(* The inductive invariants behind these two.  A request that got past a   *)
(* key-store read got past it for one of the sets it has seen; a bucket    *)
(* has granted since any of its grants no more than its capacity and its   *)
(* refill, less what it still holds.                                       *)
(***************************************************************************)
SeenInv ==
    \A r \in Requests :
        /\ req[r].pc # "idle" => store \in seen[r]
        /\ req[r].pc \in {"arrived", "lookup"} => req[r].key = anonymous
        /\ req[r].pc \in {"expiry", "rate", "admitted"} =>
              \E S \in seen[r] : req[r].key \in Decision(S, req[r].token)
        /\ req[r].pc = "rate" => req[r].key \in Keys /\ req[r].key.rate_limit_rps # None

Accounts(b, g) ==
    /\ b.available <= b.capacity
    /\ \A i \in 1..Len(g) :
          /\ g[i] <= b.last_refill
          /\ (Len(g) - i + 1) * TicksPerSecond + b.available
                <= b.capacity + b.refill_per_second * (b.last_refill - g[i])

BucketInv ==
    \A id \in Ids :
        IF buckets[id] = None THEN grants[id] = <<>>
        ELSE buckets[id].last_refill <= now /\ Accounts(buckets[id], grants[id])

ForgetInv == \A a \in Admins : admin[a].pc = "forget_rate" => admin[a].id \in Ids

IInv == TypeOK /\ SeenInv /\ BucketInv /\ ForgetInv /\ BurstBound
=============================================================================

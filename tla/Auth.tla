-------------------------------- MODULE Auth --------------------------------
(***************************************************************************)
(* The value types and pure operations of vaultplane-core/src/auth.rs: the *)
(* virtual key, the key store seen as a value, the token bucket and the    *)
(* spend entry.  The modules that hold these values in variables           *)
(* (Admission, Proxy) apply one of these operations per lock acquisition.  *)
(*                                                                         *)
(* Data abstraction: a secret token and its SHA-256 hash are one value; an *)
(* amount of money is a natural number of indivisible units; a rate        *)
(* bucket is counted in units of 1/TicksPerSecond token, so that refilling *)
(* is exact integer arithmetic.                                            *)
(***************************************************************************)
EXTENDS Integers

CONSTANTS
    None,            \* Rust's Option::None
    Unparseable,     \* an expires_at that is not an RFC3339 timestamp
    TicksPerSecond   \* resolution of the monotonic clock in the model

ASSUME TicksAssumption == TicksPerSecond \in Nat \ {0}
-----------------------------------------------------------------------------
(***************************************************************************)
(* VirtualKey.  models: allowed names, possibly Star; rate_limit_rps: None *)
(* or a natural; spend_limit: None or [amount_usd, period]; expires_at:    *)
(* None, an instant, or Unparseable.                                       *)
(***************************************************************************)
EmptyString == ""
Star == "*"

anonymous ==
    [id |-> EmptyString, hash |-> EmptyString, models |-> {},
     rate_limit_rps |-> None, spend_limit |-> None, expires_at |-> None]

identifier(k) == IF k.id = EmptyString THEN "anonymous" ELSE k.id

allows_model(k, model) ==
    k.models = {} \/ Star \in k.models \/ model \in k.models

is_expired(k, now) ==
    /\ k.expires_at # None
    /\ k.expires_at = Unparseable \/ now > k.expires_at
-----------------------------------------------------------------------------
(***************************************************************************)
(* KeyStore.  The map from hash to key is a set of keys with distinct      *)
(* hashes.                                                                 *)
(***************************************************************************)
IsKeyStore(S) == \A k1, k2 \in S : k1.hash = k2.hash => k1 = k2

(* KeyStore::insert: a key with the same hash is overwritten. *)
insert(S, k) == {j \in S : j.hash # k.hash} \cup {k}

(* KeyStore::authenticate: the keys that match the token, at most one. *)
authenticate(S, token) == {k \in S : k.hash = token}
-----------------------------------------------------------------------------
(***************************************************************************)
(* TokenBucket.                                                            *)
(***************************************************************************)
TokenBucket_new(rps, now) ==
    [capacity |-> rps * TicksPerSecond, refill_per_second |-> rps,
     available |-> rps * TicksPerSecond, last_refill |-> now]

(* Mutant: the refill is not clamped to the capacity. *)
refilled_unclamped(b, now) ==
    [b EXCEPT !.available = @ + (now - b.last_refill) * b.refill_per_second,
              !.last_refill = now]

refilled(b, now) ==
    LET topped_up == b.available + (now - b.last_refill) * b.refill_per_second
    IN  [b EXCEPT !.available =
                      IF topped_up < b.capacity THEN topped_up ELSE b.capacity,
                  !.last_refill = now]

(* try_consume splits in whether the refilled bucket holds a whole token,  *)
(* and the bucket that is left behind.                                     *)
has_token(b) == b.available >= TicksPerSecond

(* Mutant: the token is taken without looking whether there is one. *)
try_consume_unchecked(b) == [b EXCEPT !.available = @ - TicksPerSecond]

try_consume(b) ==
    IF has_token(b) THEN [b EXCEPT !.available = @ - TicksPerSecond] ELSE b
-----------------------------------------------------------------------------
(***************************************************************************)
(* SpendState.  An entry is None or [period_token, cumulative_usd].        *)
(***************************************************************************)
(* Mutant: a key that has spent its budget exactly still passes. *)
pre_check_off_by_one(entry, token, limit) ==
    \/ entry = None
    \/ entry.period_token # token
    \/ entry.cumulative_usd <= limit.amount_usd

pre_check(entry, token, limit) ==
    \/ entry = None
    \/ entry.period_token # token
    \/ entry.cumulative_usd < limit.amount_usd

(* Mutant: a period rollover does not reset the cumulative spend. *)
record_without_reset(entry, token, cost) ==
    [period_token |-> token,
     cumulative_usd |-> cost + (IF entry = None THEN 0 ELSE entry.cumulative_usd)]

record(entry, token, cost) ==
    IF entry = None \/ entry.period_token # token
    THEN [period_token |-> token, cumulative_usd |-> cost]
    ELSE [entry EXCEPT !.cumulative_usd = @ + cost]

current_usd(entry, token) ==
    IF entry # None /\ entry.period_token = token THEN entry.cumulative_usd ELSE 0
=============================================================================

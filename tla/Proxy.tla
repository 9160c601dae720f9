------------------------------- MODULE Proxy -------------------------------
(***************************************************************************)
(* The proxy handlers chat_completions and embeddings (proxy.rs), from the *)
(* moment the authenticate middleware hands them a request to the end of   *)
(* the response body, streamed bodies under UsageObservingStream           *)
(* (stream_observer.rs) included, running concurrently with reloads of the *)
(* runtime, period rollovers, cache evictions and revocations.             *)
(*                                                                         *)
(* One action is one access to shared state or one await: the runtime      *)
(* snapshot, the clock read at the top of SpendTracker::pre_check and      *)
(* ::record, the spend tracker's mutex (which those functions take only    *)
(* after reading the clock), the cache, the upstream call, a stream poll.  *)
(* The client may disconnect at every await, which drops the handler's     *)
(* future or the body stream.                                              *)
(*                                                                         *)
(* The upstream call is the interface of module Failover: an error, or a   *)
(* response whose usage, priced by the snapshot's pricing table, gives a   *)
(* cost or none.                                                           *)
(***************************************************************************)
EXTENDS Auth, FiniteSets

CONSTANTS
    Keys,       \* the VirtualKeys that requests are admitted under
    Requests,   \* slots for concurrently handled requests
    Models,     \* virtual model names
    Bodies,     \* request bodies
    IdemKeys,   \* values of the idempotency header
    Calls,      \* which [endpoint, stream] combinations are requested
    Costs,      \* what one upstream response may cost
    MaxCost,    \* the most that one upstream response may cost
    Calendar,   \* Calendar[period][t]: the code of the period instant t is in
    Revocable,  \* identifiers that DELETE /admin/keys/{id} is called for
    MaxNow,     \* bound on the clock
    MaxGen      \* bound on the number of reloads

VARIABLES
    now,        \* the wall clock
    runtime,    \* the generation of the Runtime in the RuntimeHandle
    caching,    \* the generations whose configuration enables the cache
    cache,      \* the entries of each generation's ResponseCache
    spend,      \* SpendTracker.entries, by key identifier; None when absent
    req,        \* the request in each slot
    \* History, read by properties only:
    ledger,     \* the costs recorded for an identifier under a period code
                \* since its spend state was last freed
    charges     \* how often the request in a slot was charged

vars == <<now, runtime, caching, cache, spend, req, ledger, charges>>

Ids == {identifier(k) : k \in Keys}
Instants == 0..MaxNow
Gens == 0..MaxGen

SpendingKeys(id) == {k \in Keys : identifier(k) = id /\ k.spend_limit # None}

(***************************************************************************)
(* A key identifier has one budget period, a budget is not zero, and the   *)
(* codes of successive periods increase (the wall clock does not go back). *)
(* cache_key_for puts "idempotency:" before an idempotency key, and no     *)
(* JSON body begins like that.                                             *)
(***************************************************************************)
ASSUME ProxyAssumption ==
    /\ IsFiniteSet(Requests)
    /\ MaxNow \in Nat /\ MaxGen \in Nat /\ MaxCost \in Nat
    /\ Costs \subseteq 0..MaxCost
    /\ Calls \subseteq [endpoint : {"chat", "embeddings"}, stream : BOOLEAN]
    /\ Revocable \subseteq Ids
    /\ IdemKeys \cap Bodies = {}
    /\ None \notin Nat
    /\ None \notin [period_token : Nat, cumulative_usd : Nat]
    /\ \A k \in Keys : k.spend_limit # None =>
          /\ k.spend_limit.amount_usd \in Nat \ {0}
          /\ k.spend_limit.period \in DOMAIN Calendar
    /\ \A k, j \in Keys :
          /\ identifier(k) = identifier(j)
          /\ k.spend_limit # None
          /\ j.spend_limit # None
          => k.spend_limit.period = j.spend_limit.period
    /\ \A p \in DOMAIN Calendar : \A s, t \in Instants :
          /\ Calendar[p][t] \in Nat
          /\ s <= t => Calendar[p][s] <= Calendar[p][t]

current_period_token(period, t) == Calendar[period][t]

Tokens == UNION {{Calendar[p][t] : t \in Instants} : p \in DOMAIN Calendar}
-----------------------------------------------------------------------------
(***************************************************************************)
(* A response is known by what produced it.  The cache key is made of the  *)
(* key identifier, the model and either the idempotency key or the body as *)
(* the plugins left it; the endpoint is not part of it.                    *)
(***************************************************************************)
Response ==
    [gen : Gens, scope : Ids, endpoint : {"chat", "embeddings"}, model : Models,
     body : Bodies, idem : IdemKeys \cup {None}]

CacheKey ==
    [scope : Ids, model : Models, content : Bodies \cup IdemKeys]

(* Mutant: the cache is not divided by virtual key. *)
cache_key_unscoped(r) ==
    [scope |-> CHOOSE id \in Ids : TRUE, model |-> req[r].model,
     content |-> IF req[r].idem # None THEN req[r].idem ELSE req[r].body]

(* Mutant: the body is not part of the key, so nothing is without the      *)
(* idempotency header.                                                     *)
cache_key_header_only(r) ==
    [scope |-> identifier(req[r].key), model |-> req[r].model, content |-> req[r].idem]

cache_key_for(r) ==
    [scope |-> identifier(req[r].key), model |-> req[r].model,
     content |-> IF req[r].idem # None THEN req[r].idem ELSE req[r].body]

SpendState == [period_token : Nat, cumulative_usd : Nat]

NoRequest ==
    [pc |-> "idle", key |-> None, endpoint |-> None, stream |-> FALSE,
     model |-> None, body |-> None, idem |-> None, rt |-> 0, token |-> 0,
     cost |-> None, found_usage |-> FALSE, ok |-> FALSE, hit |-> None]

PCs == {"idle", "begin", "pre_token", "pre_check", "plugins", "lookup", "dispatch",
        "record_token", "record", "respond", "streaming", "done"}

RequestRecord ==
    [pc : PCs, key : Keys \cup {None}, endpoint : {"chat", "embeddings", None},
     stream : BOOLEAN, model : Models \cup {None}, body : Bodies \cup {None},
     idem : IdemKeys \cup {None}, rt : Gens, token : Nat, cost : Costs \cup {None},
     found_usage : BOOLEAN, ok : BOOLEAN, hit : Response \cup {None}]

(* Only an idle slot lacks a key, an endpoint, a model or a body. *)
Request ==
    {v \in RequestRecord : v.pc # "idle" =>
        /\ v.key \in Keys
        /\ v.endpoint \in {"chat", "embeddings"}
        /\ v.model \in Models
        /\ v.body \in Bodies}

TypeOK ==
    /\ now \in Instants
    /\ runtime \in Gens
    /\ caching \in SUBSET Gens
    /\ cache \in [Gens -> SUBSET [key : CacheKey, response : Response]]
    /\ spend \in [Ids -> SpendState \cup {None}]
    /\ req \in [Requests -> Request]
    /\ ledger \in [Ids -> [Tokens -> Nat]]
    /\ charges \in [Requests -> Nat]

Init ==
    /\ now = 0
    /\ runtime = 0
    /\ caching \in SUBSET Gens
    /\ cache = [g \in Gens |-> {}]
    /\ spend = [id \in Ids |-> None]
    /\ req = [r \in Requests |-> NoRequest]
    /\ ledger = [id \in Ids |-> [t \in Tokens |-> 0]]
    /\ charges = [r \in Requests |-> 0]
-----------------------------------------------------------------------------
limit(r) == req[r].key.spend_limit

period_token(r) == current_period_token(limit(r).period, now)

Goto(r, pc) == req' = [req EXCEPT ![r].pc = pc]

(* The middleware hands an admitted request to its handler. *)
Arrive(r, k, call, model, body, idem) ==
    /\ req[r].pc = "idle"
    /\ req' = [req EXCEPT ![r] =
                 [NoRequest EXCEPT !.pc = "begin", !.key = k, !.endpoint = call.endpoint,
                                   !.stream = call.stream, !.model = model,
                                   !.body = body, !.idem = idem]]
    /\ charges' = [charges EXCEPT ![r] = 0]
    /\ UNCHANGED <<now, runtime, caching, cache, spend, ledger>>

(* runtime.load(), then 403 for a model that the key does not allow. *)
Begin(r) ==
    /\ req[r].pc = "begin"
    /\ req' = [req EXCEPT
                 ![r].rt = runtime,
                 ![r].pc = IF ~ allows_model(req[r].key, req[r].model) THEN "done"
                           ELSE IF limit(r) = None THEN "plugins" ELSE "pre_token"]
    /\ UNCHANGED <<now, runtime, caching, cache, spend, ledger, charges>>

(* pre_check reads the clock before it takes the lock ... *)
PreCheckToken(r) ==
    /\ req[r].pc = "pre_token"
    /\ req' = [req EXCEPT ![r].pc = "pre_check", ![r].token = period_token(r)]
    /\ UNCHANGED <<now, runtime, caching, cache, spend, ledger, charges>>

(* ... and compares under the lock: 402 when the budget is spent. *)
PreCheck(r) ==
    /\ req[r].pc = "pre_check"
    /\ Goto(r, IF pre_check(spend[identifier(req[r].key)], req[r].token, limit(r))
               THEN "plugins" ELSE "done")
    /\ UNCHANGED <<now, runtime, caching, cache, spend, ledger, charges>>

(* run_plugins: some plugin rejects, or the chain leaves a body behind.    *)
(* Streaming requests are not cacheable.                                   *)
RunPlugins(r) ==
    /\ req[r].pc = "plugins"
    /\ \/ Goto(r, "done")
       \/ \E body \in Bodies :
              req' = [req EXCEPT
                        ![r].body = body,
                        ![r].pc = IF ~ req[r].stream /\ req[r].rt \in caching
                                  THEN "lookup" ELSE "dispatch"]
    /\ UNCHANGED <<now, runtime, caching, cache, spend, ledger, charges>>

(* cache.get in the snapshot's cache; a hit is served and not charged. *)
CacheGet(r) ==
    /\ req[r].pc = "lookup"
    /\ LET hits == {e \in cache[req[r].rt] : e.key = cache_key_for(r)}
       IN  \/ \E e \in hits :
                  req' = [req EXCEPT ![r].pc = "done", ![r].hit = e.response]
           \/ /\ hits = {}
              /\ Goto(r, "dispatch")
    /\ UNCHANGED <<now, runtime, caching, cache, spend, ledger, charges>>

MustRecord(r, cost) == cost # None /\ limit(r) # None

(* connector.chat / connector.embeddings returns. *)
DispatchErr(r) ==
    /\ req[r].pc = "dispatch"
    /\ Goto(r, "done")
    /\ UNCHANGED <<now, runtime, caching, cache, spend, ledger, charges>>

DispatchOk(r, ok, cost) ==
    /\ req[r].pc = "dispatch"
    /\ req[r].stream => cost = None        \* a streamed body has no usage yet
    /\ req' = [req EXCEPT ![r].ok = ok, ![r].cost = cost,
                          ![r].pc = IF MustRecord(r, cost) THEN "record_token"
                                    ELSE IF req[r].stream THEN "streaming" ELSE "respond"]
    /\ UNCHANGED <<now, runtime, caching, cache, spend, ledger, charges>>

(* Mutant: the observer does not remember that it has found the usage. *)
StreamUsage_unguarded(r, cost) ==
    /\ req[r].pc = "streaming"
    /\ req' = [req EXCEPT ![r].cost = cost,
                          ![r].pc = IF MustRecord(r, cost) THEN "record_token" ELSE @]
    /\ UNCHANGED <<now, runtime, caching, cache, spend, ledger, charges>>

(* UsageObservingStream::poll_next on the chunk that completes the first   *)
(* event with usage; it is priced, or the pricing table has no entry.      *)
(* Other chunks change nothing.                                            *)
StreamUsage(r, cost) ==
    /\ req[r].pc = "streaming"
    /\ ~ req[r].found_usage
    /\ req' = [req EXCEPT ![r].found_usage = TRUE, ![r].cost = cost,
                          ![r].pc = IF MustRecord(r, cost) THEN "record_token" ELSE @]
    /\ UNCHANGED <<now, runtime, caching, cache, spend, ledger, charges>>

StreamEnd(r) ==
    /\ req[r].pc = "streaming"
    /\ Goto(r, "done")
    /\ UNCHANGED <<now, runtime, caching, cache, spend, ledger, charges>>

(* record reads the clock before it takes the lock ... *)
RecordToken(r) ==
    /\ req[r].pc = "record_token"
    /\ req' = [req EXCEPT ![r].pc = "record", ![r].token = period_token(r)]
    /\ UNCHANGED <<now, runtime, caching, cache, spend, ledger, charges>>

(* ... and updates the entry under the lock. *)
Record(r) ==
    LET id    == identifier(req[r].key)
        token == req[r].token
    IN  /\ req[r].pc = "record"
        /\ spend' = [spend EXCEPT ![id] = record(@, token, req[r].cost)]
        /\ ledger' = [ledger EXCEPT ![id][token] = @ + req[r].cost]
        /\ charges' = [charges EXCEPT ![r] = @ + 1]
        /\ Goto(r, IF req[r].stream THEN "streaming" ELSE "respond")
        /\ UNCHANGED <<now, runtime, caching, cache>>

OwnResponse(r) ==
    [gen |-> req[r].rt, scope |-> identifier(req[r].key), endpoint |-> req[r].endpoint,
     model |-> req[r].model, body |-> req[r].body, idem |-> req[r].idem]

CacheInsert(g, r) ==
    cache' = [cache EXCEPT ![g] =
                {e \in @ : e.key # cache_key_for(r)}
                   \cup {[key |-> cache_key_for(r), response |-> OwnResponse(r)]}]

(* Mutant: the response goes into the cache of the runtime now in place. *)
RespondCached_current(r) ==
    /\ req[r].pc = "respond"
    /\ req[r].ok /\ req[r].rt \in caching /\ runtime \in caching
    /\ CacheInsert(runtime, r)
    /\ Goto(r, "done")
    /\ UNCHANGED <<now, runtime, caching, spend, ledger, charges>>

(* should_cache: a 200 to a cacheable request is drained and stored in the *)
(* snapshot's cache, unless draining it fails (502).                       *)
RespondCached(r) ==
    /\ req[r].pc = "respond"
    /\ req[r].ok /\ req[r].rt \in caching
    /\ CacheInsert(req[r].rt, r)
    /\ Goto(r, "done")
    /\ UNCHANGED <<now, runtime, caching, spend, ledger, charges>>

RespondDrainFails(r) ==
    /\ req[r].pc = "respond"
    /\ req[r].ok /\ req[r].rt \in caching
    /\ Goto(r, "done")
    /\ UNCHANGED <<now, runtime, caching, cache, spend, ledger, charges>>

RespondUncached(r) ==
    /\ req[r].pc = "respond"
    /\ ~ (req[r].ok /\ req[r].rt \in caching)
    /\ Goto(r, "done")
    /\ UNCHANGED <<now, runtime, caching, cache, spend, ledger, charges>>

(* The client goes away at an await: the future, or the stream, is dropped. *)
Disconnect(r) ==
    /\ req[r].pc \in {"lookup", "dispatch", "respond", "streaming"}
    /\ Goto(r, "done")
    /\ UNCHANGED <<now, runtime, caching, cache, spend, ledger, charges>>

Leave(r) ==
    /\ req[r].pc = "done"
    /\ req' = [req EXCEPT ![r] = NoRequest]
    /\ charges' = [charges EXCEPT ![r] = 0]
    /\ UNCHANGED <<now, runtime, caching, cache, spend, ledger>>
-----------------------------------------------------------------------------
(***************************************************************************)
(* What happens around the handlers.                                       *)
(***************************************************************************)

(* RuntimeHandle::store: build_runtime gave the new generation a cache of  *)
(* its own, or none (caching says which).                                  *)
Reload ==
    /\ runtime < MaxGen
    /\ runtime' = runtime + 1
    /\ UNCHANGED <<now, caching, cache, spend, req, ledger, charges>>

(* moka evicts an entry: its TTL is over, or the byte budget is used up. *)
Evict(g) ==
    /\ \E e \in cache[g] : cache' = [cache EXCEPT ![g] = @ \ {e}]
    /\ UNCHANGED <<now, runtime, caching, spend, req, ledger, charges>>

(* delete_key's call of SpendTracker::forget. *)
ForgetSpend(id) ==
    /\ spend[id] # None
    /\ spend' = [spend EXCEPT ![id] = None]
    /\ ledger' = [ledger EXCEPT ![id] = [t \in Tokens |-> 0]]
    /\ UNCHANGED <<now, runtime, caching, cache, req, charges>>

Tick ==
    /\ now < MaxNow
    /\ now' = now + 1
    /\ UNCHANGED <<runtime, caching, cache, spend, req, ledger, charges>>

(* The steps of the handler of request r. *)
Handle(r) ==
    \/ \E k \in Keys, call \in Calls, model \in Models, body \in Bodies,
          idem \in IdemKeys \cup {None} : Arrive(r, k, call, model, body, idem)
    \/ Begin(r) \/ PreCheckToken(r) \/ PreCheck(r) \/ RunPlugins(r) \/ CacheGet(r)
    \/ DispatchErr(r)
    \/ \E ok \in BOOLEAN, cost \in Costs \cup {None} : DispatchOk(r, ok, cost)
    \/ \E cost \in Costs \cup {None} : StreamUsage(r, cost)
    \/ StreamEnd(r) \/ RecordToken(r) \/ Record(r)
    \/ RespondCached(r) \/ RespondDrainFails(r) \/ RespondUncached(r)
    \/ Disconnect(r) \/ Leave(r)

Next ==
    \/ \E r \in Requests : Handle(r)
    \/ Reload
    \/ \E g \in Gens : Evict(g)
    \/ \E id \in Revocable : ForgetSpend(id)
    \/ Tick

Spec == Init /\ [][Next]_vars
-----------------------------------------------------------------------------
(***************************************************************************)
(* Properties.                                                             *)
(***************************************************************************)

(* Requests are checked against the budget before and charged after the    *)
(* upstream call, so the requests in flight may overshoot it.  But they    *)
(* are all that may: a period's recorded spend stays below some budget of  *)
(* the key plus one maximal cost per concurrent request, however requests, *)
(* rollovers, stale clock reads and revocations interleave.                *)
OvershootBound ==
    \A id \in Ids : spend[id] # None =>
        \E k \in SpendingKeys(id) :
            spend[id].cumulative_usd
                < k.spend_limit.amount_usd + MaxCost * Cardinality(Requests)

(* SpendTracker::record: an entry never holds more than what was recorded  *)
(* under its period code, so no request is refused for another period's    *)
(* spend.                                                                  *)
NeverOvercounts ==
    \A id \in Ids : spend[id] # None =>
        spend[id].cumulative_usd <= ledger[id][spend[id].period_token]

(* A finished request was charged once if a cost was found for it and its  *)
(* key has a budget, and else not at all: refused requests, cache hits,    *)
(* upstream errors and disconnects before the usage are free, and a stream *)
(* that repeats its usage is charged for the first one only.               *)
ChargedExactlyOnce ==
    \A r \in Requests : req[r].pc = "done" =>
        charges[r] = IF MustRecord(r, req[r].cost) THEN 1 ELSE 0

(* A cache hit was produced under the runtime that the request loaded: a   *)
(* request that was in flight across a reload never plants a response of   *)
(* the old configuration where the new one's requests find it.             *)
HitIsOfOwnRuntime ==
    \A r \in Requests : req[r].hit # None => req[r].hit.gen = req[r].rt

(* A cache hit was produced for the same virtual key and the same model,   *)
(* and for the same idempotency key or, without one, the same body as the  *)
(* plugins left it.                                                        *)
HitIsOfOwnScope ==
    \A r \in Requests : req[r].hit # None =>
        /\ req[r].hit.scope = identifier(req[r].key)
        /\ req[r].hit.model = req[r].model
        /\ req[r].hit.idem = req[r].idem
        /\ req[r].idem = None => req[r].hit.body = req[r].body

(***************************************************************************)
(* The inductive invariant behind OvershootBound.  A request that passed   *)
(* the pre-check and has not been charged yet may still add to the entry   *)
(* of its key if it read the clock no later than the entry's period; so    *)
(* may one that is about to compare a period code older than the entry's,  *)
(* since that comparison lets it pass.  Everybody else is either refused   *)
(* or starts a new entry.                                                  *)
(***************************************************************************)
Uncharged(r) ==
    \/ req[r].pc \in {"plugins", "lookup", "dispatch", "record_token", "record"}
    \/ req[r].pc = "streaming" /\ ~ req[r].found_usage

MayAdd(r, id) ==
    /\ req[r].pc # "idle"
    /\ limit(r) # None
    /\ identifier(req[r].key) = id
    /\ \/ Uncharged(r) /\ req[r].token <= spend[id].period_token
       \/ req[r].pc = "pre_check" /\ req[r].token < spend[id].period_token

Contributors(id) == {r \in Requests : MayAdd(r, id)}

OvershootInv ==
    \A id \in Ids : spend[id] # None =>
        \E k \in SpendingKeys(id) :
            spend[id].cumulative_usd + MaxCost * Cardinality(Contributors(id))
                < k.spend_limit.amount_usd + MaxCost * Cardinality(Requests)

(* Period codes in hand, or in an entry, are not ahead of the clock. *)
TokensNotAhead ==
    /\ \A r \in Requests : req[r].pc # "idle" /\ limit(r) # None =>
          req[r].token <= period_token(r)
    /\ \A id \in Ids : \A k \in SpendingKeys(id) : spend[id] # None =>
          spend[id].period_token <= current_period_token(k.spend_limit.period, now)

(* A request that is about to be charged has a budget and a cost, and will *)
(* not be charged again.                                                   *)
ReadyToRecord ==
    \A r \in Requests :
        /\ req[r].pc \in {"pre_token", "pre_check", "record_token", "record"} => limit(r) # None
        /\ req[r].pc \in {"record_token", "record"} =>
              /\ req[r].cost \in Costs
              /\ req[r].stream => req[r].found_usage
        /\ req[r].pc = "record" => req[r].token \in Tokens

IInv == TypeOK /\ ReadyToRecord /\ TokensNotAhead /\ OvershootInv

(***************************************************************************)
(* The inductive invariant behind the accounts and the cache.  An entry is *)
(* of a period that has a ledger; a request is charged between its usage   *)
(* and what follows it; an entry of the cache is filed under what it was   *)
(* made from, in the cache of the runtime it was made by; and a request    *)
(* that has had a hit is over.                                             *)
(***************************************************************************)
LedgerInv ==
    \A id \in Ids : spend[id] # None =>
        /\ spend[id].period_token \in Tokens
        /\ spend[id].cumulative_usd <= ledger[id][spend[id].period_token]

Charged(v, n) ==
    /\ v.pc \in {"begin", "pre_token", "pre_check", "plugins", "lookup", "dispatch"} =>
          v.cost = None /\ n = 0
    /\ v.pc \in {"record_token", "record"} => n = 0
    /\ v.pc \in {"respond", "streaming", "done"} =>
          n = IF v.cost # None /\ v.key.spend_limit # None THEN 1 ELSE 0
    /\ v.pc = "streaming" /\ ~ v.found_usage => v.cost = None

Filed(e, g) ==
    /\ e.response.gen = g
    /\ e.key.scope = e.response.scope
    /\ e.key.model = e.response.model
    /\ e.key.content = IF e.response.idem # None THEN e.response.idem ELSE e.response.body

CacheInv == \A g \in Gens : \A e \in cache[g] : Filed(e, g)

OwnHit(v) ==
    v.hit # None =>
        /\ v.pc = "done"
        /\ v.hit.gen = v.rt
        /\ v.hit.scope = identifier(v.key)
        /\ v.hit.model = v.model
        /\ v.hit.idem = v.idem
        /\ v.idem = None => v.hit.body = v.body

BooksInv ==
    /\ TypeOK /\ ReadyToRecord
    /\ LedgerInv /\ CacheInv
    /\ \A r \in Requests : Charged(req[r], charges[r]) /\ OwnHit(req[r])

(* current_usd is the "Cumulative USD spend for `key_id` in the current    *)
(* period": what it returns is the sum of the costs recorded with the      *)
(* current period's code.                                                  *)
CurrentUsdIsCumulative ==
    \A id \in Ids : \A k \in SpendingKeys(id) :
        LET token == current_period_token(k.spend_limit.period, now)
        IN  current_usd(spend[id], token) = ledger[id][token]
=============================================================================

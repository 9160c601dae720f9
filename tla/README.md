# A TLA+ development for the VaultPlane gateway

VaultPlane is an LLM gateway: an HTTP proxy that authenticates callers by virtual
key, enforces rate limits and spend budgets, runs inline plugins, serves from a
response cache, and forwards chat and embeddings calls to providers with failover.
An admin API and, in api mode, a Control Node change its configuration and its keys
while it runs, and operators manage keys with a command-line client. This directory
models all of these but output and cryptography, model-checks them with TLC on small
instances, and proves every safety property that is checked, for all instances, with
TLAPS.

## 1. The system

| Component (under `crates/`) | State | Operations | Meets | What makes it correct |
| --- | --- | --- | --- | --- |
| Virtual keys, `vaultplane-core/src/auth.rs` | key store (RwLock), token buckets (Mutex), spend entries (Mutex) | authenticate, insert, replace_all, remove_by_id, check, pre_check, record, forget | every request, admin API, Control Node client | only keys of a current key set admit; bursts bounded; spend counted per period, overshoot bounded |
| Authenticate middleware, `vaultplane/src/proxy.rs` | none between requests | two key-store reads, expiry, rate check | key changes between the reads | the reads never mix two key sets into an admission |
| Handlers `chat_completions`, `embeddings`, `proxy.rs` | runtime snapshot, per-request values | snapshot, pre-check, plugins, cache, upstream, record, cache insert, stream | reloads, rollovers, revocations, disconnects | charged once, cache hits are one's own |
| Response cache, `cache.rs` | moka cache, one per runtime | get, insert, eviction | concurrent handlers | keys tell apart all a response depends on |
| Stream observer and parser, `stream_observer.rs`, `sse.rs` | parser buffer, `found_usage` | poll_next, feed, next_event | chunk boundaries, client disconnect, spend tracker | charged for what was forwarded, at most once, whatever the chunking |
| Registry, `provider/registry.rs` | immutable after build | dispatch, fallback choice, reachable | providers, timers | every route tried, calls end, trail is true |
| Runtime, `runtime.rs` | ArcSwap handle | build_runtime, reload | SIGHUP, admin API, client, files that change | a failed build or reload changes nothing, one that succeeds acts like a restart |
| Control Node client, `control_plane/client.rs` | ETags | run, tick, poll_config, poll_keys, fetch, log_identity | Control Node, runtime, key store | follows the Control Node, keeps last-known-good |
| Link status, `control_plane/status.rs` | Inner (Mutex) | record_tick, set_identity, not_started, snapshot | client, admin API | shows what is applied; one audit event per transition |
| Bundle mapping, `control_plane/map.rs`, `dto.rs` | none | apply_config, map_* | client | omitted fields take defaults, explicit empties stay |
| Admin API, `admin.rs` | ready flag | create_key, delete_key, reload_config, reads | key store, limiter, tracker, runtime | revocation frees state; answers and audit events are true |
| `vaultplane-ctl` | none | key create (online, offline), key revoke, reads | admin API over a network, the configuration file | what it tells its operator is true |
| TLS, `tls.rs` | live material and client verifier | build_rustls_config, reload_certs | reloads | both change together or not at all |
| Lifecycle, `main.rs` | listeners, probe, shutdown watch | run, probe loop, signals | everything | shutdown is bounded; readiness follows the providers |
| Plugins, `plugin.rs`, `plugin/wasm.rs` | plugin chain, engine epoch | inspect, circuit_break | handlers | budget enforced, policy on failure applied |
| Connectors, `provider/*.rs` | Anthropic stream adapter | chat, embeddings, reachable | registry, observer | translated event by event, errors in one schema, [DONE] once |
| Configuration, `config.rs` | none | load, defaults, price overlay | runtime, bundles | layers override in order |
| Request signing, `provider/sigv4.rs` | none | sign_post | clock | the date is the calendar's |
| Audit, telemetry, plugin SDK | output only | | | |

What is hard here: check-then-act across the upstream call; the clock read before the
lock; three locks in one revocation; snapshots that outlive a reload; two polls that
succeed and fail independently; timers racing answers; chunks cut anywhere; files that
change while a reload reads them; answers lost after the change was made. `PROJECT.json` lists each of
these hazards at its line with the properties that would notice it going wrong.

## 2. Modules

| Module | Models | Role |
| --- | --- | --- |
| `Auth` | `auth.rs` as values and pure operations | used by `Admission` and `Proxy` |
| `Admission` | authenticate middleware, key-store changes, rate limiter | state machine |
| `Proxy` | both handlers, cache, stream observer, spend tracker, reloads | state machine |
| `PeriodToken` | `current_period_token` and `civil_from_days` over a real calendar | pure algorithms |
| `ControlPlane` | Control Node client, link status, start of api mode | state machine |
| `Sse` | `SseParser`, and events as bytes | pure functions |
| `Connectors` | the four connectors' decisions, usage, cost | pure functions, on `Sse` |
| `Failover` | registry dispatch of one call, attempt by attempt | actions, on `Connectors`; implements `Upstream` |
| `Upstream` | what the handlers rely on when they call the connector | abstract specification |
| `Streams` | the Anthropic adapter and the usage observer around a streamed body | actions, on `Connectors` |
| `Exchange` | `Failover` and `Streams` joined by the handler | state machine |
| `Config` | layers, defaults, bundles, `build_runtime` | pure functions |
| `Reload` | start, reloads of runtime and TLS material, polls | actions, on `Config` |
| `Ctl` | `vaultplane-ctl`, the admin API's key handlers, a network | actions, on `Auth` and `Reload` |
| `Operations` | `Reload` and `Ctl` of one gateway that stops and starts | state machine |
| `Plugins` | the plugin chain and the WebAssembly host | state machine |
| `Lifecycle` | startup, drain, hard cap, readiness prober | state machine |
| `ProxyProofs`, `ControlPlaneProofs`, `PluginsProofs`, `LifecycleProofs`, `OperationsProofs` | theorems about the module of that name | proofs |
| `AdmissionProofs` | theorems about `Admission` and `PeriodToken`, the two models of `auth.rs` | proofs |
| `StreamsProofs` | lemmas about `Sse` and `Streams`: parser, adapter, observer | proofs |
| `ExchangeProofs` | theorems about `Failover` and `Exchange`, and with `StreamsProofs` about `Streams` | proofs |
| `MC*` | constants for TLC | instances |

Common conventions. One action is one lock acquisition, one read of a clock or shared
handle, or one await; everything a function does between two of those is in the same
action. Variables under "History" are read by properties only. Operators keep the
names of the functions they stand for. Definitions whose comment says *Mutant* are
plausible mistakes in the operator after them; no specification uses them, they show
that the property named with them in `PROJECT.json` notices the mistake.

**Auth.** A secret token and its SHA-256 hash are one value, since nothing but
equality of hashes is ever used. Money is counted in indivisible units and bucket
contents in units of 1/`TicksPerSecond` token, so the `f64` arithmetic becomes exact;
rounding of floats is not modelled.

**Admission.** `Arrive`, `IsEmpty`, `Authenticate`, `CheckExpiry`, `CheckRate` and
`Leave` are the middleware in the order of its code; `create_key`, `delete_key` +
`ForgetRate`, and `replace_all` are the three ways keys change. `delete_key` takes its
locks one after the other, so it is one action per lock; its third lock, the spend
tracker, is `Proxy`'s `ForgetSpend`.

**Proxy.** A slot of `req` is a request with its program counter and everything the
handler holds across awaits: the key as it was cloned, the runtime generation, the
body as the plugins left it, the period code it read. `PreCheckToken`/`PreCheck` and
`RecordToken`/`Record` are separate because the code reads the clock before it locks.
A response is known by what produced it (generation, key, endpoint, model, body,
idempotency key), so a cache hit can be compared with the request it is served to. The
endpoint is not part of `cache_key_for`, as in the code. Chat and embeddings share the
actions: the handlers have the same control, and embeddings never stream.

**ControlPlane.** The client is one task; a poll is the Control Node answering
(`Fetch`) and the client applying the answer (`ApplyNothing`, `ApplyModified`), because
anything may happen in between. `TickFails` and `TickSucceeds` are `record_tick` with
the audit event that `tick` writes for its transition. A bundle is its version and a
version its own ETag; a 200 may lack the ETag header. A bundle builds or never does;
`config_reloaded` events and times are left out. `LocalEdit` is a change beside the link
(a reload of the local file); the history variable `edited` says which resources were
changed so since the client last applied one. The safety properties about versions exempt
these; `Converges` says how long such an edit can last.

**Plugins.** A slot of `req` is a request in `run_plugins`; `Skip`, `InspectNative` and
`Invoke` are the three things that can happen at an entry of the chain, and a guest's
invocation ends in `Return`, `Fail` or `Interrupt`. The epoch is one thread's counter;
what matters of a deadline is the ticks left, which `Tick` counts down for all running
guests at once. The native plugin is a function of the body, a guest may come up with
any body. The ticker never stops; a deadline that has passed has no ticks left and stays so.

**Lifecycle.** `Build` and `BindAdmin` are `run` up to the point where all tasks are
spawned; from there the two servers, the signal task and the prober interleave.
`BindProxy` is in the proxy's task, as in the code. `elapsed` says that
`drain_timeout` has passed since the signal: from then on both the TLS server's own
cut-off and the forced exit may happen, in either order. A probe round loads the
runtime once and then has one reply per connector.

**Sse, Connectors.** A line is a record and its bytes are two halves and a line end, so a
chunk can end within a character, a line and a blank line; `IsUtf8` is what `from_utf8`
says of such bytes. A provider's body is its kind (answer, error, other text, long text
with a character across byte 512) and its token counts, each of which may be missing.
`Refuses` and `NotStreamed` are what a connector decides before it sends, `PassesStream`
what it does on the head of the response, `Finished` what it makes of a body it has read.
Prices are integers per token.

**Failover.** One call at a time, since the registry is immutable and calls share nothing.
An attempt is `Start`, `ReceiveHead`, `ReadBody`, or ends in `TransportError` or `Timeout`
at any point; `Attempted` is the `match` on its outcome, for `dispatch` and
`dispatch_embeddings` alike. A model that is not in the registry has one attempt and no
timer. A panic in a connector unwinds the handler. The mapping to `Upstream` takes as
remaining routes those without an outcome yet.

**Streams.** `stream` is the adapter, or just the provider's stream where there is none;
`Forward` is the observer, which every chunk for the client passes; the actions are the
ways `poll_next` can go. A script is the provider's body as events, and the properties
are stated on the events: `Translation` says event by event what an adapted body is,
without a parser, a buffer or a queue. `LineType`, `Event` and `Script` say what bodies
there may be at all; the counts in them are those of `Tokens`, of any length otherwise.

**Exchange.** `RespondOk`, `RespondErr` and `Unwind` are what the handler does with the
connector's result: charge and answer, or hand the stream to the observer.

**Config.** A configuration is a function from settings to values, a layer has some of
them, and merging layers is overriding functions (`Over`). Lists are replaced as a whole, as
figment and `apply_config` do. `load` and `build_runtime` give `None` where the code
returns an error.

**Reload.** A job is a reload in progress: `Begin` loads and builds, `ReadMaterial` parses
the TLS files, `SwapMaterial` swaps them, `Store` stores the runtime; `Poll` is
`poll_config`, from the fetch of a bundle to its runtime. `Begin` and `Poll` may be refused
at any time, because a build also downloads plugins and sets up HTTP clients (in
`ControlPlane`, which is about convergence, a bundle builds or never does). Certificate, key
and CA are read in one step. The history variable `settled` says what the last reload came to, if no
other ran beside it and nothing has changed since it began; the properties speak of that
reload only, because of two overlapping ones the last to store wins. Of overlapping ones only `TypeOK`
speaks: what is live was built, and the material parses.

**Ctl.** A call goes through `sent`, `handled` (the key store has changed) and `answered`
(the audit event is written); it may be lost before and after. A token is present or not;
an id stands for the token and hash generated with it. `told` is what the operators were
told since the gateway started, `trail` what the audit log says. `PullKeys` replaces the
keys in api mode; the properties about keys speak of the file mode, where nobody does.

**PeriodToken.** The clock runs day by day from 2024; year, month, weekday and ISO
week are those of the `time` crate, written out. Its specification is called `ClockSpec`,
so that its proofs can stand beside those of `Admission`.

## 3. Runs

| Run | Shows | Instance | Distinct states |
| --- | --- | --- | --- |
| `admission` | no admission that no single key set grants; bursts bounded | 2 requests, 1 admin, 2 keys (one rate-limited, one expiring), 3 instants | 1.3 M |
| `spend` | bounded overshoot, no leak between periods, charged exactly once | 2 requests, one key with a budget of 1 and of 2, costs 1 and 2, 2 days, revocation | 1.8 M |
| `cache` | hits are of one's own key, model, content and runtime | 1 request at a time, 2 keys, 2 bodies, 1 idempotency key, 1 reload, evictions | 1.6 M |
| `control_plane` | synced is true, status is true, convergence, local edits are replaced; trail equals transitions, outages reported | 2 versions (one breaks the build), 1 fault, all start modes, local reloads | 0.4 M |
| `exchange` | dispatch implements `Upstream`, true trail; client gets the translation and the truth, charges are for what was forwarded at the server's price; nothing hangs | models with 1, 2, 3 routes over all connectors, 2 unregistered names, statuses 200, 400, 503, 7 bodies, every way to cut them into chunks | 9.8 k |
| `plugins` | forwarded means inspected, rejected means stopped by the last to run, own budgets, guests do not block | 2 requests, 2 models, chain of guest (fail-open, one model), native, guest (fail-closed, budget 0) | 0.25 M |
| `lifecycle` | requests cut only after the timeout, the process ends with a true status, readiness settles | 2 requests, 2 connectors, 3 configurations, with and without TLS | 66 k |
| `operations` | failed reloads change nothing, others act like a restart, bundles like files; operators and audit log know the keys | 4 files, 3 TLS materials, 3 bundles, 3 reloaders, 2 operators, 2 keys, `MaxEvents` = 4 outside events | 2.3 M |
| `period_token` | day and month codes follow the calendar, weeks end on Sunday or with the year, signed dates are right | 2024 to 2033 | 3653 |

Why the bounds are enough to be interesting. Two requests are the least for every race
here (check/check/charge/charge, stale code against fresh code, shared bucket), and
each mutant of the code that the properties are meant to notice is found within them.
Two keys, two bodies and one idempotency key tell apart every component of the cache
key but the model, which `HitIsOfOwnScope` also compares and which a key restricted to
`m1` asks for in vain. One request at a time is enough for cache contents: entries
outlive requests, and a reload can fall anywhere inside one. In `control_plane` keys
have two versions that apply and config one that applies and one that does not, so
ETags advance, stay and go back. In `exchange` the bodies have counts in the wrong event,
repeated usage, an event that is not UTF-8, one without its blank line, and comments; three
routes are the least with a route that is neither first nor last, one provider occurs
twice in them, and prices differ so that a wrong route or count gives a wrong cost. In
`operations` four outside events are enough for an edit and a rotation around two reloads,
a publication between two polls, and a creation with two revocations of the same key; the
files are good, malformed or unbuildable, with TLS, mutual TLS and api mode, the material
is good, without its CA, or broken, and the bundles leave out and empty lists and prices.
The counters bounded are the clock (`MaxNow`), reloads (`MaxGen`), outside events
(`MaxEvents`) and `consecutive_failures` (`MaxFailures`, the code's `u32::MAX`).
Only `PeriodToken`, whose calendar ends, `Lifecycle`, whose process exits, and
`Operations`, whose outside events run out while the gateway sits idle, may stop.

Fairness. `ControlPlane!FairSpec` assumes weak fairness of the client's steps: the loop
is a tokio task of its own, every request has `REQUEST_TIMEOUT`, the sleep is finite.
`Exchange!Spec` assumes it of `Timeout` (tokio's timer fires), of the step that calls the
next connector, and of `Emit`, what the adapter gives out by itself to a client that
reads; providers may hang for ever. `Plugins!Spec` assumes it of the ticker thread and of the host's own steps, the
trap at a passed deadline included, never of a guest. `Lifecycle!Spec` assumes it of
startup, of the drain timer and the exit after it, and of the prober, whose probes have
`REACHABILITY_TIMEOUT`; the servers' own drain steps need none for the process to end.
Nothing is assumed of clients, operators, providers, guests or the Control Node.

### Disagreements between the code and what is written about it

These runs end in a counterexample, each of a sentence in the docs or comments:

| Run | Sentence | What the code does |
| --- | --- | --- |
| `rollover` | `auth.rs:387` "Cumulative USD spend for `key_id` in the current period" | a stale period code wipes the new period's spend |
| `envelope` | `anthropic.rs:503` "so the client always gets a useful payload" | a text error with a character across byte 512 panics: no answer, no failover |
| `expiry` | `vaultplane-ctl/src/main.rs:98` "RFC3339 expiry timestamp", `CONFIGURATION.md:129` "Reject the key after this instant." | offline `key create` drops `--expires-at` |

Read from the code in the same spirit, without a run of their own: the connectors say that
streams are not charged (`anthropic.rs:14` "Token usage on streaming responses is not yet
recorded against the span and spend tracker; that is a follow-up", again at
`anthropic.rs:462`; `openai.rs:11` "usage is not extracted on the streaming path", again at
`openai.rs:110` and `azure.rs:13`), but `proxy.rs:495` puts `UsageObservingStream` around the
streamed body, which finds the usage and charges it (`ChargedForWhatWasForwarded`, and
`Proxy`'s `StreamUsage`); the comments are older than the observer; config and keys are
"swapped atomically ... together" (`CONFIGURATION.md:283`), but `tick` applies the config
before it fetches the keys; `cache_key_for` does not tell endpoints apart, so one
idempotency key used for a chat and an embeddings call of one model is no mere "retry"
(`proxy.rs:53`); `retryOn: []`
"never fails over" (`CONFIGURATION.md:315`), but provider errors and timeouts always
do (`Failover`'s `TransportError`, `Timeout`); a local reload in api mode leaves
`config_version` on the status as it was (`ControlPlane`'s `LocalEdit`), although
`status.rs:310` calls it the version "currently applied"; a request that was
authenticated before `DELETE /admin/keys/{id}` re-creates the state that call frees
(`README.md:336`; `BurstBound` and `OvershootBound` count from the last time it was freed); a request that finds the store non-empty, and then its token gone
because the set was replaced, is answered 401 even if the new set is empty; a changed
`rate_limit_rps` ("Per-key rate limit in requests per second.", `auth.rs:70`) does not
reach a bucket that exists (`Admission`'s `BucketFor`); a proxy that cannot bind its port
leaves a process whose admin API reports ready (`main.rs:174` "the listeners are bound.
Readiness now tracks provider reachability"); a week that contains New Year has two codes,
and 30 December 2024 has that of the first week of 2024, so a weekly budget
(`CONFIGURATION.md:136` "Period the budget resets over.") is reset early
(`CodesFollowTheCalendar` says exactly when); `config validate` only loads the
file and does not build a runtime from it, as a reload does (`vaultplane-ctl/src/main.rs:530`);
Bedrock's errors reach the client as Bedrock sent them (`ClientIsToldTheTruth` excepts
them); a file that lists two keys under one id needs two revocations to lose both
(`auth.rs:216`); in api mode a key issued by the admin API is gone with the next key set.

## 4. Proofs

Every theorem holds for every value of the constants that its module's assumptions
allow: any number of requests, keys, routes, plugins, versions, operators, any streamed
body and any way to cut it. The inductive invariants `IInv`, `BooksInv` and `ServedInv` stand
at the end of the modules they speak of; TLC has checked each on the instances of section
3. They are not invariants of the runs because the theorems say more. Those of a stream and
of the clock (`StreamInv`, `BodyInv`, `ClockInv`) need the vocabulary of the proofs and stand
there.

| Module | Theorem | Establishes |
| --- | --- | --- |
| `ProxyProofs` | `TypeCorrect`, `BoundedOvershoot` | `TypeOK`, `OvershootBound` |
| | `NoOvercount`, `OneCharge`, `HitsOfOwnScope`, `HitsOfOwnRuntime` | `NeverOvercounts`, `ChargedExactlyOnce`, `HitIsOfOwnScope`, `HitIsOfOwnRuntime` |
| `AdmissionProofs` | `TypeCorrect`, `OneKeySetAdmits`, `BurstIsBounded` | `TypeOK`, `AdmissionFollowsOneKeySet`, `BurstBound` |
| | `DatesAreSigned`, `CodesFollow` | `SignedDateIsTheDate`, the action property `CodesFollowTheCalendar`, from 2024 to 2099 |
| `ControlPlaneProofs` | `TypeCorrect`, `SyncedIsTrue`, `StatusIsTrue`, `AuditIsTrue` | `TypeOK`, `SyncedMeansFollowed`, `StatusShowsApplied`, the action property `AuditAgreesWithLink` |
| `ExchangeProofs` | `TypeCorrect`, `Refinement`, `TrailIsTrue`, `TruthIsTold` | `TypeOK`, `ImplementsUpstream`, `TrailMatchesAttempts`, `ClientIsToldTheTruth` |
| | `ResponseIsForwarded`, `ForwardedIsCharged`, `ChargesArePriced` | `ForwardedIsTheResponse`, `ChargedForWhatWasForwarded`, `PricedAsServed` |
| `PluginsProofs` | `ChainIsComplete`, `RejectionHasACause`, `BudgetIsGranted` | `ForwardedThroughTheChain`, `RejectedByTheLastToRun`, `InterruptedAfterOwnBudget` |
| `LifecycleProofs` | `NothingIsCutEarly`, `StatusIsTold` | `CutOnlyAfterTimeout`, `ExitStatusIsTrue` |
| `OperationsProofs` | `TypeCorrect`, `FailureKeepsOld`, `ReloadLikeRestart`, `BundleLikeAFile`, `OperatorsKnow`, `AuditTells` | `TypeOK`, `FailedReloadKeepsOld`, `ReloadIsLikeARestart`, `BundleIsLikeAFile`, `OperatorsKnowTheKeys`, `AuditTellsTheKeys` |

Each module also has the theorem that its invariant is one (`InductiveInvariant`,
`BooksAreKept`, `ExchangeInvariant`), except `LifecycleProofs`, where it is a step. The type invariants of
`Plugins` and `Lifecycle` are proved there as parts of it.

### Arguments

**Proxy, budgets.** `OvershootBound` is not inductive: an entry over its budget says nothing of
how many requests may still add to it. `OvershootInv` adds `MaxCost` for each of these
*contributors* to the left-hand side. A request is a contributor of an entry if it has
passed the pre-check, has not been charged, and holds a period code no later than the
entry's; or if it is about to compare a code older than the entry's, which passes
whatever was spent. When a request passes the pre-check against the entry's own code,
spend is below a budget, and even with every request a contributor the sum is in
bounds; when it passes with a later code, its charge will replace the entry; when it
is charged, it stops contributing and adds at most what it was counted for. This needs
`TokensNotAhead` (codes in hand and in entries are not ahead of the clock, so a code
read now is no earlier than the entry's) and `ReadyToRecord` (who is about to be
charged has a budget, a cost and a code, and if it streams will not be charged again).
`IInv` is the conjunction with `TypeOK`. The proof reduces every step to five cases
(`StepCases`): one slot is freed or changes quietly, reads the clock or compares; a
record; nothing the invariant speaks of; a revocation; a tick.

**Proxy, books.** `BooksInv` says what is true between the steps that the four properties
are about: an entry holds no more than its period's ledger, also when a stale code
replaces it (`LedgerInv`); where a request is tells how often it was charged (`Charged`);
an entry of the cache is filed under what it was made from, in the cache of the runtime
that made it (`Filed`), so a hit is of the requester's own scope (`OwnHit`).

**Admission.** `SeenInv` carries the key set that justified a request past the two reads of
the store, which may see different sets. `BurstBound` speaks of two grants; the invariant
is a potential argument on one (`Accounts`): what was granted since grant *i*, plus what
the bucket still holds, is at most capacity plus refill since *i*. A grant moves one unit
from the held side to the granted side, a refill adds to both sides.

**ControlPlane.** In the middle of a tick, status and what is served differ. `Shown` is the
version the status will show when the tick is over; `ServedInv` compares that with what is
served, and says that an ETag stands for what is served; `AnswerInv` says that an answer in
flight, 304 included, is of the version followed.

**Exchange.** `RouteInv` and `TrailInv` say which route is tried and what each earlier one has
left: as many outcomes and failover events as routes passed over, the *i*-th event from
route *i* to route *i* + 1. `ResultInv` ties the result to the last outcome, `ReplyInv` the
answer to the call that is over. The refinement maps every step to `Start`, `Refuse`,
`Answer`, `End`, `Abandon` or a stutter of `Upstream`: an outcome uses up just the
route it came from because `Len(outcomes)` is the index of the route before. `ReadIsCharged`
needs `ServedInv`: while a body is read, its route is the last one sent to, and usage that
was read is of a request that does not stream, so no stream will change the charge. Of a
stream `ServedInv` says that a body with events comes from the route that the observer was
given, the last one sent to; `StreamInv` says that what the observer charges is a price there.

**Streams.** The runs cut seven bodies in every way; the theorems speak of all bodies, so
they need to know what the recursive functions `pulled` and `processed` and the flattening of
event lists come to. The library's induction rules take an operator and cannot be used;
`StreamsProofs` derives from well-founded minima a rule that takes a *set* (`Least`,
`Induction`), and with it: the first blank line of a wire that begins inside event *k* is
the end of event *k*, since no event is empty and none of its lines is blank; so pulling
a buffer that starts at an event and reaches to byte *b* gives exactly the readable events
that end by *b* and leaves the bytes after the last of them; so a parser fed chunk by chunk
(`StreamOK` for the adapter, `Observed` for the observer) is always in the state of one
that was given all the bytes at once, and a parser that met an event that is not UTF-8 never
moves again. On top of this the adapter's transform is `KnownAfter` of the events it has
read, what it has forwarded followed by what is pending is `Translation` of them, and the
observer has charged the first usage event among those that the client has whole.

**PeriodToken.** `ClockInv` says that the day lies in a year of the calendar. `FirstDay` goes
up by 365 or 366 per year, so `year` and `month` pick the only candidate. For
`civil_from_days` the years are counted from March: the correction terms of the year of the
era are worked out for the era that began in 2000, where all days in question lie, the month
from March is a linear function rounded down, and the twelve months are cases. A week's
Thursday moves by seven on Mondays and not at all on other days, so the code changes
there, and within a year to one that differs, in the week around New Year too.

**Plugins.** `SlotInv`: the plugins in the trail are exactly the bound ones up to where the
request is in the chain, in order, each entry given what the one before made; only the last
entry of a rejected request may be one that stops it; ticks run
and ticks left of a running guest add up to its own budget, whatever `Tick` does to all.

**Lifecycle.** `NoOrphans`: a request is handled by a server that listens or drains, so the
end of a server or of the process that cuts one must come after the timeout. `DrainIsTold`: a
server drains or is done only after the signal, so the process that has joined both with
success was told to end.

**Operations.** `ReloadInv` follows a reload that is alone: what it has read is what the files
hold (`FileInv`), a failure would leave what was there before, and nothing moves what has
settled (`SettledInv`); of any reload, `JobInv` says that what it is about to swap in parses; `PollInv` the same for a bundle. That a bundle is like a file is a
lemma about `apply_config` (`BundleLikeFile`). `CtlInv` counts in what is under way: `Born` and `Gone` are
the keys that operators know *or are about to be told of*, since an answer may arrive long
after another operator's revocation; `Added` and `Removed` are the changes of handlers
that have yet to write their event, and the store is what the log says with them. That no
key is revoked twice needs that no two handlers hold a success for one id.

### Assumptions

All are named, stand in the module that declares the constants, and are evaluated by TLC.
`ProxyAssumption`: requests are finitely many, a cost is at most `MaxCost`, budgets are
positive, all versions of one key use the same period, idempotency keys are not bodies
(`cache_key_for` puts `idempotency:` before them, and no JSON body begins so), and the codes of the calendar do not
decrease. `CodesFollow` proves the last one for `day` and `month`; for `week` it does not
hold around New Year, so there `BoundedOvershoot` is not claimed. `FailoverAssumption`: what
`Registry::new` makes sure of, a registered model has at least one route and all lead to
known providers. `ReloadAssumption`: a bundle has the fields that its wire type requires.
`StreamsAssumption`: an event has at least one line, and one that reaches the Anthropic adapter
is a single line or the name of an event and one data line, which is what that API sends
(the parser's lemmas hold for other events too; `Translation`, the reference, is only
written for these). `PeriodTokenAssumption`: the calendar ends by 2099, because 2100 is no leap year
and `FirstDay` takes it for one. `StringsAssumption` says of five literals that they are strings.
`ConnectorsAssumption`: prices are integers. `PluginsAssumption`: the chain is a finite list. `AdmissionAssumption`, `BucketAssumption`,
`CtlAssumption` and the rest: a rate is a natural number, hashes are unique in a key set,
and `None` is none of the values it stands beside.

### What the proofs changed in the model

No property turned out to be false. Some definitions had to be written in another form to be
reasoned about: recursion in `pulled` and `processed` is by recursive functions, `parse` and `Payload`
speak of positions instead of folding over lines, and what a body may be, which only the
instance of the run had said, is now an assumption on `Scripts`. Proving showed four places
where a definition meant less than it seemed to: overlapping `CASE` guards in `Phase`, `Translation` and `BodiesOf`,
of which TLC takes the first; a set difference in `Upstream` that two parsers read
differently; layers merged with `@@`, which has no definition outside TLC (`Over` in
`Config`); and bundles that lacked fields the wire type requires (`IsBundle`).

### Only model-checked

- Liveness, which needs fairness and `ENABLED`: `Converges`, `OutageIsReported`,
  `HungProvidersDoNotBlock`, `NothingStaysPending`, `GuestsDoNotBlock`,
  `ExitsAfterSignal`, `ReadinessSettles`.

Every invariant of a passing run, the refinement and the action properties are proved.
Fairness, and with it the claim that something eventually happens, is beyond the temporal
prover.

## 5. Not modelled

- Output: telemetry, metrics, spans, log lines, the rendering of `vaultplane-ctl`.
- What only reads: the other admin endpoints and commands, `list_models`.
- Cryptography: hashes and canonical requests of SigV4, TLS handshakes, SHA-256 of tokens.
- The text of messages, and with it the hoisting of system messages, finish reasons and
  the regular expressions of the native redaction plugin (a function of the body here).
- Floating-point rounding, and token counts beyond 32 bits.
- The plugin SDK and the sample plugin: generated bindings, and a guest like any other.
- HTTP framing and connection reuse; serde's and figment's parsing beyond "it parses, and
  these settings are there".

A body that stalls while it is streamed is under no timeout in the code, and is a stream
that takes no further step in `Streams`.

## 6. Plan

Modelled and checked: every component of section 1 but output. Proved: what section 4 lists.
Next:

- `Gateway`: `Admission` and `Proxy` composed, a revocation across all three locks.
- The calendar after 2099, with the century rule in `FirstDay`.

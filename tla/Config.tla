------------------------------- MODULE Config -------------------------------
(***************************************************************************)
(* Where a runtime comes from: the layers of Config::load (config.rs), the *)
(* Control Node's bundle laid over the local configuration                 *)
(* (control_plane/map.rs, dto.rs), and runtime::build_runtime.             *)
(*                                                                         *)
(* Data abstraction: a configuration is a function from settings, the      *)
(* paths of the YAML tree down to lists and scalars, to values.  A layer   *)
(* has some of the settings; merging trees is overriding functions.        *)
(***************************************************************************)
EXTENDS Integers, Sequences, TLC, Functions

CONSTANTS
    None,               \* Rust's Option::None, and a field that is left out
    Malformed,          \* a value that does not parse
    Env,                \* the layer of the VAULTPLANE_ variables
    PriceSettings,      \* the settings below pricing
    BundledPricing,     \* default_pricing.yaml
    Loadable            \* names of the WebAssembly plugins that WasmPlugin::load accepts

Providers == {"openai", "anthropic", "azure", "bedrock"}

(* The fields that a record leaves out, filled in. *)
Filled(record, defaults) ==
    [f \in DOMAIN record |-> IF record[f] = None THEN defaults[f] ELSE record[f]]

(* What a record may leave out is what the defaults have. *)
Fillable(record, defaults) == \A f \in DOMAIN record : record[f] = None => f \in DOMAIN defaults

(* A layer over another: TLC's @@, of which the proof system knows no      *)
(* definition.                                                             *)
Over(upper, lower) ==
    [s \in DOMAIN upper \cup DOMAIN lower |-> IF s \in DOMAIN upper THEN upper[s] ELSE lower[s]]

Each(f(_), list) == [i \in 1..Len(list) |-> f(list[i])]
-----------------------------------------------------------------------------
(***************************************************************************)
(* Files: what serde fills in, and the layers.  Settings that no property  *)
(* tells from one of these are left out: addresses, the names of           *)
(* environment variables, intervals.                                       *)
(***************************************************************************)
Providers_default ==
    "openai.base_url" :> "https://api.openai.com"
    @@ "anthropic.base_url" :> "https://api.anthropic.com"
    @@ "azure.base_url" :> "" @@ "azure.api_version" :> "2024-10-21"
    @@ "bedrock.region" :> "us-east-1"

CacheConfig_default ==
    "cache.enabled" :> TRUE @@ "cache.size_mb" :> 256 @@ "cache.ttl_seconds" :> 3600

(* Config::default().  listen.tls is None, "server", or "mtls" where a     *)
(* client_ca_path is set.                                                  *)
Config_default ==
    "listen.tls" :> None @@ "control_plane.mode" :> "file"
    @@ "models" :> <<>> @@ "plugins" :> <<>> @@ CacheConfig_default @@ Providers_default

default_model == [retry_on |-> {429, 500, 502, 503, 504}, timeout_ms |-> 30000]

default_plugin ==
    [patterns |-> {"ssn", "credit_card", "phone_us", "email"}, replacement |-> "[REDACTED]",
     hook |-> "inspect-request", latency_budget_ms |-> 5, on_timeout |-> "fail-open"]

ModelOfFile(m) == Filled(m, default_model)
PluginOfFile(p) == Filled(p, default_plugin)

(* Config::load: a file that is not there is an empty layer; None is an    *)
(* error.                                                                  *)
load(file) ==
    IF file = Malformed THEN None
    ELSE LET config == Over(Env, Over(file, Config_default))
         IN  IF \E s \in DOMAIN config : config[s] = Malformed THEN None
             ELSE [config EXCEPT !["models"] = Each(ModelOfFile, @),
                                 !["plugins"] = Each(PluginOfFile, @)]
-----------------------------------------------------------------------------
(***************************************************************************)
(* Bundles: lists that replace the local ones, settings of providers and   *)
(* of the cache that replace them one by one, prices that replace them     *)
(* all, if there are any.                                                  *)
(***************************************************************************)
DEFAULT_MODEL == [retry_on |-> {429, 500, 502, 503, 504}, timeout_ms |-> 30000]

DEFAULT_PLUGIN ==
    [patterns |-> {"ssn", "credit_card", "phone_us", "email"}, replacement |-> "[REDACTED]",
     latency_budget_ms |-> 5, on_timeout |-> "fail-open"]

(* What serde accepts of a bundle: fields that are not Options are there.  *)
IsBundle(b) ==
    /\ DOMAIN b = {"models", "plugins", "settings", "pricing"}
    /\ \A i \in 1..Len(b.models) : Fillable(b.models[i], DEFAULT_MODEL)
    /\ \A i \in 1..Len(b.plugins) : Fillable(b.plugins[i], DEFAULT_PLUGIN)

(* Mutant: an empty list of statuses counts as left out. *)
map_model_empty_is_omitted(m) ==
    Filled([m EXCEPT !.retry_on = IF @ = {} THEN None ELSE @], DEFAULT_MODEL)

map_model(m) == Filled(m, DEFAULT_MODEL)

map_plugin(p) == Filled(p, DEFAULT_PLUGIN)

apply_config(base, bundle) ==
    LET kept == Restrict(base, {s \in DOMAIN base : bundle.pricing # None => s \notin PriceSettings})
        priced == IF bundle.pricing = None THEN <<>> ELSE bundle.pricing
        lists == "models" :> Each(map_model, bundle.models)
                 @@ "plugins" :> Each(map_plugin, bundle.plugins)
    IN  Over(lists, Over(bundle.settings, Over(priced, kept)))
-----------------------------------------------------------------------------
(***************************************************************************)
(* build_runtime: the parts of a Runtime, or None where building fails.    *)
(***************************************************************************)
Registrable(config) ==
    \A i \in 1..Len(config["models"]) : config["models"][i].providers \subseteq Providers

Pluggable(config) ==
    \A i \in 1..Len(config["plugins"]) :
        LET p == config["plugins"][i]
        IN  "hook" \in DOMAIN p => p.hook = "inspect-request" /\ p.name \in Loadable

(* Pricing::overlaid_with *)
overlaid_with(config) == Over(Restrict(config, PriceSettings \cap DOMAIN config), BundledPricing)

build_runtime(config) ==
    IF config = None THEN None
    ELSE IF ~ (Registrable(config) /\ Pluggable(config)) THEN None
    ELSE [connectors |-> Restrict(config, DOMAIN Providers_default), models |-> config["models"],
          plugins |-> config["plugins"], pricing |-> overlaid_with(config),
          cache |-> IF config["cache.enabled"]
                    THEN Restrict(config, {"cache.size_mb", "cache.ttl_seconds"}) ELSE None]
=============================================================================

---------------------------- MODULE MCOperations ----------------------------
(***************************************************************************)
(* Operations for TLC: configuration files that parse, that do not, that   *)
(* name an unknown provider, with TLS and with mutual TLS, and one in api  *)
(* mode; certificate files that are good, without a CA, and broken;        *)
(* bundles that leave fields out, that have empty lists, and that cannot   *)
(* be built.                                                               *)
(***************************************************************************)
EXTENDS Operations

Model(providers, retry_on, timeout_ms) ==
    [name |-> "chat", providers |-> providers, retry_on |-> retry_on, timeout_ms |-> timeout_ms]

Redaction(patterns) == [patterns |-> patterns, replacement |-> None]

WasmPlugin(name, hook) ==
    [name |-> name, hook |-> hook, latency_budget_ms |-> None, on_timeout |-> "fail-closed"]

EnvValue == "cache.size_mb" :> 64

PriceSettingsValue == {"pricing.gpt", "pricing.claude"}
BundledPricingValue == "pricing.gpt" :> 1 @@ "pricing.claude" :> 2

FilesValue == {
    "models" :> <<Model({"openai", "azure"}, None, 10)>> @@ "pricing.gpt" :> 3
        @@ "listen.tls" :> "server" @@ "cache.size_mb" :> 1,
    "plugins" :> <<WasmPlugin("guard", None)>> @@ "listen.tls" :> "mtls"
        @@ "pricing.claude" :> 4 @@ "azure.base_url" :> "corp"
        @@ "control_plane.mode" :> "api",
    "models" :> <<Model({"unknown"}, {}, None)>> @@ "listen.tls" :> "mtls",
    Malformed}

M(id, server, ca) == [id |-> id, server |-> server, ca |-> ca]

MaterialsValue == {M("old", TRUE, TRUE), M("new", TRUE, FALSE), M("broken", FALSE, TRUE)}

Bundle(models, plugins, settings, pricing) ==
    [models |-> models, plugins |-> plugins, settings |-> settings, pricing |-> pricing]

BundlesValue == <<
    Bundle(<<Model({"bedrock"}, {}, None)>>, <<Redaction({})>>, "cache.enabled" :> FALSE, None),
    Bundle(<<>>, <<WasmPlugin("guard", "inspect-response")>>, <<>>, "pricing.gpt" :> 7),
    Bundle(<<Model({"openai"}, None, 20)>>, <<WasmPlugin("guard", "inspect-request"), Redaction(None)>>,
           "azure.base_url" :> "node", "pricing.gpt" :> 8) >>

DistributedValue == {Key("node", 1)}
=============================================================================

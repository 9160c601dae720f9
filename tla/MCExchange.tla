----------------------------- MODULE MCExchange -----------------------------
(***************************************************************************)
(* Exchange for TLC: virtual models with one, two and three routes (one of *)
(* them listing a provider twice), one that retries on no status, and all  *)
(* four connectors; bodies with counts in the wrong places, repeated       *)
(* usage, an event that is not UTF-8 and one without its blank line.       *)
(***************************************************************************)
EXTENDS Exchange

R(provider, model) == [provider |-> provider, model |-> model]

ModelsValue ==
    "one"   :> [routes |-> <<R("bedrock", "b")>>, retry_on |-> {503}] @@
    "two"   :> [routes |-> <<R("anthropic", "c"), R("azure", "d")>>, retry_on |-> {}] @@
    "three" :> [routes |-> <<R("openai", "g"), R("anthropic", "c"), R("openai", "h")>>,
                retry_on |-> {503}]

UnregisteredValue == {"claude-x", "gpt-x"}

PriceOf(input, output) == [input |-> input, output |-> output]

(* Prices that tell routes and token counts apart; "h" has none. *)
PricingValue ==
    "openai"    :> ("g" :> PriceOf(1000, 100000)) @@
    "azure"     :> ("d" :> PriceOf(2000, 200000)) @@
    "anthropic" :> ("c" :> PriceOf(3000, 300000)) @@
    "bedrock"   :> ("b" :> PriceOf(5000, 500000))

Chunked(adapted, events, rest) ==
    [adapted |-> adapted, whole |-> FALSE, events |-> events, rest |-> rest]

Message(name, payload) == <<Name(name), payload>>
Text(t) == Message("content_block_delta", Json(t, None, None))

ScriptsValue == {
    Chunked(TRUE, << Message("message_start", Json(None, 1, None)), Text("hi"),
                    Message("message_delta", Json(None, None, 2)) >>, <<>>),
    Chunked(TRUE, << Message("message_start", Json(None, 1, None)),
                    Message("message_delta", Json(None, None, 2)),
                    Message("message_delta", Json(None, None, None)) >>, <<Data("[DONE]")>>),
    Chunked(TRUE, << <<Comment>>, Message("ping", Data("text")),
                    Message("content_block_delta", Json(None, None, None)) >>,
                 Message("message_delta", Json(None, None, 2))),
    Chunked(TRUE, << Text("hi"), <<Data("not utf-8")>>,
                    Message("message_delta", Json(None, None, 2)) >>, <<>>),
    Chunked(FALSE, << <<Json("hi", None, None)>>, <<Json(None, 1, 2)>>, <<Json(None, 2, 2)>>,
                     <<Data("[DONE]")>> >>, <<>>),
    Chunked(FALSE, << <<Json("hi", 1, None)>>, <<Data("text"), Data("text")>> >>,
                  <<Json(None, 1, 2)>>),
    Chunked(FALSE, << <<Data("not utf-8")>>, <<Json(None, 1, 2)>> >>, <<>>)}
=============================================================================

----------------------------- MODULE MCPlugins -----------------------------
(***************************************************************************)
(* A chain of a native plugin between two guests: one fail-open for one    *)
(* model only, with a budget of two ticks, one fail-closed for all, with a *)
(* budget that is rounded up.                                              *)
(***************************************************************************)
EXTENDS Plugins

CONSTANTS m1, m2, b1, b2

Wasm(budget, on_timeout, bind_routes) ==
    [kind |-> "wasm", latency_budget_ms |-> budget, on_timeout |-> on_timeout,
     bind_routes |-> bind_routes]

Native == [kind |-> "pii_redaction", latency_budget_ms |-> 0, on_timeout |-> "fail-open",
           bind_routes |-> {}]

(* b1 has a match, b2 is b1 without it. *)
Redaction == [b \in Bodies |-> b2]

ThreePlugins == <<Wasm(2, "fail-open", {m1}), Native, Wasm(0, "fail-closed", {})>>
=============================================================================

------------------------------ MODULE Plugins ------------------------------
(***************************************************************************)
(* The inline plugin chain of a request (run_plugins in proxy.rs), the     *)
(* native redaction plugin (plugin.rs) and the WebAssembly host            *)
(* (plugin/wasm.rs).                                                       *)
(*                                                                         *)
(* One ticker thread advances the epoch of the engine that all invocations *)
(* share; each invocation has a deadline in ticks of it.  A guest may run  *)
(* for ever, in its initializer too: only the ticker and the trap at the   *)
(* deadline are fair.  A deadline is kept as how far the epoch is from it: *)
(* the ticks that are left, none once it has passed.                       *)
(***************************************************************************)
EXTENDS Naturals, Sequences

CONSTANTS
    Chain,      \* sequence of plugin entries, in the order of the configuration
    Bodies,     \* bodies that requests and guests come up with
    Redacted,   \* body -> the body the native plugin makes of it
    Models,     \* virtual models that requests ask for
    Requests    \* slots for requests handled at the same time

Kinds == {"pii_redaction", "wasm"}
FailModes == {"fail-open", "fail-closed"}

ASSUME PluginsAssumption ==
    /\ Redacted \in [Bodies -> Bodies]
    /\ Bodies # {} /\ Models # {}
    /\ Chain \in Seq([kind : Kinds, bind_routes : SUBSET Models,
                      latency_budget_ms : Nat, on_timeout : FailModes])

VARIABLES
    req,    \* slot -> program counter, model, current plugin and body, ticks left
    trail   \* history: slot -> what each plugin that ran saw, gave, and did

vars == <<req, trail>>

Done == {"forwarded", "rejected"}
Running == {"instantiate", "call"}
NoBody == CHOOSE body \in Bodies : TRUE
Free == [pc |-> "free", model |-> CHOOSE m \in Models : TRUE, index |-> 0, body |-> NoBody,
         left |-> 0, ran |-> 0]

Outcomes == {"pass", "modify", "reject", "failed", "interrupted"}
Entry == [plugin : 1..Len(Chain), saw : Bodies, gave : Bodies, did : Outcomes, ran : Nat]

Slot == [pc : {"free", "next"} \cup Running \cup Done, model : Models,
         index : 0..Len(Chain), body : Bodies, left : Nat, ran : Nat]

TypeOK ==
    /\ req \in [Requests -> Slot]
    /\ trail \in [Requests -> Seq(Entry)]

Init ==
    /\ req = [r \in Requests |-> Free]
    /\ trail = [r \in Requests |-> <<>>]
-----------------------------------------------------------------------------
plugin(r) == Chain[req[r].index]

applies_to(entry, model) == entry.bind_routes = {} \/ model \in entry.bind_routes

(* One tick is one millisecond, and at least one is granted. *)
budget_ticks(entry) == IF entry.latency_budget_ms = 0 THEN 1 ELSE entry.latency_budget_ms

Arrive(r, model, body) ==
    /\ req[r].pc = "free"
    /\ req' = [req EXCEPT ![r] = [pc |-> IF Chain = <<>> THEN "forwarded" ELSE "next",
                                  model |-> model, index |-> 0, body |-> body,
                                  left |-> 0, ran |-> 0]]
    /\ UNCHANGED trail

(* To the next entry of the chain, with the body as it now is. *)
Proceed(r, index, body) ==
    req' = [req EXCEPT ![r].pc = IF index = Len(Chain) THEN "forwarded" ELSE "next",
                       ![r].index = index, ![r].body = body]

(* What the plugin did, and the Decision it comes to. *)
Decide(r, did, decision, body) ==
    /\ trail' = [trail EXCEPT ![r] = Append(@, [plugin |-> req[r].index, saw |-> req[r].body,
                                                gave |-> body, did |-> did, ran |-> req[r].ran])]
    /\ IF decision = "reject"
       THEN req' = [req EXCEPT ![r].pc = "rejected"]
       ELSE Proceed(r, req[r].index, body)

Skip(r) ==
    LET next == req[r].index + 1
    IN  /\ req[r].pc = "next"
        /\ next <= Len(Chain)
        /\ ~ applies_to(Chain[next], req[r].model)
        /\ Proceed(r, next, req[r].body)
        /\ UNCHANGED trail

(* The native plugin decides at once.  It leaves a body alone that is not  *)
(* JSON, or without a match in the strings of messages[].content.          *)
InspectNative(r) ==
    LET next == req[r].index + 1
        body == Redacted[req[r].body]
    IN  /\ req[r].pc = "next"
        /\ next <= Len(Chain)
        /\ applies_to(Chain[next], req[r].model)
        /\ Chain[next].kind = "pii_redaction"
        /\ trail' = [trail EXCEPT ![r] =
                        Append(@, [plugin |-> next, saw |-> req[r].body, gave |-> body, ran |-> 0,
                                   did |-> IF body = req[r].body THEN "pass" ELSE "modify"])]
        /\ Proceed(r, next, body)

(* Mutant: one deadline for all of the chain. *)
Invoke_once_armed(r) ==
    LET next == req[r].index + 1
    IN  /\ req[r].pc = "next"
        /\ next <= Len(Chain)
        /\ applies_to(Chain[next], req[r].model)
        /\ Chain[next].kind = "wasm"
        /\ req' = [req EXCEPT ![r].pc = "instantiate", ![r].index = next, ![r].ran = 0,
                              ![r].left = IF trail[r] = <<>> THEN budget_ticks(Chain[next]) ELSE @]
        /\ UNCHANGED trail

(* A fresh store, with its deadline armed before the guest is instantiated. *)
Invoke(r) ==
    LET next == req[r].index + 1
    IN  /\ req[r].pc = "next"
        /\ next <= Len(Chain)
        /\ applies_to(Chain[next], req[r].model)
        /\ Chain[next].kind = "wasm"
        /\ req' = [req EXCEPT ![r].pc = "instantiate", ![r].index = next, ![r].ran = 0,
                              ![r].left = budget_ticks(Chain[next])]
        /\ UNCHANGED trail

(* Mutant: a guest that failed is passed over, whatever its policy. *)
circuit_break_open(r, did) == Decide(r, did, "pass", req[r].body)

(* Mutant: the policy is looked at for a trap only, a timeout rejects. *)
circuit_break_on_trap(r, did) ==
    Decide(r, did,
           IF plugin(r).on_timeout = "fail-open" /\ did = "failed" THEN "pass" ELSE "reject",
           req[r].body)

(* Pass or Reject, by the plugin's policy. *)
circuit_break(r, did) ==
    Decide(r, did, IF plugin(r).on_timeout = "fail-open" THEN "pass" ELSE "reject", req[r].body)

Instantiated(r) ==
    /\ req[r].pc = "instantiate"
    /\ req' = [req EXCEPT ![r].pc = "call"]
    /\ UNCHANGED trail

(* A trap of the guest's own doing, or the memory limit. *)
Fail(r) ==
    /\ req[r].pc \in Running
    /\ circuit_break(r, "failed")

(* Mutant: the deadline holds for the call alone, not the initializer. *)
Interrupt_in_call(r) ==
    /\ req[r].pc = "call"
    /\ req[r].left = 0
    /\ circuit_break(r, "interrupted")

(* The deadline has passed when the guest next looks. *)
Interrupt(r) ==
    /\ req[r].pc \in Running
    /\ req[r].left = 0
    /\ circuit_break(r, "interrupted")

(* map_action: the guest's own decision. *)
Return(r) ==
    /\ req[r].pc = "call"
    /\ \/ Decide(r, "pass", "pass", req[r].body)
       \/ \E body \in Bodies : Decide(r, "modify", "modify", body)
       \/ Decide(r, "reject", "reject", req[r].body)

(* The epoch ticker goes on for ever; a deadline that has passed stays so. *)
Tick ==
    /\ req' = [r \in Requests |->
                 IF req[r].pc \in Running /\ req[r].left > 0
                 THEN [req[r] EXCEPT !.left = @ - 1, !.ran = @ + 1] ELSE req[r]]
    /\ UNCHANGED trail

Leave(r) ==
    /\ req[r].pc \in Done
    /\ req' = [req EXCEPT ![r] = Free]
    /\ trail' = [trail EXCEPT ![r] = <<>>]

(* The host's own steps: they do not wait for a guest. *)
Host(r) == Skip(r) \/ InspectNative(r) \/ Invoke(r) \/ Interrupt(r)

Next ==
    \/ \E r \in Requests :
          \/ \E model \in Models, body \in Bodies : Arrive(r, model, body)
          \/ Skip(r) \/ InspectNative(r) \/ Invoke(r)
          \/ Instantiated(r) \/ Fail(r) \/ Interrupt(r) \/ Return(r)
          \/ Leave(r)
    \/ Tick

Spec ==
    /\ Init
    /\ [][Next]_vars
    /\ WF_vars(Tick)
    /\ \A r \in Requests : WF_vars(Host(r))
-----------------------------------------------------------------------------
(***************************************************************************)
(* Properties.                                                             *)
(***************************************************************************)

Bound(model) == {i \in 1..Len(Chain) : applies_to(Chain[i], model)}

Visited(t) == {t[i].plugin : i \in 1..Len(t)}

(* It did not stop the request: it did not reject, and if it failed, then  *)
(* open and without a trace.                                               *)
Harmless(e) ==
    /\ e.did # "reject"
    /\ e.did \in {"failed", "interrupted"} =>
          Chain[e.plugin].on_timeout = "fail-open" /\ e.gave = e.saw

Stops(e) ==
    \/ e.did = "reject"
    \/ e.did \in {"failed", "interrupted"} /\ Chain[e.plugin].on_timeout = "fail-closed"

(* A request that is forwarded has been through all of the plugins bound   *)
(* to its model, in the order of the configuration: each saw what the one  *)
(* before it gave, none rejected it, one that failed is fail-open and      *)
(* changed nothing, and what is forwarded is what the last of them gave.   *)
ForwardedThroughTheChain ==
    \A r \in Requests :
        LET t == trail[r]
            n == Len(t)
        IN  req[r].pc = "forwarded" =>
                /\ Visited(t) = Bound(req[r].model)
                /\ \A i \in 1..n :
                      /\ Harmless(t[i])
                      /\ i < n => t[i].plugin < t[i + 1].plugin /\ t[i + 1].saw = t[i].gave
                /\ n > 0 => t[n].gave = req[r].body

(* A request that is rejected was rejected by the last plugin that ran,    *)
(* of its own decision or because it failed and is fail-closed; every      *)
(* bound plugin before that one ran and let it pass, and none after it.    *)
(* A fail-open plugin that traps or is interrupted costs no request.       *)
RejectedByTheLastToRun ==
    \A r \in Requests :
        LET t == trail[r]
            n == Len(t)
        IN  req[r].pc = "rejected" =>
                /\ n > 0 /\ Stops(t[n])
                /\ \A i \in 1..(n - 1) : Harmless(t[i])
                /\ Visited(t) = {i \in Bound(req[r].model) : i <= t[n].plugin}

(* A guest is interrupted for its own delay only: all of its own budget    *)
(* has gone by since it was invoked, at least one tick, however long the   *)
(* plugins before it took and whatever other requests do to the shared     *)
(* ticker.                                                                 *)
InterruptedAfterOwnBudget ==
    \A r \in Requests : \A i \in 1..Len(trail[r]) :
        LET e == trail[r][i]
        IN  e.did = "interrupted" => e.ran >= 1 /\ e.ran >= Chain[e.plugin].latency_budget_ms

(***************************************************************************)
(* The inductive invariant behind these, of one slot: its trail is of the  *)
(* bound plugins up to where it is in the chain, each entry follows        *)
(* from the one before, and a guest has used up what is not left of its    *)
(* budget.                                                                 *)
(***************************************************************************)
Passed(q) == {i \in Bound(q.model) : i < q.index \/ (i = q.index /\ q.pc \notin Running)}

InOrder(t) ==
    \A i, j \in 1..Len(t) : j = i + 1 => t[i].plugin < t[j].plugin /\ t[j].saw = t[i].gave

InTime(e) ==
    e.did = "interrupted" => e.ran >= 1 /\ e.ran >= Chain[e.plugin].latency_budget_ms

SlotInv(q, t) ==
    /\ q.pc = "free" => t = <<>> /\ q.index = 0
    /\ q.pc = "forwarded" => q.index = Len(Chain)
    /\ q.pc \in Running =>
          q.index \in Bound(q.model) /\ q.left + q.ran = budget_ticks(Chain[q.index])
    /\ Visited(t) = Passed(q)
    /\ InOrder(t)
    /\ t # <<>> => t[Len(t)].gave = q.body
    /\ q.pc = "rejected" => t # <<>> /\ Stops(t[Len(t)]) /\ t[Len(t)].plugin = q.index
    /\ \A i \in 1..Len(t) : Harmless(t[i]) \/ (q.pc = "rejected" /\ i = Len(t))
    /\ \A i \in 1..Len(t) : InTime(t[i])

IInv == TypeOK /\ \A r \in Requests : SlotInv(req[r], trail[r])

(* A request gets through the chain though guests loop for ever, in their  *)
(* initializers or in the call.                                            *)
GuestsDoNotBlock == \A r \in Requests : req[r].pc = "next" ~> req[r].pc \in Done
=============================================================================

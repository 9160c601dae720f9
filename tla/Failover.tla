------------------------------ MODULE Failover ------------------------------
(***************************************************************************)
(* The model registry's dispatch of one call to the routes of a virtual    *)
(* model (provider/registry.rs), for chat and for embeddings, which have   *)
(* the same control, and the attempt of a connector on one route: request  *)
(* sent, head of the response awaited, body awaited.  The registry never   *)
(* changes once built and calls share nothing, so one call at a time is    *)
(* enough.                                                                 *)
(*                                                                         *)
(* Every attempt is raced against the model's timeout, which covers all    *)
(* that the connector awaits.  A provider may also hang, so only the timer *)
(* is fair.  A model that is not in the registry goes to a provider chosen *)
(* by name, without a timeout.                                             *)
(***************************************************************************)
EXTENDS Connectors

CONSTANTS
    Models,         \* virtual model name -> [routes, retry_on]
    Unregistered,   \* names that are not in the registry
    ClaudeNames     \* the names that start with "claude"

VARIABLES
    call,       \* the call: program counter, model, request, index of the route,
                \* status of the response that is being read, result
    \* History, read by properties only:
    outcomes,   \* what each attempt came to
    sent,       \* the requests of this call that went out: provider and model
    audits      \* the failover audit events of this call

callVars == <<call, outcomes, sent, audits>>

Route == [provider : Providers, model : STRING]

(* Registry::new refuses a model with a route to an unknown provider, and  *)
(* a model has its primary route at least.                                 *)
Resolved(model) == model.routes \in Seq(Route) \ {<<>>}

ASSUME FailoverAssumption ==
    /\ \A name \in DOMAIN Models : Resolved(Models[name]) /\ Models[name].retry_on \subseteq Statuses
    /\ Unregistered \cap DOMAIN Models = {}
    /\ Unregistered \subseteq STRING

NoResult == [kind |-> "none"]
TimedOut == [kind |-> "timeout"]

Response == [kind : {"response"}, status : Statuses \cup {501}, provider : Providers, model : STRING,
             usage : Usage \cup {None}, body : {"openai", "raw", "adapted", "passed through"},
             attempts : Nat]

Names == DOMAIN Models \cup Unregistered

Outcome == Response \cup {Err, Panic, TimedOut}

Call == [pc : {"idle", "start", "sent", "reading", "done"}, model : Names, request : Request,
         index : Nat, status : Statuses \cup {0}, result : Outcome \cup {NoResult}]

(* Also: a failover event never names a route beyond the last. *)
CallTypeOK ==
    /\ call \in Call
    /\ outcomes \in Seq(Outcome)
    /\ sent \in Seq(Route)
    /\ audits \in Seq([from : Providers, to : Providers])

CallInit ==
    /\ \E name \in Names, request \in Request :
          call = [pc |-> "idle", model |-> name, request |-> request, index |-> 0, status |-> 0,
                  result |-> NoResult]
    /\ outcomes = <<>>
    /\ sent = <<>>
    /\ audits = <<>>
-----------------------------------------------------------------------------
Registered == call.model \in DOMAIN Models

routes == Models[call.model].routes

fallback_connector(name) == IF name \in ClaudeNames THEN "anthropic" ELSE "openai"

(* The route of the attempt: the registry rewrites the model, but not of a *)
(* request that has none.                                                  *)
route == IF Registered THEN routes[call.index]
         ELSE [provider |-> fallback_connector(call.model), model |-> call.model]

(* Registry::chat and ::embeddings. *)
Chat(name, request) ==
    /\ call.pc = "idle"
    /\ call' = [pc |-> "start", model |-> name, request |-> request, index |-> 1, status |-> 0,
                result |-> NoResult]
    /\ outcomes' = <<>> /\ sent' = <<>> /\ audits' = <<>>

(* Mutant: the route before the last one counts as the last. *)
is_last_off_by_one == ~ Registered \/ call.index >= Len(routes) - 1

(* Mutant: routes are counted from one and the last is never met. *)
is_last_one_too_late == ~ Registered \/ call.index > Len(routes)

is_last == ~ Registered \/ call.index = Len(routes)

(* The next route's name for the audit event. *)
route_name(index) == IF index \in DOMAIN routes THEN routes[index].provider ELSE "none"

Return(result) ==
    /\ call' = [call EXCEPT !.pc = "done", !.result = result]
    /\ UNCHANGED audits

(* Mutant: a failover that leaves no audit event. *)
FailOver_unaudited ==
    /\ call' = [call EXCEPT !.pc = "start", !.index = @ + 1, !.status = 0]
    /\ UNCHANGED audits

FailOver ==
    /\ call' = [call EXCEPT !.pc = "start", !.index = @ + 1, !.status = 0]
    /\ audits' = Append(audits, [from |-> route.provider, to |-> route_name(call.index + 1)])

(* The registry's match on an attempt: a retryable status is passed over,  *)
(* unless it is the last route's, and so is a failure; a panic unwinds the *)
(* whole handler.  The response of a registered model counts the attempts. *)
Attempted(outcome) ==
    /\ outcomes' = Append(outcomes, outcome)
    /\ CASE outcome.kind = "panic" -> Return(outcome)
         [] outcome.kind = "response" ->
               IF ~ is_last /\ outcome.status \in Models[call.model].retry_on THEN FailOver
               ELSE Return(IF Registered THEN [outcome EXCEPT !.attempts = call.index] ELSE outcome)
         [] OTHER -> IF is_last THEN Return(outcome) ELSE FailOver
-----------------------------------------------------------------------------
(***************************************************************************)
(* An attempt.                                                             *)
(***************************************************************************)

(* The connector is called; what it can answer itself, it does. *)
Start ==
    /\ call.pc = "start"
    /\ IF Sends(route.provider, call.request)
       THEN /\ call' = [call EXCEPT !.pc = "sent"]
            /\ sent' = Append(sent, route)
            /\ UNCHANGED <<outcomes, audits>>
       ELSE /\ Attempted(IF Refuses(route.provider, call.request) THEN Err
                         ELSE ChatResponse(501, route.provider, route.model, None, "openai"))
            /\ UNCHANGED sent

(* The head of the provider's response. *)
ReceiveHead(status) ==
    /\ call.pc = "sent"
    /\ IF PassesStream(route.provider, call.request, status)
       THEN Attempted(Streamed(route.provider, route.model, status))
       ELSE /\ call' = [call EXCEPT !.pc = "reading", !.status = status]
            /\ UNCHANGED <<outcomes, audits>>
    /\ UNCHANGED sent

(* The rest of it. *)
ReadBody(body) ==
    /\ call.pc = "reading"
    /\ Attempted(Finished(route.provider, route.model, call.status, body))
    /\ UNCHANGED sent

(* The provider cannot be reached, or breaks off. *)
TransportError ==
    /\ call.pc \in {"sent", "reading"}
    /\ Attempted(Err)
    /\ UNCHANGED sent

(* Mutant: the timeout covers the head of the response only. *)
Timeout_head_only ==
    /\ call.pc = "sent"
    /\ Registered
    /\ Attempted(TimedOut)
    /\ UNCHANGED sent

(* The timer fires first. *)
Timeout ==
    /\ call.pc \in {"sent", "reading"}
    /\ Registered
    /\ Attempted(TimedOut)
    /\ UNCHANGED sent

(* The client goes away, and the handler's future is dropped with it. *)
Abandon ==
    /\ call.pc \in {"sent", "reading"}
    /\ call' = [call EXCEPT !.pc = "idle"]
    /\ UNCHANGED <<outcomes, sent, audits>>

CallNext ==
    \/ Start
    \/ \E status \in Statuses : ReceiveHead(status)
    \/ \E body \in Body : ReadBody(body)
    \/ TransportError
    \/ Timeout
    \/ Abandon
-----------------------------------------------------------------------------
(***************************************************************************)
(* Properties.                                                             *)
(***************************************************************************)

Acceptable(outcome) ==
    /\ outcome.kind = "response"
    /\ Registered => outcome.status \notin Models[call.model].retry_on

(* The routes a call may use: the model's, or the one provider that an     *)
(* unregistered name leads to.                                             *)
Candidates == IF Registered THEN 1..Len(routes) ELSE {1}

Over == call.pc = "idle" \/ call.result = Panic

Phase ==
    IF Over THEN "idle"
    ELSE IF call.pc # "done" THEN "calling"
    ELSE IF Acceptable(call.result) THEN "answered" ELSE "exhausted"

Remaining == IF Over THEN {} ELSE Candidates \ 1..Len(outcomes)

U == INSTANCE Upstream WITH
        Routes <- {1} \cup UNION {1..Len(Models[name].routes) : name \in DOMAIN Models},
        phase <- Phase,
        remaining <- Remaining

(* A call implements Upstream: it uses up its routes one by one, an        *)
(* acceptable answer of any of them ends it, and a call that ends without  *)
(* one has tried every route, unless its handler is dropped or panics.     *)
ImplementsUpstream == U!Spec

(* A call for a registered model returns, even if all its providers hang,  *)
(* before their response or within it: each attempt has a timeout of its   *)
(* own, which covers the body that a connector reads.                      *)
HungProvidersDoNotBlock == Registered /\ call.pc = "start" ~> call.pc \in {"done", "idle"}

(* The audit trail and the attempts count of a finished call agree with    *)
(* what really happened: one failover event per abandoned attempt, from    *)
(* the route that was abandoned to the next, and as many attempts on a     *)
(* response as providers that were tried.                                  *)
TrailMatchesAttempts ==
    call.pc = "done" =>
        /\ Len(audits) = Len(outcomes) - 1
        /\ \A i \in 1..Len(audits) :
              audits[i] = [from |-> routes[i].provider, to |-> routes[i + 1].provider]
        /\ call.result.kind = "response" => call.result.attempts = Len(outcomes)

(***************************************************************************)
(* The inductive invariant of a call: where it is among its routes, what   *)
(* it has left behind on the way there, and what the connectors make of an *)
(* answer.                                                                 *)
(***************************************************************************)
Calling == call.pc \in {"start", "sent", "reading"}

(* A response is raw only as two connectors leave it. *)
Schema(outcome) ==
    outcome.kind = "response" /\ outcome.body = "raw" =>
        \/ outcome.provider \in {"openai", "azure"}
        \/ outcome.provider = "bedrock" /\ outcome.status # 200

RouteInv ==
    /\ call.pc # "idle" => call.index \in Candidates
    /\ call.pc # "done" => call.result = NoResult
    /\ call.pc = "reading" => call.status \in Statuses

TrailInv ==
    /\ Calling => Len(outcomes) = call.index - 1 /\ Len(audits) = call.index - 1
    /\ call.pc = "done" => Len(outcomes) = call.index /\ Len(audits) = call.index - 1
    /\ call.pc # "idle" =>
          \A i \in 1..Len(audits) :
              audits[i] = [from |-> routes[i].provider, to |-> routes[i + 1].provider]
    /\ \A i \in 1..Len(outcomes) : Schema(outcomes[i])

ResultInv ==
    call.pc = "done" =>
        LET last == outcomes[Len(outcomes)]
        IN  /\ call.result = IF last.kind = "response" /\ Registered
                             THEN [last EXCEPT !.attempts = call.index] ELSE last
            /\ last.kind = "response" /\ ~ Registered => last.attempts = 1
            /\ last.kind # "panic" /\ ~ Acceptable(last) => is_last

CallInv == CallTypeOK /\ RouteInv /\ TrailInv /\ ResultInv
=============================================================================

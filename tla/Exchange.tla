------------------------------ MODULE Exchange ------------------------------
(***************************************************************************)
(* One request after the other through the registry, a connector and, for  *)
(* a streamed response, the adapter and the observer: Failover and Streams *)
(* joined by what the proxy handler does with the connector's result       *)
(* (proxy.rs).  What surrounds the call in the handler (budget, plugins,   *)
(* cache) is in Proxy, and how the recorded cost is added up too.          *)
(***************************************************************************)
EXTENDS Failover, Streams

VARIABLE reply      \* what the client was told: nothing yet, a status and the body's
                    \* schema, or a connection that was closed without an answer

vars == <<callVars, streamVars, reply>>

NoReply == [kind |-> "none"]
Closed == [kind |-> "closed"]

Reply == [kind : {"answer"}, status : Statuses \cup {501, 502, 504},
          body : {"openai", "raw", "adapted", "passed through"}]

TypeOK ==
    /\ CallTypeOK
    /\ StreamTypeOK
    /\ reply \in Reply \cup {NoReply, Closed}

Init == CallInit /\ StreamInit /\ reply = NoReply
-----------------------------------------------------------------------------
(* The next request, when the client is done with the last one. *)
Ask(name, request) ==
    /\ Chat(name, request)
    /\ stream.pc # "open"
    /\ stream' = Stream_new(NoScript, "none")
    /\ observer' = Observer_new(None, None)
    /\ client' = <<>>
    /\ charged' = None
    /\ reply' = NoReply

(* The body of a streamed response: from the provider, or the gateway's. *)
BodiesOf(result) ==
    CASE result.body = "adapted" -> {script \in Scripts : script.adapted}
      [] result.body = "passed through" /\ result.status = 200 ->
            {script \in Scripts : ~ script.adapted}
      [] result.body = "passed through" /\ result.status # 200 -> {JsonBody(FALSE)}
      [] OTHER -> {JsonBody(TRUE)}

Answered == call' = [call EXCEPT !.pc = "idle", !.result = NoResult]

(* Mutant: the model's first route is charged, whichever has answered. *)
RespondOk_primary ==
    LET result == call.result
        primary == IF Registered THEN routes[1] ELSE route
    IN  /\ call.pc = "done" /\ result.kind = "response"
        /\ Answered
        /\ reply' = [kind |-> "answer", status |-> result.status, body |-> result.body]
        /\ IF call.request.stream
           THEN \E script \in BodiesOf(result) : Open(script, primary.provider, primary.model)
           ELSE /\ charged' = IF result.usage = None THEN None
                              ELSE compute(primary.provider, primary.model, result.usage)
                /\ UNCHANGED <<stream, observer, client>>
        /\ UNCHANGED <<outcomes, sent, audits>>

(* Ok(upstream): the usage of a response that was read is charged, a       *)
(* stream is observed.                                                     *)
RespondOk ==
    LET result == call.result
    IN  /\ call.pc = "done" /\ result.kind = "response"
        /\ Answered
        /\ reply' = [kind |-> "answer", status |-> result.status, body |-> result.body]
        /\ IF call.request.stream
           THEN \E script \in BodiesOf(result) : Open(script, result.provider, result.model)
           ELSE /\ charged' = IF result.usage = None THEN None
                              ELSE compute(result.provider, result.model, result.usage)
                /\ UNCHANGED <<stream, observer, client>>
        /\ UNCHANGED <<outcomes, sent, audits>>

(* A timeout of the last route is told from other failures. *)
upstream_error_response(result) ==
    [kind |-> "answer", status |-> IF result.kind = "timeout" THEN 504 ELSE 502, body |-> "openai"]

RespondErr ==
    /\ call.pc = "done" /\ call.result.kind \in {"error", "timeout"}
    /\ Answered
    /\ reply' = upstream_error_response(call.result)
    /\ UNCHANGED <<outcomes, sent, audits, streamVars>>

(* The handler panicked: the connection's task ends with it. *)
Unwind ==
    /\ call.pc = "done" /\ call.result = Panic
    /\ Answered
    /\ reply' = Closed
    /\ UNCHANGED <<outcomes, sent, audits, streamVars>>

Next ==
    \/ \E name \in Names, request \in Request : Ask(name, request)
    \/ CallNext /\ UNCHANGED <<streamVars, reply>>
    \/ RespondOk \/ RespondErr \/ Unwind
    \/ StreamNext /\ UNCHANGED <<callVars, reply>>

(* The timer fires if nothing else happens first, a task that is ready is  *)
(* run, and a client reads.  Nothing is assumed of the providers.          *)
Spec ==
    /\ Init /\ [][Next]_vars
    /\ WF_vars(Start /\ UNCHANGED <<streamVars, reply>>)
    /\ WF_vars(Timeout /\ UNCHANGED <<streamVars, reply>>)
    /\ WF_vars(Emit /\ UNCHANGED <<callVars, reply>>)
-----------------------------------------------------------------------------
(***************************************************************************)
(* Properties.                                                             *)
(***************************************************************************)

(* The price at the provider and the model that the request was last sent  *)
(* to, if there is one.                                                    *)
ServersPrice(usage) ==
    LET served == Last(sent)
    IN  IF \E p \in DOMAIN Pricing : p = served.provider /\ served.model \in DOMAIN Pricing[p]
        THEN LET price == Pricing[served.provider][served.model]
             IN  usage.prompt * price.input + usage.completion * price.output
        ELSE None

(* An answer that was read with its usage is charged at once, if there is  *)
(* a price.                                                                *)
ReadIsCharged ==
    reply.kind = "answer" =>
        LET last == Last(outcomes)
        IN  (last.kind = "response" /\ last.usage # None) => charged = ServersPrice(last.usage)

(* What is charged is charged at the price of the provider and the model   *)
(* that the answer came from, the last of those the request was sent to:   *)
(* not the virtual model's, not that of a route that was passed over.      *)
(* Nothing is charged for an answer that was never sent for.               *)
PricedAsServed ==
    /\ charged # None =>
          /\ sent # <<>>
          /\ \E prompt, completion \in Tokens \cup {0} :
                charged = ServersPrice([prompt |-> prompt, completion |-> completion])
    /\ ReadIsCharged

(* Every provider's answer reaches the client in one schema, OpenAI's: it  *)
(* is raw only as an OpenAI-compatible provider sent it, or an error of    *)
(* Bedrock's.  A client is told 502 or 504 only when the last attempt      *)
(* failed, 504 only when it timed out; no answer is turned into one.       *)
ClientIsToldTheTruth ==
    reply.kind = "answer" =>
        LET last == Last(outcomes)
        IN  /\ reply.body = "raw" =>
                  \/ last.provider \in {"openai", "azure"}
                  \/ last.provider = "bedrock" /\ reply.status # 200
            /\ last.kind = "response" => reply.status = last.status
            /\ last.kind = "error" => reply.status = 502
            /\ last.kind = "timeout" => reply.status = 504

(* The inductive invariant behind them: an answer is about the call that   *)
(* is over, and stands until the next one.                                 *)
ReplyInv ==
    /\ reply \in Reply \cup {NoReply, Closed}
    /\ call.pc # "idle" => reply = NoReply
    /\ reply.kind = "answer" => outcomes # <<>>
    /\ ClientIsToldTheTruth

IInv == CallInv /\ ReplyInv

(***************************************************************************)
(* The inductive invariant behind PricedAsServed: usage that was read, and *)
(* a body that will be streamed, came from the route that the request was  *)
(* last sent to.  Usage that was read is of a request that does not        *)
(* stream, so nothing will be charged after it.                            *)
(***************************************************************************)
OfServer(outcome) ==
    outcome.kind = "response" =>
        /\ outcome.usage # None =>
              /\ outcome.usage \in [prompt : Tokens \cup {0}, completion : Tokens \cup {0}]
              /\ ~ call.request.stream
        /\ outcome.usage # None \/ outcome.body \in {"adapted", "passed through"} =>
              /\ sent # <<>>
              /\ outcome.provider = Last(sent).provider /\ outcome.model = Last(sent).model

HasEvents(script) == script.adapted \/ script.events # <<>>

ServedInv ==
    /\ call.pc # "idle" => stream.pc = "none" /\ charged = None
    /\ call.pc \in {"sent", "reading"} => sent # <<>> /\ Last(sent) = route
    /\ call.pc = "reading" /\ call.request.stream => route.provider = "anthropic" /\ call.status # 200
    /\ call.pc = "done" => OfServer(Last(outcomes))
    /\ ReadIsCharged
    /\ reply.kind = "answer" /\ Last(outcomes).kind = "response" /\ Last(outcomes).usage # None =>
          stream.pc = "none"
    /\ stream.pc = "none" => PricedAsServed
    /\ stream.pc # "none" /\ HasEvents(stream.script) =>
          /\ sent # <<>>
          /\ observer.provider = Last(sent).provider /\ observer.model = Last(sent).model

(* anthropic.rs: the raw text of an error that is no Anthropic error is    *)
(* wrapped "so the client always gets a useful payload".                   *)
ClientAlwaysGetsAPayload == reply # Closed
=============================================================================

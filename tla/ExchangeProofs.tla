--------------------------- MODULE ExchangeProofs ---------------------------
(***************************************************************************)
(* Proofs about modules Failover and Exchange, for every registry of       *)
(* models, routes and retryable statuses, every status and token count.    *)
(* What becomes of a stream's bytes is in StreamsProofs.                   *)
(***************************************************************************)
EXTENDS Exchange, StreamsProofs
-----------------------------------------------------------------------------
(***************************************************************************)
(* The connectors.                                                         *)
(***************************************************************************)

(* What an outcome is, and that its kind tells which. *)
LEMMA Kinds ==
    ASSUME NEW o \in Outcome
    PROVE  /\ o.kind \in {"response", "error", "panic", "timeout"}
           /\ o.kind = "response" => o \in Response
           /\ o.kind = "panic" <=> o = Panic
           /\ o # NoResult
<1>1. CASE o \in Response
    <2>1. o.kind = "response"
        BY <1>1 DEF Response
    <2>2. QED
        BY <1>1, <2>1 DEF Panic, NoResult
<1>2. CASE o = Err
    BY <1>2 DEF Err, Panic, NoResult
<1>3. CASE o = Panic
    BY <1>3 DEF Panic, NoResult
<1>4. CASE o = TimedOut
    BY <1>4 DEF TimedOut, Panic, NoResult
<1>5. QED
    BY <1>1, <1>2, <1>3, <1>4 DEF Outcome

(* What is given to the registry is an outcome in a known schema. *)
Given(o) == o \in Outcome /\ Schema(o) /\ (o.kind = "response" => o.attempts = 1)

LEMMA ResponseGiven ==
    ASSUME NEW status \in Statuses \cup {501}, NEW provider \in Providers, NEW model \in STRING,
           NEW usage \in Usage \cup {None},
           NEW body \in {"openai", "raw", "adapted", "passed through"},
           body = "raw" => provider \in {"openai", "azure"} \/ (provider = "bedrock" /\ status # 200)
    PROVE  Given(ChatResponse(status, provider, model, usage, body))
<1> DEFINE o == ChatResponse(status, provider, model, usage, body)
<1>1. /\ o.kind = "response" /\ o.attempts = 1
      /\ o.status = status /\ o.provider = provider /\ o.body = body
    BY DEF ChatResponse
<1>2. o \in Response
    BY ZenonT(60) DEF ChatResponse, Response
<1> HIDE DEF o
<1>3. Given(o)
    BY <1>1, <1>2 DEF Outcome, Given, Schema
<1>4. QED
    BY <1>3 DEF o

LEMMA Failures == Given(Err) /\ Given(TimedOut) /\ Given(Panic)
    BY DEF Given, Outcome, Schema, Err, TimedOut, Panic

(* A connector that does not send. *)
LEMMA UnsentGiven ==
    ASSUME NEW provider \in Providers, NEW model \in STRING
    PROVE  Given(ChatResponse(501, provider, model, None, "openai"))
<1>1. ASSUME NEW status \in Statuses \cup {501}, NEW usage \in Usage \cup {None}
      PROVE  Given(ChatResponse(status, provider, model, usage, "openai"))
    BY ResponseGiven
<1>2. 501 \in Statuses \cup {501} /\ None \in Usage \cup {None}
    OBVIOUS
<1>3. QED
    BY <1>1, <1>2

LEMMA StreamedGiven ==
    ASSUME NEW provider \in Providers, NEW model \in STRING, NEW status \in Statuses
    PROVE  Given(Streamed(provider, model, status))
<1> DEFINE body == IF provider = "anthropic" THEN "adapted" ELSE "passed through"
<1>1. body \in {"adapted", "passed through"} /\ None \in Usage \cup {None}
    OBVIOUS
<1>2. Streamed(provider, model, status) = ChatResponse(status, provider, model, None, body)
    BY DEF Streamed
<1> HIDE DEF body
<1>3. QED
    BY <1>1, <1>2, ResponseGiven

LEMMA FinishedGiven ==
    ASSUME NEW provider \in Providers, NEW model \in STRING, NEW status \in Statuses,
           NEW body \in Body
    PROVE  Given(Finished(provider, model, status, body))
<1>1. parse_openai_usage(body) \in Usage \cup {None} /\ to_openai_usage(body) \in Usage \cup {None}
    BY ConnectorsAssumption DEF Body, parse_openai_usage, to_openai_usage, OrElse, Usage
<1>2. CASE provider \in {"openai", "azure"}
    <2> DEFINE schema == IF body.kind \in {"answer", "error"} THEN "openai" ELSE "raw"
    <2>1. Finished(provider, model, status, body)
            = ChatResponse(status, provider, model, parse_openai_usage(body), schema)
        BY <1>2 DEF Finished
    <2>2. schema \in {"openai", "raw"}
        OBVIOUS
    <2> HIDE DEF schema
    <2>3. QED
        BY <1>1, <1>2, <2>1, <2>2, ResponseGiven
<1>3. CASE provider = "anthropic" /\ status # 200
    <2>1. Finished(provider, model, status, body) = to_openai_error(status, provider, model, body)
        BY <1>3 DEF Finished
    <2>2. Given(ChatResponse(status, provider, model, None, "openai"))
        BY ResponseGiven
    <2>3. QED
        BY <2>1, <2>2, Failures DEF to_openai_error
<1>4. CASE provider = "bedrock" /\ status # 200
    <2>1. Finished(provider, model, status, body) = ChatResponse(status, provider, model, None, "raw")
        BY <1>4 DEF Finished
    <2>2. QED
        BY <1>4, <2>1, ResponseGiven
<1>5. CASE provider \in {"anthropic", "bedrock"} /\ status = 200
    <2>1. Finished(provider, model, status, body) = to_openai_response(provider, model, body)
        BY <1>5 DEF Finished
    <2>2. ASSUME NEW usage \in Usage \cup {None}
          PROVE  Given(ChatResponse(status, provider, model, usage, "openai"))
        BY ResponseGiven
    <2>3. Given(ChatResponse(200, provider, model, to_openai_usage(body), "openai"))
        BY <1>1, <1>5, <2>2
    <2>4. QED
        BY <2>1, <2>3, Failures DEF to_openai_response
<1>6. QED
    BY <1>2, <1>3, <1>4, <1>5 DEF Providers
-----------------------------------------------------------------------------
(***************************************************************************)
(* The routes of a call and the registry's match on an attempt.            *)
(***************************************************************************)
LEMMA RoutesOf ==
    ASSUME NEW name \in DOMAIN Models
    PROVE  LET list == Models[name].routes
           IN  list \in Seq(Route) /\ Len(list) \in Nat /\ Len(list) >= 1
<1> DEFINE list == Models[name].routes
<1>1. list \in Seq(Route) /\ list # <<>>
    BY FailoverAssumption DEF Resolved
<1> HIDE DEF list
<1>2. list \in Seq(Route) /\ Len(list) \in Nat /\ Len(list) >= 1
    BY <1>1
<1>3. QED
    BY <1>2 DEF list

LEMMA RouteFacts ==
    ASSUME CallTypeOK
    PROVE  /\ call.model \in Names /\ call.index \in Nat
           /\ Registered => routes \in Seq(Route) /\ Len(routes) \in Nat /\ Len(routes) >= 1
           /\ 1 \in Candidates /\ Candidates \subseteq Nat
           /\ call.index \in Candidates =>
                 /\ route \in Route /\ route.provider \in Providers /\ route.model \in STRING
                 /\ is_last \/ (Registered /\ call.index + 1 \in Candidates)
                 /\ is_last => \A i \in Candidates : i <= call.index
<1>1. call.model \in Names /\ call.index \in Nat
    BY DEF CallTypeOK, Call
<1>2. Registered => routes \in Seq(Route) /\ Len(routes) \in Nat /\ Len(routes) >= 1
    BY RoutesOf DEF Registered, routes
<1>3. 1 \in Candidates /\ Candidates \subseteq Nat
    BY <1>2 DEF Candidates
<1>4. ASSUME call.index \in Candidates
      PROVE  route \in Route /\ route.provider \in Providers /\ route.model \in STRING
    <2>1. CASE Registered
        <3>1. call.index \in 1..Len(routes) /\ route = routes[call.index]
            BY <1>4, <2>1 DEF Candidates, route
        <3>2. route \in Route
            BY <1>2, <2>1, <3>1
        <3>3. QED
            BY <3>2 DEF Route
    <2>2. CASE ~ Registered
        <3>1. call.model \in STRING
            BY <1>1, <2>2, FailoverAssumption DEF Names, Registered
        <3>2. fallback_connector(call.model) \in Providers
            BY DEF fallback_connector, Providers
        <3>3. route = [provider |-> fallback_connector(call.model), model |-> call.model]
            BY <2>2 DEF route
        <3>4. QED
            BY <3>1, <3>2, <3>3 DEF Route
    <2>3. QED
        BY <2>1, <2>2
<1>5. ASSUME call.index \in Candidates
      PROVE  /\ is_last \/ (Registered /\ call.index + 1 \in Candidates)
             /\ is_last => \A i \in Candidates : i <= call.index
    BY <1>1, <1>2, <1>5 DEF Candidates, is_last
<1>6. QED
    BY <1>1, <1>2, <1>3, <1>4, <1>5

(* What the registry returns of an outcome. *)
Returned(o) ==
    IF o.kind = "response" /\ Registered THEN [o EXCEPT !.attempts = call.index] ELSE o

LEMMA Counted ==
    ASSUME NEW o \in Response, NEW n \in Nat, NEW p, p = [o EXCEPT !.attempts = n]
    PROVE  /\ p \in Response /\ p.kind = o.kind /\ p.status = o.status /\ p.body = o.body
           /\ p.provider = o.provider /\ p.model = o.model /\ p.usage = o.usage
           /\ p.attempts = n
<1> DEFINE Numbers == Statuses \cup {501}
           Usages == Usage \cup {None}
           Kept == {"openai", "raw", "adapted", "passed through"}
<1>1. Response = [kind : {"response"}, status : Numbers, provider : Providers, model : STRING,
                  usage : Usages, body : Kept, attempts : Nat]
    BY DEF Response
<1> HIDE DEF Numbers, Usages, Kept
<1>2. p \in Response
    BY <1>1
<1>3. /\ p.kind = o.kind /\ p.status = o.status /\ p.body = o.body
      /\ p.provider = o.provider /\ p.model = o.model /\ p.usage = o.usage /\ p.attempts = n
    BY <1>1
<1>4. QED
    BY <1>2, <1>3

LEMMA ReturnedType ==
    ASSUME CallTypeOK, NEW o, Given(o)
    PROVE  /\ Returned(o) \in Outcome /\ Returned(o).kind = o.kind
           /\ o.kind = "response" => Returned(o).status = o.status /\ Returned(o).body = o.body
           /\ o.kind = "response" /\ Registered => Returned(o).attempts = call.index
           /\ Acceptable(Returned(o)) <=> Acceptable(o)
           /\ Returned(o) = Panic <=> o.kind = "panic"
<1>1. CASE o.kind = "response" /\ Registered
    <2>1. o \in Response /\ call.index \in Nat
        BY <1>1, Kinds DEF Given, CallTypeOK, Call
    <2>2. Returned(o) = [o EXCEPT !.attempts = call.index]
        BY <1>1 DEF Returned
    <2>3. /\ Returned(o) \in Response /\ Returned(o).kind = o.kind /\ Returned(o).status = o.status
          /\ Returned(o).body = o.body /\ Returned(o).attempts = call.index
        BY <2>1, <2>2, Counted
    <2>4. Returned(o) \in Outcome
        BY <2>3 DEF Outcome
    <2>5. Acceptable(Returned(o)) <=> Acceptable(o)
        BY <2>3 DEF Acceptable
    <2>6. Returned(o) # Panic
        BY <1>1, <2>3 DEF Panic
    <2>7. QED
        BY <1>1, <2>3, <2>4, <2>5, <2>6
<1>2. CASE ~ (o.kind = "response" /\ Registered)
    <2>1. Returned(o) = o
        BY <1>2 DEF Returned
    <2>2. QED
        BY <1>2, <2>1, Kinds DEF Given
<1>3. QED
    BY <1>1, <1>2

LEMMA AttemptedCases ==
    ASSUME NEW o, Given(o), Attempted(o)
    PROVE  /\ outcomes' = Append(outcomes, o)
           /\ \/ FailOver /\ ~ is_last /\ ~ Acceptable(o) /\ o.kind # "panic"
              \/ Return(Returned(o)) /\ (o.kind = "panic" \/ Acceptable(o) \/ is_last)
<1>1. outcomes' = Append(outcomes, o)
    BY DEF Attempted
<1>2. CASE o.kind = "panic"
    <2>1. Return(o)
        BY <1>2 DEF Attempted
    <2>2. Returned(o) = o
        BY <1>2 DEF Returned
    <2>3. QED
        BY <1>1, <1>2, <2>1, <2>2
<1>3. CASE o.kind = "response"
    <2>1. IF ~ is_last /\ o.status \in Models[call.model].retry_on THEN FailOver
          ELSE Return(IF Registered THEN [o EXCEPT !.attempts = call.index] ELSE o)
        BY <1>3 DEF Attempted
    <2>2. CASE ~ is_last /\ o.status \in Models[call.model].retry_on
        <3>1. ~ Acceptable(o) /\ FailOver
            BY <2>1, <2>2 DEF Acceptable, is_last
        <3>2. QED
            BY <1>1, <1>3, <2>2, <3>1
    <2>3. CASE ~ (~ is_last /\ o.status \in Models[call.model].retry_on)
        <3>1. Return(Returned(o))
            BY <1>3, <2>1, <2>3 DEF Returned
        <3>2. Acceptable(o) \/ is_last
            BY <1>3, <2>3 DEF Acceptable
        <3>3. QED
            BY <1>1, <3>1, <3>2
    <2>4. QED
        BY <2>2, <2>3
<1>4. CASE o.kind \in {"error", "timeout"}
    <2>1. IF is_last THEN Return(o) ELSE FailOver
        BY <1>4 DEF Attempted
    <2>2. Returned(o) = o /\ ~ Acceptable(o) /\ o.kind # "panic"
        BY <1>4 DEF Returned, Acceptable
    <2>3. QED
        BY <1>1, <2>1, <2>2
<1>5. QED
    BY <1>2, <1>3, <1>4, Kinds DEF Given
-----------------------------------------------------------------------------
(***************************************************************************)
(* CallInv holds initially, and the steps of a call keep it.               *)
(***************************************************************************)

(* What depends on the model of the call only. *)
LEMMA SameModel ==
    ASSUME call'.model = call.model
    PROVE  /\ Registered' <=> Registered
           /\ routes' = routes
           /\ Candidates' = Candidates
    BY DEF Registered, routes, Candidates

LEMMA SameAcceptable ==
    ASSUME call'.model = call.model, NEW o
    PROVE  Acceptable(o)' <=> Acceptable(o)
    BY SameModel DEF Acceptable, Registered

LEMMA CallInitOK == CallInit => CallInv
<1> SUFFICES ASSUME CallInit PROVE CallInv
    OBVIOUS
<1>1. PICK name \in Names, request \in Request :
          call = [pc |-> "idle", model |-> name, request |-> request, index |-> 0, status |-> 0,
                  result |-> NoResult]
    BY DEF CallInit
<1>2. call \in Call /\ call.pc = "idle" /\ call.result = NoResult
    BY <1>1 DEF Call
<1>3. outcomes = <<>> /\ sent = <<>> /\ audits = <<>>
    BY DEF CallInit
<1>4. CallTypeOK
    BY <1>2, <1>3 DEF CallTypeOK
<1>5. RouteInv /\ TrailInv /\ ResultInv
    BY <1>2, <1>3 DEF RouteInv, TrailInv, ResultInv, Calling
<1>6. QED
    BY <1>4, <1>5 DEF CallInv

LEMMA ChatOK ==
    ASSUME NEW name \in Names, NEW request \in Request, Chat(name, request)
    PROVE  CallInv'
<1>1. /\ call' = [pc |-> "start", model |-> name, request |-> request, index |-> 1, status |-> 0,
                  result |-> NoResult]
      /\ outcomes' = <<>> /\ sent' = <<>> /\ audits' = <<>>
    BY DEF Chat
<1>2. call' \in Call /\ call'.pc = "start" /\ call'.index = 1 /\ call'.result = NoResult
    BY <1>1 DEF Call
<1>3. CallTypeOK'
    BY <1>1, <1>2 DEF CallTypeOK, Call
<1>4. 1 \in Candidates'
    BY RoutesOf DEF Candidates, Registered, routes
<1>5. RouteInv' /\ TrailInv' /\ ResultInv'
    BY <1>1, <1>2, <1>4 DEF RouteInv, TrailInv, ResultInv, Calling
<1>6. QED
    BY <1>3, <1>5 DEF CallInv

(* The call goes on to wait for the provider. *)
LEMMA WaitOK ==
    ASSUME CallInv, Calling, NEW pc \in {"sent", "reading"}, NEW status \in Statuses \cup {0},
           call' = [call EXCEPT !.pc = pc, !.status = status],
           pc = "reading" => status \in Statuses,
           UNCHANGED <<outcomes, audits>>, sent' \in Seq(Route)
    PROVE  CallInv'
<1>1. call \in Call
    BY DEF CallInv, CallTypeOK
<1>2. /\ call' \in Call /\ call'.pc = pc /\ call'.status = status /\ call'.index = call.index
      /\ call'.model = call.model /\ call'.result = call.result
    BY <1>1 DEF Call
<1>3. CallTypeOK'
    BY <1>2 DEF CallInv, CallTypeOK, Call
<1>4. RouteInv'
    BY <1>2, SameModel DEF CallInv, RouteInv, Calling
<1>5. TrailInv'
    BY <1>2, SameModel DEF CallInv, TrailInv, Calling, Schema
<1>6. ResultInv'
    BY <1>2 DEF ResultInv
<1>7. QED
    BY <1>3, <1>4, <1>5, <1>6 DEF CallInv

(* The call is over: its handler is gone, or has answered. *)
LEMMA IdleOK ==
    ASSUME CallInv, call' = [call EXCEPT !.pc = "idle"] \/ call' = [call EXCEPT !.pc = "idle", !.result = NoResult],
           call.pc # "done" \/ call' = [call EXCEPT !.pc = "idle", !.result = NoResult],
           UNCHANGED <<outcomes, sent, audits>>
    PROVE  CallInv' /\ call'.pc = "idle"
<1>1. call \in Call /\ (call.pc # "done" => call.result = NoResult)
    BY DEF CallInv, CallTypeOK, RouteInv
<1>2. call' \in Call /\ call'.pc = "idle" /\ call'.result = NoResult
    BY <1>1 DEF Call
<1>3. CallTypeOK'
    BY <1>2 DEF CallInv, CallTypeOK, Call
<1>4. RouteInv' /\ ResultInv'
    BY <1>2 DEF RouteInv, ResultInv
<1>5. TrailInv'
    BY <1>2 DEF CallInv, TrailInv, Calling, Schema
<1>6. QED
    BY <1>2, <1>3, <1>4, <1>5 DEF CallInv

(* An attempt is over: the outcomes have one more. *)
LEMMA Outcomes ==
    ASSUME CallTypeOK, NEW o, Given(o), outcomes' = Append(outcomes, o),
           \A i \in 1..Len(outcomes) : Schema(outcomes[i])
    PROVE  /\ outcomes' \in Seq(Outcome) /\ Len(outcomes) \in Nat
           /\ Len(outcomes') = Len(outcomes) + 1 /\ outcomes'[Len(outcomes')] = o
           /\ \A i \in 1..Len(outcomes') : Schema(outcomes'[i])
<1>1. outcomes \in Seq(Outcome) /\ o \in Outcome /\ Schema(o)
    BY DEF CallTypeOK, Given
<1>2. /\ outcomes' \in Seq(Outcome) /\ Len(outcomes) \in Nat
      /\ Len(outcomes') = Len(outcomes) + 1 /\ outcomes'[Len(outcomes) + 1] = o
      /\ \A i \in 1..Len(outcomes) : outcomes'[i] = outcomes[i]
    BY <1>1
<1>3. \A i \in 1..Len(outcomes') : i \in 1..Len(outcomes) \/ i = Len(outcomes) + 1
    BY <1>2
<1>4. QED
    BY <1>1, <1>2, <1>3

LEMMA FailOverOK ==
    ASSUME CallInv, Calling, NEW o, Given(o), outcomes' = Append(outcomes, o),
           FailOver, ~ is_last, sent' \in Seq(Route)
    PROVE  CallInv'
<1>1. /\ call \in Call /\ call.index \in Candidates /\ call.result = NoResult
      /\ call.index \in Nat /\ audits \in Seq([from : Providers, to : Providers])
    BY DEF CallInv, CallTypeOK, RouteInv, Calling, Call
<1>2. Registered /\ call.index + 1 \in Candidates /\ routes \in Seq(Route) /\ Len(routes) \in Nat
    BY <1>1, RouteFacts DEF CallInv
<1>3. /\ call' = [call EXCEPT !.pc = "start", !.index = call.index + 1, !.status = 0]
      /\ audits' = Append(audits, [from |-> routes[call.index].provider,
                                   to |-> routes[call.index + 1].provider])
    <2>1. call.index + 1 \in DOMAIN routes
        BY <1>2 DEF Candidates
    <2>2. QED
        BY <1>2, <2>1 DEF FailOver, route_name, route
<1>4. /\ call' \in Call /\ call'.pc = "start" /\ call'.index = call.index + 1
      /\ call'.model = call.model /\ call'.result = NoResult
    <2>1. ASSUME NEW n \in Nat, NEW c, c = [call EXCEPT !.pc = "start", !.index = n, !.status = 0]
          PROVE  /\ c \in Call /\ c.pc = "start" /\ c.index = n
                 /\ c.model = call.model /\ c.result = call.result
        BY <1>1, <2>1 DEF Call
    <2>2. call.index + 1 \in Nat
        BY <1>1
    <2>3. QED
        BY <1>3, <1>1, <2>1, <2>2
<1>5. routes[call.index].provider \in Providers /\ routes[call.index + 1].provider \in Providers
    <2>1. call.index \in 1..Len(routes) /\ call.index + 1 \in 1..Len(routes)
        BY <1>1, <1>2 DEF Candidates
    <2>2. routes[call.index] \in Route /\ routes[call.index + 1] \in Route
        BY <1>2, <2>1
    <2>3. QED
        BY <2>2 DEF Route
<1> DEFINE event == [from |-> routes[call.index].provider, to |-> routes[call.index + 1].provider]
<1>6. event \in [from : Providers, to : Providers]
    BY <1>5
<1>7. audits' = Append(audits, event)
    BY <1>3
<1> HIDE DEF event
<1>8. /\ audits' \in Seq([from : Providers, to : Providers]) /\ Len(audits) \in Nat
      /\ Len(audits') = Len(audits) + 1 /\ audits'[Len(audits) + 1] = event
      /\ \A i \in 1..Len(audits) : audits'[i] = audits[i]
    BY <1>1, <1>6, <1>7
<1>9. /\ outcomes' \in Seq(Outcome) /\ Len(outcomes) \in Nat
      /\ Len(outcomes') = Len(outcomes) + 1 /\ \A i \in 1..Len(outcomes') : Schema(outcomes'[i])
    BY Outcomes DEF CallInv, TrailInv
<1>10. CallTypeOK'
    BY <1>4, <1>8, <1>9 DEF CallTypeOK, Call
<1>11. RouteInv'
    BY <1>2, <1>4, SameModel DEF RouteInv
<1>12. ResultInv'
    BY <1>4 DEF ResultInv
<1>13. TrailInv'
    <2>1. Len(outcomes) = call.index - 1 /\ Len(audits) = call.index - 1
        BY DEF CallInv, TrailInv
    <2>2. Len(outcomes') = call'.index - 1 /\ Len(audits') = call'.index - 1
        BY <1>1, <1>4, <1>8, <1>9, <2>1
    <2>3. ASSUME NEW i \in 1..Len(audits')
          PROVE  audits'[i] = [from |-> routes[i].provider, to |-> routes[i + 1].provider]
        <3>1. CASE i \in 1..Len(audits)
            BY <1>8, <3>1 DEF CallInv, TrailInv, Calling
        <3>2. CASE i = Len(audits) + 1
            <4>1. i = call.index
                BY <1>1, <2>1, <3>2
            <4>2. QED
                BY <1>8, <3>2, <4>1 DEF event
        <3>3. QED
            BY <1>8, <3>1, <3>2
    <2>4. routes' = routes
        BY <1>4, SameModel
    <2>5. QED
        BY <1>4, <1>9, <2>2, <2>3, <2>4 DEF TrailInv, Calling, Schema
<1>14. QED
    BY <1>10, <1>11, <1>12, <1>13 DEF CallInv

LEMMA ReturnOK ==
    ASSUME CallInv, Calling, NEW o, Given(o), outcomes' = Append(outcomes, o),
           Return(Returned(o)), o.kind = "panic" \/ Acceptable(o) \/ is_last, sent' \in Seq(Route)
    PROVE  CallInv'
<1> DEFINE result == Returned(o)
<1>1. call' = [call EXCEPT !.pc = "done", !.result = result] /\ UNCHANGED audits
    BY DEF Return
<1>2. call \in Call /\ call.index \in Candidates /\ call.index \in Nat
    BY DEF CallInv, CallTypeOK, RouteInv, Calling, Call
<1>3. result \in Outcome
    BY ReturnedType DEF CallInv
<1>4. result = IF o.kind = "response" /\ Registered THEN [o EXCEPT !.attempts = call.index] ELSE o
    BY DEF Returned
<1> HIDE DEF result
<1>5. /\ call' \in Call /\ call'.pc = "done" /\ call'.index = call.index
      /\ call'.model = call.model /\ call'.result = result
    BY <1>1, <1>2, <1>3 DEF Call
<1>6. /\ outcomes' \in Seq(Outcome) /\ Len(outcomes) \in Nat
      /\ Len(outcomes') = Len(outcomes) + 1 /\ outcomes'[Len(outcomes')] = o
      /\ \A i \in 1..Len(outcomes') : Schema(outcomes'[i])
    BY Outcomes DEF CallInv, TrailInv
<1>7. CallTypeOK'
    BY <1>1, <1>5, <1>6 DEF CallInv, CallTypeOK, Call
<1>8. RouteInv'
    BY <1>2, <1>5, SameModel DEF RouteInv
<1>9. TrailInv'
    <2>1. Len(outcomes) = call.index - 1 /\ Len(audits) = call.index - 1
        BY DEF CallInv, TrailInv
    <2>2. Len(outcomes') = call'.index /\ Len(audits') = call'.index - 1
        BY <1>1, <1>2, <1>5, <1>6, <2>1
    <2>3. \A i \in 1..Len(audits') :
              audits'[i] = [from |-> routes'[i].provider, to |-> routes'[i + 1].provider]
        BY <1>1, <1>5, SameModel DEF CallInv, TrailInv, Calling
    <2>4. QED
        BY <1>5, <1>6, <2>2, <2>3 DEF TrailInv, Calling, Schema
<1>10. ResultInv'
    <2>1. is_last' <=> is_last
        BY <1>5, SameModel DEF is_last
    <2>2. Acceptable(o)' <=> Acceptable(o)
        BY <1>5, SameAcceptable
    <2>3. o.kind = "response" => o.attempts = 1
        BY DEF Given
    <2>4. Registered' <=> Registered
        BY <1>5, SameModel
    <2>5. call'.result = IF o.kind = "response" /\ Registered'
                         THEN [o EXCEPT !.attempts = call'.index] ELSE o
        BY <1>4, <1>5, <2>4
    <2>6. o.kind # "panic" /\ ~ Acceptable(o)' => is_last'
        BY <2>1, <2>2
    <2>7. QED
        BY <1>6, <2>3, <2>5, <2>6 DEF ResultInv, Acceptable
<1>11. QED
    BY <1>7, <1>8, <1>9, <1>10 DEF CallInv

LEMMA AttemptedOK ==
    ASSUME CallInv, Calling, NEW o, Given(o), Attempted(o), sent' \in Seq(Route)
    PROVE  CallInv'
    BY AttemptedCases, FailOverOK, ReturnOK

(* A step of a call: it waits, has an outcome, or is abandoned. *)
Waits ==
    /\ Calling
    /\ \E pc \in {"sent", "reading"}, status \in Statuses \cup {0} :
          /\ call' = [call EXCEPT !.pc = pc, !.status = status]
          /\ pc = "reading" => status \in Statuses
    /\ UNCHANGED <<outcomes, audits>>
    /\ sent' \in Seq(Route)

Ends == Calling /\ sent' \in Seq(Route) /\ \E o \in Outcome : Given(o) /\ Attempted(o)

LEMMA CallCases ==
    ASSUME CallInv, CallNext
    PROVE  Waits \/ Ends \/ Abandon
<1>1. /\ call \in Call /\ sent \in Seq(Route)
      /\ call.pc # "idle" => route \in Route /\ route.provider \in Providers /\ route.model \in STRING
    BY RouteFacts DEF CallInv, CallTypeOK, RouteInv
<1>2. ASSUME NEW o, Given(o), Attempted(o), Calling, UNCHANGED sent
      PROVE  Ends
    BY <1>1, <1>2 DEF Ends, Given
<1>3. CASE Start
    <2>1. CASE Sends(route.provider, call.request)
        <3>1. /\ call.pc = "start" /\ call' = [call EXCEPT !.pc = "sent"]
              /\ sent' = Append(sent, route) /\ UNCHANGED <<outcomes, audits>>
            BY <1>3, <2>1 DEF Start
        <3>2. sent' \in Seq(Route)
            BY <1>1, <3>1
        <3>3. call' = [call EXCEPT !.pc = "sent", !.status = call.status]
            BY <1>1, <3>1 DEF Call
        <3>4. call.status \in Statuses \cup {0}
            BY <1>1 DEF Call
        <3>5. QED
            BY <3>1, <3>2, <3>3, <3>4 DEF Waits, Calling
    <2>2. CASE ~ Sends(route.provider, call.request)
        <3> DEFINE o == IF Refuses(route.provider, call.request) THEN Err
                        ELSE ChatResponse(501, route.provider, route.model, None, "openai")
        <3>1. call.pc = "start" /\ Attempted(o) /\ UNCHANGED sent
            BY <1>3, <2>2 DEF Start
        <3>2. Given(o)
            BY <1>1, <3>1, Failures, UnsentGiven, ZenonT(60)
        <3> HIDE DEF o
        <3>3. QED
            BY <1>2, <3>1, <3>2 DEF Calling
    <2>3. QED
        BY <2>1, <2>2
<1>4. ASSUME NEW status \in Statuses, ReceiveHead(status)
      PROVE  Waits \/ Ends
    <2>1. call.pc = "sent" /\ UNCHANGED sent
        BY <1>4 DEF ReceiveHead
    <2>2. CASE PassesStream(route.provider, call.request, status)
        <3>1. Attempted(Streamed(route.provider, route.model, status))
            BY <1>4, <2>2 DEF ReceiveHead
        <3>2. Given(Streamed(route.provider, route.model, status))
            BY <1>1, <2>1, StreamedGiven
        <3>3. QED
            BY <1>2, <2>1, <3>1, <3>2 DEF Calling
    <2>3. CASE ~ PassesStream(route.provider, call.request, status)
        BY <1>1, <1>4, <2>1, <2>3 DEF ReceiveHead, Waits, Calling
    <2>4. QED
        BY <2>2, <2>3
<1>5. ASSUME NEW body \in Body, ReadBody(body)
      PROVE  Ends
    <2>1. /\ call.pc = "reading" /\ UNCHANGED sent
          /\ Attempted(Finished(route.provider, route.model, call.status, body))
        BY <1>5 DEF ReadBody
    <2>2. call.status \in Statuses
        BY <2>1 DEF CallInv, RouteInv
    <2>3. Given(Finished(route.provider, route.model, call.status, body))
        BY <1>1, <2>1, <2>2, FinishedGiven
    <2>4. QED
        BY <1>2, <2>1, <2>3 DEF Calling
<1>6. CASE TransportError
    BY <1>2, <1>6, Failures DEF TransportError, Calling
<1>7. CASE Timeout
    BY <1>2, <1>7, Failures DEF Timeout, Calling
<1>8. QED
    BY <1>3, <1>4, <1>5, <1>6, <1>7 DEF CallNext

LEMMA CallNextOK ==
    ASSUME CallInv, CallNext
    PROVE  CallInv'
<1>1. CASE Waits
    BY <1>1, WaitOK DEF Waits
<1>2. CASE Ends
    BY <1>2, AttemptedOK DEF Ends
<1>3. CASE Abandon
    BY <1>3, IdleOK DEF Abandon
<1>4. QED
    BY <1>1, <1>2, <1>3, CallCases
-----------------------------------------------------------------------------
(***************************************************************************)
(* A call implements Upstream.                                             *)
(***************************************************************************)

(* The refinement mapping, in the three states of a call. *)
Mapped ==
    /\ call.pc = "idle" => Phase = "idle" /\ Remaining = {}
    /\ Calling => Phase = "calling" /\ Remaining = Candidates \ 1..(call.index - 1)
    /\ call.pc = "done" =>
          IF call.result = Panic THEN Phase = "idle" /\ Remaining = {}
          ELSE /\ Phase = IF Acceptable(call.result) THEN "answered" ELSE "exhausted"
               /\ Remaining = Candidates \ 1..call.index

LEMMA MappedOK == CallInv => Mapped
<1> SUFFICES ASSUME CallInv PROVE Mapped
    OBVIOUS
<1>1. call.pc = "idle" => Phase = "idle" /\ Remaining = {}
    BY DEF Phase, Remaining, Over
<1>2. ASSUME Calling
      PROVE  Phase = "calling" /\ Remaining = Candidates \ 1..(call.index - 1)
    <2>1. call.pc # "done" /\ call.pc # "idle" /\ call.result # Panic
        BY <1>2 DEF CallInv, RouteInv, Calling, NoResult, Panic
    <2>2. Len(outcomes) = call.index - 1
        BY <1>2 DEF CallInv, TrailInv
    <2>3. QED
        BY <2>1, <2>2 DEF Phase, Remaining, Over
<1>3. ASSUME call.pc = "done"
      PROVE  IF call.result = Panic THEN Phase = "idle" /\ Remaining = {}
             ELSE /\ Phase = IF Acceptable(call.result) THEN "answered" ELSE "exhausted"
                  /\ Remaining = Candidates \ 1..call.index
    <2>1. Len(outcomes) = call.index
        BY <1>3 DEF CallInv, TrailInv
    <2>2. CASE call.result = Panic
        <3>1. Over
            BY <2>2 DEF Over
        <3>2. Phase = "idle" /\ Remaining = {}
            BY <3>1 DEF Phase, Remaining
        <3>3. QED
            BY <2>2, <3>2
    <2>3. CASE call.result # Panic
        <3>1. ~ Over
            BY <1>3, <2>3 DEF Over
        <3>2. Phase = IF Acceptable(call.result) THEN "answered" ELSE "exhausted"
            BY <1>3, <3>1 DEF Phase
        <3>3. Remaining = Candidates \ 1..call.index
            BY <2>1, <3>1 DEF Remaining
        <3>4. QED
            BY <2>3, <3>2, <3>3
    <2>4. QED
        BY <2>2, <2>3
<1>4. QED
    BY <1>1, <1>2, <1>3 DEF Mapped

LEMMA MappedNext == CallInv' => Mapped'
    BY MappedOK, PTL

(* A step of Upstream, or none. *)
UStep == U!Next \/ UNCHANGED <<Phase, Remaining>>

LEMMA ChatIsStart ==
    ASSUME CallInv, NEW name \in Names, NEW request \in Request, Chat(name, request)
    PROVE  UStep
<1> DEFINE Positions == {1} \cup UNION {1..Len(Models[n].routes) : n \in DOMAIN Models}
<1>1. call.pc = "idle" /\ call'.pc = "start" /\ call'.index = 1 /\ CallInv'
    BY ChatOK DEF Chat
<1>2. Phase = "idle"
    BY <1>1, MappedOK DEF Mapped
<1>3. Phase' = "calling" /\ Remaining' = Candidates' \ 1..(1 - 1)
    BY <1>1, MappedNext DEF Mapped, Calling
<1>4. 1 \in Candidates'
    BY RoutesOf DEF Candidates, Registered, routes
<1>5. Candidates' \subseteq Positions
    BY DEF Candidates, Registered, routes
<1>6. Remaining' = Candidates'
    <2>1. 1..(1 - 1) = {}
        OBVIOUS
    <2>2. QED
        BY <1>3, <2>1
<1> HIDE DEF Positions
<1>7. Remaining' \in (SUBSET Positions) \ {{}}
    BY <1>4, <1>5, <1>6
<1>8. U!Start(Remaining')
    BY <1>2, <1>3 DEF U!Start
<1>9. QED
    BY <1>7, <1>8 DEF UStep, U!Next, Positions

LEMMA WaitIsSilent ==
    ASSUME CallInv, CallInv', Waits
    PROVE  UStep
<1>1. Calling /\ Calling' /\ call'.index = call.index /\ call'.model = call.model
    BY DEF Waits, Calling, CallInv, CallTypeOK, Call
<1>2. Candidates' = Candidates
    BY <1>1, SameModel
<1>3. Phase' = Phase /\ Remaining' = Remaining
    BY <1>1, <1>2, MappedOK, MappedNext DEF Mapped
<1>4. QED
    BY <1>3 DEF UStep

(* The route of the attempt is one that remains. *)
LEMMA AttemptRemains ==
    ASSUME CallInv, Calling
    PROVE  /\ Phase = "calling" /\ call.index \in Remaining
           /\ Candidates \ 1..call.index = Remaining \ {call.index}
           /\ is_last => Remaining \ {call.index} = {}
           /\ ~ is_last => Registered /\ call.index + 1 \in Remaining \ {call.index}
<1>1. call.index \in Candidates /\ call.index \in Nat /\ Candidates \subseteq Nat
    BY RouteFacts DEF CallInv, RouteInv, Calling
<1>2. Phase = "calling" /\ Remaining = Candidates \ 1..(call.index - 1)
    BY MappedOK DEF Mapped
<1>3. /\ is_last \/ (Registered /\ call.index + 1 \in Candidates)
      /\ is_last => \A i \in Candidates : i <= call.index
    BY <1>1, RouteFacts DEF CallInv
<1>4. \A i \in Candidates : i \in Nat /\ i >= 1
    BY RouteFacts DEF CallInv, Candidates
<1>5. \A i \in Candidates : /\ i \in 1..call.index <=> i <= call.index
                            /\ i \in 1..(call.index - 1) <=> i < call.index
    BY <1>1, <1>4
<1>6. call.index \in Remaining /\ Candidates \ 1..call.index = Remaining \ {call.index}
    BY <1>1, <1>2, <1>4, <1>5
<1>7. is_last => Remaining \ {call.index} = {}
    BY <1>1, <1>2, <1>3, <1>4, <1>5, <1>6
<1>8. ~ is_last => Registered /\ call.index + 1 \in Remaining \ {call.index}
    <2>1. call.index + 1 \in Candidates => call.index + 1 \notin 1..call.index
        BY <1>1
    <2>2. QED
        BY <1>3, <1>6, <2>1
<1>9. QED
    BY <1>2, <1>6, <1>7, <1>8

LEMMA FailOverIsRefuse ==
    ASSUME CallInv, CallInv', Calling, FailOver, ~ is_last
    PROVE  UStep
<1>1. call'.pc = "start" /\ call'.index = call.index + 1 /\ call'.model = call.model
    BY DEF FailOver, CallInv, CallTypeOK, Call
<1>2. Phase' = "calling" /\ Remaining' = Candidates' \ 1..(call'.index - 1)
    <2>1. Calling'
        BY <1>1 DEF Calling
    <2>2. QED
        BY <2>1, MappedNext DEF Mapped
<1>3. call.index \in Nat /\ Candidates' = Candidates
    BY <1>1, SameModel, RouteFacts DEF CallInv
<1>4. call'.index - 1 = call.index
    BY <1>1, <1>3
<1>5. Remaining' = Remaining \ {call.index}
    BY <1>2, <1>3, <1>4, AttemptRemains
<1>6. Remaining' # {}
    BY <1>5, AttemptRemains
<1>7. U!Refuse(call.index)
    BY <1>2, <1>5, <1>6, AttemptRemains DEF U!Refuse
<1>8. QED
    BY <1>7, AttemptRemains DEF UStep, U!Next

LEMMA ReturnEnds ==
    ASSUME CallInv, CallInv', Calling, NEW o, Given(o),
           Return(Returned(o)), o.kind = "panic" \/ Acceptable(o) \/ is_last
    PROVE  UStep
<1>1. /\ call'.pc = "done" /\ call'.index = call.index /\ call'.model = call.model
      /\ call'.result = Returned(o)
    BY DEF Return, CallInv, CallTypeOK, Call
<1>2. Candidates' = Candidates
    BY <1>1, SameModel
<1>3. CASE o.kind = "panic"
    <2>1. call'.result = Panic
        BY <1>1, <1>3, ReturnedType DEF CallInv
    <2>2. Phase' = "idle" /\ Remaining' = {}
        BY <1>1, <2>1, MappedNext DEF Mapped
    <2>3. U!Abandon
        BY <2>2, AttemptRemains DEF U!Abandon
    <2>4. QED
        BY <2>3 DEF UStep, U!Next
<1>4. CASE o.kind # "panic"
    <2>1. call'.result # Panic
        BY <1>1, <1>4, ReturnedType DEF CallInv
    <2>2. /\ Remaining' = Remaining \ {call.index}
          /\ Phase' = IF Acceptable(call.result)' THEN "answered" ELSE "exhausted"
        BY <1>1, <1>2, <2>1, MappedNext, AttemptRemains DEF Mapped
    <2>3. Acceptable(call.result)' <=> Acceptable(o)
        BY <1>1, ReturnedType, SameModel DEF Acceptable, CallInv, Registered
    <2>4. CASE Acceptable(o)
        <3>1. U!Answer(call.index)
            BY <2>2, <2>3, <2>4, AttemptRemains DEF U!Answer
        <3>2. QED
            BY <3>1, AttemptRemains DEF UStep, U!Next
    <2>5. CASE ~ Acceptable(o)
        <3>1. Remaining' = {} /\ Phase' = "exhausted"
            BY <1>4, <2>2, <2>3, <2>5, AttemptRemains
        <3>2. U!Refuse(call.index)
            BY <2>2, <3>1, AttemptRemains DEF U!Refuse
        <3>3. QED
            BY <3>2, AttemptRemains DEF UStep, U!Next
    <2>6. QED
        BY <2>4, <2>5
<1>5. QED
    BY <1>3, <1>4

LEMMA CallNextRefines ==
    ASSUME CallInv, CallNext
    PROVE  UStep
<1>1. CallInv'
    BY CallNextOK
<1>2. CASE Waits
    BY <1>1, <1>2, WaitIsSilent
<1>3. CASE Ends
    BY <1>1, <1>3, AttemptedCases, FailOverIsRefuse, ReturnEnds DEF Ends
<1>4. CASE Abandon
    <2>1. Calling /\ call'.pc = "idle"
        BY <1>4 DEF Abandon, Calling, CallInv, CallTypeOK, Call
    <2>2. Phase' = "idle" /\ Remaining' = {}
        BY <1>1, <2>1, MappedNext DEF Mapped
    <2>3. U!Abandon
        BY <2>1, <2>2, AttemptRemains DEF U!Abandon
    <2>4. QED
        BY <2>3 DEF UStep, U!Next
<1>5. QED
    BY <1>2, <1>3, <1>4, CallCases

(* The handler takes the result. *)
LEMMA AnsweredIsEnd ==
    ASSUME CallInv, call.pc = "done", Answered, UNCHANGED <<outcomes, sent, audits>>
    PROVE  CallInv' /\ call'.pc = "idle" /\ UStep
<1>1. CallInv' /\ call'.pc = "idle"
    BY IdleOK DEF Answered
<1>2. Phase' = "idle" /\ Remaining' = {}
    BY <1>1, MappedNext DEF Mapped
<1>3. CASE call.result = Panic
    <2>1. Phase = "idle" /\ Remaining = {}
        BY <1>3, MappedOK DEF Mapped
    <2>2. QED
        BY <1>1, <1>2, <2>1 DEF UStep
<1>4. CASE call.result # Panic
    <2>1. Phase \in {"answered", "exhausted"}
        BY <1>4, MappedOK DEF Mapped
    <2>2. U!End
        BY <1>2, <2>1 DEF U!End
    <2>3. QED
        BY <1>1, <2>2 DEF UStep, U!Next
<1>5. QED
    BY <1>3, <1>4

LEMMA CallUnchanged ==
    ASSUME CallInv, UNCHANGED callVars
    PROVE  CallInv' /\ UStep
<1>1. call' = call /\ outcomes' = outcomes /\ sent' = sent /\ audits' = audits
    BY DEF callVars
<1>2. CallInv'
    BY <1>1 DEF CallInv, CallTypeOK, RouteInv, TrailInv, ResultInv, Calling, Schema, Candidates,
                Registered, routes, Acceptable, is_last
<1>3. UNCHANGED <<Phase, Remaining>>
    BY <1>1 DEF Phase, Remaining, Over, Candidates, Registered, routes, Acceptable
<1>4. QED
    BY <1>2, <1>3 DEF UStep
-----------------------------------------------------------------------------
(***************************************************************************)
(* The answer to the client.                                               *)
(***************************************************************************)

(* The result of a call is that of its last attempt, but for the attempts  *)
(* count.                                                                  *)
LEMMA Settled ==
    ASSUME CallInv, call.pc = "done"
    PROVE  /\ outcomes # <<>> /\ Last(outcomes) \in Outcome /\ Schema(Last(outcomes))
           /\ call.result.kind = Last(outcomes).kind
           /\ Last(outcomes).kind = "response" =>
                 /\ call.result.status = Last(outcomes).status
                 /\ call.result.body = Last(outcomes).body
                 /\ call.result.provider = Last(outcomes).provider
                 /\ call.result.model = Last(outcomes).model
                 /\ call.result.usage = Last(outcomes).usage
           /\ call.result.kind = "response" => call.result.attempts = Len(outcomes)
           /\ call.result \in Outcome
<1> DEFINE last == outcomes[Len(outcomes)]
<1>1. outcomes \in Seq(Outcome) /\ call.index \in Nat /\ call.index \in Candidates
    BY DEF CallInv, CallTypeOK, RouteInv, Call
<1>2. Len(outcomes) = call.index /\ call.index >= 1
    BY <1>1, RouteFacts DEF CallInv, TrailInv, Candidates
<1>3. Len(outcomes) \in 1..Len(outcomes) /\ outcomes # <<>> /\ last \in Outcome
    BY <1>1, <1>2
<1>4. Schema(last)
    BY <1>3 DEF CallInv, TrailInv
<1>5. Last(outcomes) = last
    BY DEF Last
<1>6. /\ call.result = IF last.kind = "response" /\ Registered
                       THEN [last EXCEPT !.attempts = call.index] ELSE last
      /\ last.kind = "response" /\ ~ Registered => last.attempts = 1
    BY DEF CallInv, ResultInv
<1> HIDE DEF last
<1>7. CASE last.kind = "response" /\ Registered
    <2>1. last \in Response
        BY <1>3, <1>7, Kinds
    <2>2. call.result = [last EXCEPT !.attempts = call.index]
        BY <1>6, <1>7
    <2>3. /\ call.result \in Response /\ call.result.kind = last.kind
          /\ call.result.status = last.status /\ call.result.body = last.body
          /\ call.result.provider = last.provider /\ call.result.model = last.model
          /\ call.result.usage = last.usage /\ call.result.attempts = call.index
        BY <1>1, <2>1, <2>2, Counted
    <2>4. call.result \in Outcome
        BY <2>3 DEF Outcome
    <2>5. QED
        BY <1>2, <1>3, <1>4, <1>5, <2>3, <2>4
<1>8. CASE ~ (last.kind = "response" /\ Registered)
    <2>1. call.result = last
        BY <1>6, <1>8
    <2>2. last.kind = "response" => Len(outcomes) = 1
        BY <1>1, <1>2, <1>8 DEF Candidates
    <2>3. QED
        BY <1>3, <1>4, <1>5, <1>6, <1>8, <2>1, <2>2
<1>9. QED
    BY <1>7, <1>8

(* An answer that is given when the call is done. *)
LEMMA AnswerOK ==
    ASSUME CallInv, call.pc = "done", call'.pc = "idle", UNCHANGED outcomes,
           NEW r \in Reply, reply' = r,
           Last(outcomes).kind = "response" =>
               r.status = Last(outcomes).status /\ r.body = Last(outcomes).body,
           Last(outcomes).kind # "response" => r.body = "openai",
           Last(outcomes).kind = "error" => r.status = 502,
           Last(outcomes).kind = "timeout" => r.status = 504
    PROVE  ReplyInv'
<1>1. Last(outcomes') = Last(outcomes)
    BY DEF Last
<1>2. r.body = "raw" =>
          \/ Last(outcomes).provider \in {"openai", "azure"}
          \/ Last(outcomes).provider = "bedrock" /\ r.status # 200
    BY Settled DEF Schema
<1>3. ClientIsToldTheTruth'
    BY <1>1, <1>2 DEF ClientIsToldTheTruth
<1>4. outcomes' # <<>>
    BY Settled
<1>5. QED
    BY <1>3, <1>4 DEF ReplyInv

LEMMA RespondOkOK ==
    ASSUME CallInv, RespondOk
    PROVE  CallInv' /\ ReplyInv' /\ UStep
<1> DEFINE r == [kind |-> "answer", status |-> call.result.status, body |-> call.result.body]
<1>1. /\ call.pc = "done" /\ call.result.kind = "response" /\ Answered
      /\ reply' = r /\ UNCHANGED <<outcomes, sent, audits>>
    BY DEF RespondOk
<1>2. CallInv' /\ call'.pc = "idle" /\ UStep
    BY <1>1, AnsweredIsEnd
<1>3. call.result \in Response
    BY <1>1, Settled, Kinds
<1>4. r \in Reply /\ r.status = call.result.status /\ r.body = call.result.body
    <2>1. /\ call.result.status \in Statuses \cup {501}
          /\ call.result.body \in {"openai", "raw", "adapted", "passed through"}
        BY <1>3 DEF Response
    <2>2. r \in Reply
        BY <2>1, ZenonT(60) DEF Reply
    <2>3. QED
        BY <2>2
<1> HIDE DEF r
<1>5. ReplyInv'
    BY <1>1, <1>2, <1>4, Settled, AnswerOK
<1>6. QED
    BY <1>2, <1>5

LEMMA RespondErrOK ==
    ASSUME CallInv, RespondErr
    PROVE  CallInv' /\ ReplyInv' /\ UStep
<1> DEFINE r == upstream_error_response(call.result)
<1>1. /\ call.pc = "done" /\ call.result.kind \in {"error", "timeout"} /\ Answered
      /\ reply' = r /\ UNCHANGED <<outcomes, sent, audits>>
    BY DEF RespondErr
<1>2. CallInv' /\ call'.pc = "idle" /\ UStep
    BY <1>1, AnsweredIsEnd
<1>3. /\ r \in Reply /\ r.body = "openai"
      /\ r.status = IF call.result.kind = "timeout" THEN 504 ELSE 502
    BY DEF upstream_error_response, Reply
<1> HIDE DEF r
<1>4. ReplyInv'
    BY <1>1, <1>2, <1>3, Settled, AnswerOK
<1>5. QED
    BY <1>2, <1>4

(* No answer stands: none was given yet, or the connection is closed. *)
LEMMA UnansweredOK ==
    ASSUME reply' \in {NoReply, Closed}, call'.pc = "idle" \/ reply' = NoReply
    PROVE  ReplyInv'
    BY DEF ReplyInv, ClientIsToldTheTruth, NoReply, Closed

LEMMA StepOK ==
    ASSUME IInv, [Next]_vars
    PROVE  IInv' /\ UStep
<1>1. CallInv /\ ReplyInv
    BY DEF IInv
<1>2. ASSUME NEW name \in Names, NEW request \in Request, Ask(name, request)
      PROVE  IInv' /\ UStep
    <2>1. Chat(name, request) /\ reply' = NoReply
        BY <1>2 DEF Ask
    <2>2. CallInv' /\ UStep
        BY <1>1, <2>1, ChatOK, ChatIsStart
    <2>3. QED
        BY <2>1, <2>2, UnansweredOK DEF IInv
<1>3. CASE CallNext /\ UNCHANGED <<streamVars, reply>>
    <2>1. call.pc # "idle"
        BY <1>1, <1>3, CallCases DEF Waits, Ends, Calling, Abandon
    <2>2. reply' = NoReply
        BY <1>1, <1>3, <2>1 DEF ReplyInv
    <2>3. QED
        BY <1>1, <1>3, <2>2, CallNextOK, CallNextRefines, UnansweredOK DEF IInv
<1>4. CASE RespondOk
    BY <1>1, <1>4, RespondOkOK DEF IInv
<1>5. CASE RespondErr
    BY <1>1, <1>5, RespondErrOK DEF IInv
<1>6. CASE Unwind
    <2>1. call.pc = "done" /\ Answered /\ reply' = Closed /\ UNCHANGED <<outcomes, sent, audits>>
        BY <1>6 DEF Unwind
    <2>2. QED
        BY <1>1, <2>1, AnsweredIsEnd, UnansweredOK DEF IInv
<1>7. CASE UNCHANGED <<callVars, reply>>
    <2>1. CallInv' /\ UStep
        BY <1>1, <1>7, CallUnchanged
    <2>2. call' = call /\ outcomes' = outcomes /\ reply' = reply
        BY <1>7 DEF callVars
    <2>3. ReplyInv'
        BY <1>1, <2>2 DEF ReplyInv, ClientIsToldTheTruth, Last
    <2>4. QED
        BY <2>1, <2>3 DEF IInv
<1>8. QED
    BY <1>2, <1>3, <1>4, <1>5, <1>6, <1>7 DEF Next, vars

LEMMA InitOK == Init => IInv
    BY CallInitOK DEF Init, IInv, ReplyInv, ClientIsToldTheTruth, NoReply, CallInit

(* IInv is an invariant of the gateway's exchange with its providers. *)
THEOREM InductiveInvariant == Spec => []IInv
<1>1. IInv /\ [Next]_vars => IInv'
    BY StepOK
<1>2. QED
    BY <1>1, InitOK, PTL DEF Spec

(* The registry's dispatch, its connectors and the handler that calls them *)
(* keep the promise of Upstream, whatever models, routes and retryable     *)
(* statuses are configured: a call uses up its routes one by one, ends     *)
(* with the first acceptable answer, and without one only when no route is *)
(* left, its handler is dropped, or it panics.                             *)
THEOREM Refinement == Spec => ImplementsUpstream
<1>1. Init => U!Init
    <2> SUFFICES ASSUME Init PROVE U!Init
        OBVIOUS
    <2>1. CallInv /\ call.pc = "idle"
        BY InitOK DEF IInv, Init, CallInit
    <2>2. QED
        BY <2>1, MappedOK DEF Mapped, U!Init
<1>2. IInv /\ [Next]_vars => [U!Next]_(U!vars)
    <2> SUFFICES ASSUME IInv, [Next]_vars PROVE [U!Next]_(U!vars)
        OBVIOUS
    <2>1. UStep
        BY StepOK
    <2>2. QED
        BY <2>1 DEF UStep, U!vars
<1>3. QED
    BY <1>1, <1>2, InductiveInvariant, PTL DEF Spec, ImplementsUpstream, U!Spec

(* The failover events of registry.rs and the attempts count it puts on a  *)
(* response are those of the attempts that were made.                      *)
THEOREM TrailIsTrue == Spec => []TrailMatchesAttempts
<1>1. IInv => TrailMatchesAttempts
    <2> SUFFICES ASSUME IInv, call.pc = "done" PROVE TrailMatchesAttempts
        BY DEF TrailMatchesAttempts
    <2>1. CallInv
        BY DEF IInv
    <2>2. Len(audits) = Len(outcomes) - 1
        BY <2>1 DEF CallInv, TrailInv
    <2>3. call.result.kind = "response" => call.result.attempts = Len(outcomes)
        BY <2>1, Settled
    <2>4. QED
        BY <2>1, <2>2, <2>3 DEF TrailMatchesAttempts, CallInv, TrailInv
<1>2. QED
    BY <1>1, InductiveInvariant, PTL

(* What a client is told is what the last provider answered, in OpenAI's   *)
(* schema but for the bodies that the connectors leave as they are; it is  *)
(* told of a failure (502) or a timeout (504) only if the last attempt     *)
(* came to one.                                                            *)
THEOREM TruthIsTold == Spec => []ClientIsToldTheTruth
    BY InductiveInvariant, PTL DEF IInv, ReplyInv
-----------------------------------------------------------------------------
(***************************************************************************)
(* What is charged for an answer that was read.                            *)
(***************************************************************************)

(* The counts of usage that was read are counts that were reported, or     *)
(* zero.                                                                   *)
Counts == [prompt : Tokens \cup {0}, completion : Tokens \cup {0}]

LEMMA UsageCounts ==
    ASSUME NEW body \in Body
    PROVE  /\ parse_openai_usage(body) # None => parse_openai_usage(body) \in Counts
           /\ to_openai_usage(body) \in Counts
<1>1. body.prompt \in Tokens \cup {None} /\ body.completion \in Tokens \cup {None}
    BY DEF Body
<1>2. OrElse(body.prompt, 0) \in Tokens \cup {0} /\ OrElse(body.completion, 0) \in Tokens \cup {0}
    BY <1>1 DEF OrElse
<1>3. ASSUME parse_openai_usage(body) # None
      PROVE  parse_openai_usage(body) \in Counts
    <2>1. /\ body.prompt # None
          /\ parse_openai_usage(body) = [prompt |-> body.prompt, completion |-> OrElse(body.completion, 0)]
        BY <1>3 DEF parse_openai_usage
    <2>2. QED
        BY <1>1, <1>2, <2>1 DEF Counts
<1>4. to_openai_usage(body) \in Counts
    BY <1>2 DEF to_openai_usage, Counts
<1>5. QED
    BY <1>3, <1>4

(* What a connector makes of a body it has read: its usage, and where it   *)
(* came from.                                                              *)
ReadFrom(o, provider, model, status) ==
    /\ o.provider = provider /\ o.model = model
    /\ o.usage # None => o.usage \in Counts
    /\ o.body \notin {"adapted", "passed through"}
    /\ provider = "anthropic" /\ status # 200 => o.usage = None

LEMMA FinishedUsage ==
    ASSUME NEW provider \in Providers, NEW model, NEW status, NEW body \in Body,
           NEW o, o = Finished(provider, model, status, body), o.kind = "response"
    PROVE  ReadFrom(o, provider, model, status)
<1>o. ASSUME NEW code, NEW usage, NEW schema \in {"openai", "raw"},
             usage # None => usage \in Counts, ~ (provider = "anthropic" /\ status # 200) \/ usage = None,
             o = ChatResponse(code, provider, model, usage, schema)
      PROVE  ReadFrom(o, provider, model, status)
    <2>1. o.provider = provider /\ o.model = model /\ o.usage = usage /\ o.body = schema
        BY <1>o DEF ChatResponse
    <2>2. QED
        BY <1>o, <2>1 DEF ReadFrom
<1>1. CASE provider \in {"openai", "azure"}
    <2> DEFINE schema == IF body.kind \in {"answer", "error"} THEN "openai" ELSE "raw"
    <2>1. o = ChatResponse(status, provider, model, parse_openai_usage(body), schema)
        BY <1>1 DEF Finished
    <2>2. schema \in {"openai", "raw"}
        OBVIOUS
    <2> DEFINE usage == parse_openai_usage(body)
    <2>3. usage # None => usage \in Counts
        BY UsageCounts
    <2>4. ~ (provider = "anthropic" /\ status # 200)
        BY <1>1
    <2> HIDE DEF schema, usage
    <2>5. o = ChatResponse(status, provider, model, usage, schema)
        BY <2>1 DEF usage
    <2>6. QED
        BY <1>o, <2>2, <2>3, <2>4, <2>5
<1>2. CASE provider = "anthropic" /\ status # 200
    <2>1. o = to_openai_error(status, provider, model, body)
        BY <1>2 DEF Finished
    <2>2. CASE body.kind = "long text"
        <3>1. o = [kind |-> "panic"]
            BY <2>1, <2>2 DEF to_openai_error, Panic
        <3>2. o.kind = "panic"
            BY <3>1
        <3>3. QED
            BY <3>2
    <2>3. CASE body.kind # "long text"
        <3>1. o = ChatResponse(status, provider, model, None, "openai")
            BY <2>1, <2>3 DEF to_openai_error
        <3>2. QED
            BY <1>o, <3>1
    <2>4. QED
        BY <2>2, <2>3
<1>3. CASE provider = "bedrock" /\ status # 200
    <2>1. o = ChatResponse(status, provider, model, None, "raw")
        BY <1>3 DEF Finished
    <2>2. QED
        BY <1>o, <2>1
<1>4. CASE provider \in {"anthropic", "bedrock"} /\ status = 200
    <2>1. o = to_openai_response(provider, model, body)
        BY <1>4 DEF Finished
    <2>2. CASE body.kind \in {"text", "long text"}
        <3>1. o = [kind |-> "error"]
            BY <2>1, <2>2 DEF to_openai_response, Err
        <3>2. o.kind = "error"
            BY <3>1
        <3>3. QED
            BY <3>2
    <2>3. CASE body.kind \notin {"text", "long text"}
        <3>1. o = ChatResponse(200, provider, model, to_openai_usage(body), "openai")
            BY <2>1, <2>3 DEF to_openai_response
        <3>2. QED
            BY <1>4, <1>o, <3>1, UsageCounts
    <2>4. QED
        BY <2>2, <2>3
<1>5. QED
    BY <1>1, <1>2, <1>3, <1>4 DEF Providers

(* The part of ServedInv about a call under way. *)
Served ==
    /\ call.pc \in {"sent", "reading"} => sent # <<>> /\ Last(sent) = route
    /\ call.pc = "reading" /\ call.request.stream => route.provider = "anthropic" /\ call.status # 200
    /\ call.pc = "done" => OfServer(Last(outcomes))

(* An attempt has an outcome whose usage, if any, is of the last route     *)
(* that was sent to.                                                       *)
LEMMA OutcomeServed ==
    ASSUME CallInv, NEW o, Given(o), Attempted(o), OfServer(o), UNCHANGED sent
    PROVE  Served'
<1>1. call \in Call /\ outcomes \in Seq(Outcome) /\ o \in Outcome
    BY DEF CallInv, CallTypeOK, Given
<1>2. outcomes' = Append(outcomes, o) /\ call'.request = call.request /\ call'.pc \in {"start", "done"}
    BY <1>1, AttemptedCases DEF FailOver, Return, Call
<1>3. Last(outcomes') = o
    BY <1>1, <1>2 DEF Last
<1>4. OfServer(Last(outcomes))'
    BY <1>2, <1>3 DEF OfServer, Last
<1>5. QED
    BY <1>2, <1>4 DEF Served

(* A request that goes out, or a head that is followed by a body. *)
LEMMA WaitServed ==
    ASSUME CallInv, NEW pc \in {"sent", "reading"}, NEW status,
           call' = [call EXCEPT !.pc = pc, !.status = status],
           sent' # <<>>, Last(sent') = route,
           pc = "reading" /\ call.request.stream => route.provider = "anthropic" /\ status # 200
    PROVE  Served'
<1>1. call \in Call
    BY DEF CallInv, CallTypeOK
<1>2. /\ call'.pc = pc /\ call'.status = status /\ call'.request = call.request
      /\ call'.model = call.model /\ call'.index = call.index
    BY <1>1 DEF Call
<1>3. route' = route
    BY <1>2 DEF route, Registered, routes
<1>4. QED
    BY <1>2, <1>3 DEF Served, Last

LEMMA CallServed ==
    ASSUME CallInv, Served, CallNext
    PROVE  Served'
<1>1. /\ call \in Call /\ sent \in Seq(Route)
      /\ call.pc # "idle" => route \in Route /\ route.provider \in Providers /\ route.model \in STRING
    BY RouteFacts DEF CallInv, CallTypeOK, RouteInv
<1>2. CASE Start
    <2>1. CASE Sends(route.provider, call.request)
        <3>1. call.pc = "start" /\ call' = [call EXCEPT !.pc = "sent"] /\ sent' = Append(sent, route)
            BY <1>2, <2>1 DEF Start
        <3>2. sent' # <<>> /\ Last(sent') = route
            BY <1>1, <3>1 DEF Last
        <3>3. call' = [call EXCEPT !.pc = "sent", !.status = call.status]
            BY <1>1, <3>1 DEF Call
        <3>4. QED
            BY <3>2, <3>3, WaitServed
    <2>2. CASE ~ Sends(route.provider, call.request)
        <3> DEFINE o == IF Refuses(route.provider, call.request) THEN Err
                        ELSE ChatResponse(501, route.provider, route.model, None, "openai")
        <3>1. call.pc = "start" /\ Attempted(o) /\ UNCHANGED sent
            BY <1>2, <2>2 DEF Start
        <3>2. Given(o)
            BY <1>1, <3>1, Failures, UnsentGiven, ZenonT(60)
        <3>3. o.kind = "response" => o.usage = None /\ o.body = "openai"
            BY DEF Err, ChatResponse
        <3> HIDE DEF o
        <3>o. OfServer(o)
            BY <3>3 DEF OfServer
        <3>4. QED
            BY <3>1, <3>2, <3>o, OutcomeServed
    <2>3. QED
        BY <2>1, <2>2
<1>3. ASSUME NEW status \in Statuses, ReceiveHead(status)
      PROVE  Served'
    <2>1. CASE PassesStream(route.provider, call.request, status)
        <3> DEFINE o == Streamed(route.provider, route.model, status)
        <3>1. call.pc = "sent" /\ Attempted(o) /\ UNCHANGED sent
            BY <1>3, <2>1 DEF ReceiveHead
        <3>2. Given(o)
            BY <1>1, <3>1, StreamedGiven
        <3>3. o.usage = None /\ o.provider = route.provider /\ o.model = route.model
            BY DEF Streamed, ChatResponse
        <3> HIDE DEF o
        <3>o. OfServer(o)
            BY <3>1, <3>3 DEF OfServer, Served
        <3>4. QED
            BY <3>1, <3>2, <3>o, OutcomeServed
    <2>2. CASE ~ PassesStream(route.provider, call.request, status)
        <3>1. /\ call.pc = "sent" /\ call' = [call EXCEPT !.pc = "reading", !.status = status]
              /\ sent' = sent
            BY <1>3, <2>2 DEF ReceiveHead
        <3>2. sent' # <<>> /\ Last(sent') = route
            BY <3>1 DEF Served
        <3>3. call.request.stream => route.provider = "anthropic" /\ status # 200
            BY <2>2 DEF PassesStream
        <3>4. QED
            BY <3>1, <3>2, <3>3, WaitServed
    <2>3. QED
        BY <2>1, <2>2
<1>4. ASSUME NEW body \in Body, ReadBody(body)
      PROVE  Served'
    <2> DEFINE o == Finished(route.provider, route.model, call.status, body)
    <2>1. call.pc = "reading" /\ Attempted(o) /\ UNCHANGED sent
        BY <1>4 DEF ReadBody
    <2>2. call.status \in Statuses
        BY <2>1 DEF CallInv, RouteInv
    <2>3. Given(o)
        BY <1>1, <2>1, <2>2, FinishedGiven
    <2>4. ASSUME o.kind = "response"
          PROVE  ReadFrom(o, route.provider, route.model, call.status)
        <3>1. route.provider \in Providers
            BY <1>1, <2>1
        <3>2. o = Finished(route.provider, route.model, call.status, body)
            OBVIOUS
        <3> HIDE DEF o
        <3>3. QED
            BY <2>4, <3>1, <3>2, FinishedUsage
    <2> HIDE DEF o
    <2>5. OfServer(o)
        BY <2>1, <2>4 DEF Served, OfServer, Counts, ReadFrom
    <2>6. QED
        BY <2>1, <2>3, <2>5, OutcomeServed
<1>5. ASSUME NEW o \in {Err, TimedOut}, Attempted(o), UNCHANGED sent
      PROVE  Served'
    <2>1. Given(o)
        BY Failures
    <2>2. o.kind # "response"
        BY DEF Err, TimedOut
    <2>3. OfServer(o)
        BY <2>2 DEF OfServer
    <2>4. QED
        BY <1>5, <2>1, <2>3, OutcomeServed
<1>6. CASE Abandon
    <2>1. call'.pc = "idle"
        BY <1>1, <1>6 DEF Abandon, Call
    <2>2. QED
        BY <2>1 DEF Served
<1>7. QED
    BY <1>2, <1>3, <1>4, <1>5, <1>6 DEF CallNext, TransportError, Timeout

(* A body that goes out with a response is one that a parser can take, and *)
(* only one that a connector streams has events.                           *)
LEMMA BodiesOK ==
    ASSUME NEW result, NEW script \in BodiesOf(result)
    PROVE  /\ WellFormed(script)
           /\ script \in Scripts \cup {JsonBody(TRUE), JsonBody(FALSE)}
           /\ HasEvents(script) => result.body \in {"adapted", "passed through"}
<1>1. \/ script \in Scripts /\ result.body \in {"adapted", "passed through"}
      \/ script = JsonBody(TRUE) \/ script = JsonBody(FALSE)
    BY DEF BodiesOf
<1>2. CASE script \in Scripts /\ result.body \in {"adapted", "passed through"}
    BY <1>2, StreamsAssumption DEF WellFormed
<1>3. ASSUME NEW whole \in BOOLEAN, script = JsonBody(whole)
      PROVE  WellFormed(script) /\ ~ HasEvents(script)
    <2> DEFINE rest == <<Comment>>
    <2>1. Comment \in LineType
        BY StringsAssumption DEF Comment, Line, LineType
    <2>2. rest \in Seq(LineType)
        BY <2>1
    <2>3. <<>> \in Seq(Event)
        OBVIOUS
    <2>4. script = [adapted |-> FALSE, whole |-> whole, events |-> <<>>, rest |-> rest]
        BY <1>3 DEF JsonBody
    <2> HIDE DEF rest
    <2>5. script \in Script /\ ~ script.adapted /\ script.events = <<>>
        BY <2>2, <2>3, <2>4 DEF Script
    <2>6. QED
        BY <2>5 DEF WellFormed, HasEvents
<1>4. CASE script = JsonBody(TRUE) \/ script = JsonBody(FALSE)
    BY <1>3, <1>4
<1>5. QED
    BY <1>1, <1>2, <1>4

(* No stream. *)
LEMMA NoStreamOK ==
    ASSUME stream = Stream_new(NoScript, "none")
    PROVE  StreamInv
<1>1. /\ DOMAIN stream = StreamFields /\ stream.pc = "none" /\ stream.script = NoScript
      /\ stream.read = 0 /\ stream.transform = AnthropicTransform_new
      /\ stream.upstream_done = FALSE /\ stream.emitted_done = FALSE
    BY DEF Stream_new, StreamFields
<1>2. NoScript \in Script /\ ~ NoScript.adapted
    BY DEF NoScript, Script
<1>3. /\ NoScript.events \in Seq(Event) /\ NoScript.rest \in Seq(LineType)
      /\ Bytes(NoScript) = TextOf(NoScript.events, NoScript.rest)
    BY <1>2, ScriptFacts
<1>4. Bytes(NoScript) \in Seq(ByteType)
    BY <1>3, StreamAt
<1>5. 0 \in 0..Len(Bytes(NoScript))
    <2> DEFINE text == Bytes(NoScript)
    <2> HIDE DEF text
    <2>1. text \in Seq(ByteType)
        BY <1>4 DEF text
    <2>2. 0 \in 0..Len(text)
        BY <2>1
    <2>3. QED
        BY <2>2 DEF text
<1>6. AnthropicTransform_new \in Usage
    BY DEF AnthropicTransform_new, Usage
<1>7. StreamOK(stream, client)
    <2>1. WellFormed(stream.script)
        BY <1>1, <1>2 DEF WellFormed
    <2>2. /\ stream.read \in 0..Len(Bytes(stream.script)) /\ stream.transform \in Usage
          /\ stream.upstream_done \in BOOLEAN /\ stream.emitted_done \in BOOLEAN
          /\ stream.pc \in {"none", "open", "ended", "aborted"}
        BY <1>1, <1>5, <1>6
    <2>3. QED
        BY <1>1, <2>1, <2>2, Zenon DEF StreamOK
<1>8. QED
    BY <1>1, <1>7 DEF StreamInv

LEMMA NoStreamNext ==
    ASSUME stream' = Stream_new(NoScript, "none")
    PROVE  StreamInv'
<1>1. (stream = Stream_new(NoScript, "none") => StreamInv)'
    BY NoStreamOK, PTL
<1>2. QED
    BY <1>1

(* What no step of a stream changes. *)
LEMMA ScriptStays ==
    ASSUME StreamInv, StreamNext
    PROVE  stream'.script = stream.script
<1>1. DOMAIN stream = StreamFields
    BY DEF StreamInv, StreamOK
<1>2. ASSUME NEW n, ReadChunk(n)
      PROVE  stream'.script = stream.script
    <2>1. CASE stream.script.adapted
        <3>1. PICK seen : stream' = [stream EXCEPT !.read = @ + n, !.buffer = seen.buffer,
                                        !.transform = processed(stream.transform, seen.events).transform,
                                        !.pending = processed(stream.transform, seen.events).out]
            BY <1>2, <2>1, Zenon DEF ReadChunk
        <3>2. QED
            BY <1>1, <3>1 DEF StreamFields
    <2>2. CASE ~ stream.script.adapted
        BY <1>1, <1>2, <2>2 DEF ReadChunk, StreamFields
    <2>3. QED
        BY <2>1, <2>2
<1>3. CASE Emit
    BY <1>1, <1>3 DEF Emit, EmitPending, EmitDone, End, StreamFields
<1>4. CASE UpstreamEnd \/ UpstreamError \/ Disconnect
    BY <1>1, <1>4 DEF UpstreamEnd, UpstreamError, Disconnect, StreamFields
<1>5. QED
    BY <1>2, <1>3, <1>4 DEF StreamNext

(* What is charged for a stream is charged for events, at a price of       *)
(* counts that were reported.                                              *)
LEMMA StreamPrice ==
    ASSUME StreamInv, stream.pc # "none", charged # None
    PROVE  HasEvents(stream.script) /\ IsPrice(charged, observer.provider, observer.model)
<1> DEFINE script == stream.script
           response == ResponseTo(script)
<1>1. Observed(response, Unended(script), Len(client), observer, charged)
    BY DEF StreamInv
<1>2. response \in Seq(Event)
    BY ResponseIs DEF StreamInv, StreamOK, WellFormed
<1>3. \E k \in 1..Len(response) : TRUE
    BY <1>1 DEF Observed, Searching, Found
<1>4. ~ script.adapted => response = script.events
    BY DEF ResponseTo
<1> HIDE DEF response, script
<1>5. response # <<>>
    <2>1. Len(<<>>) = 0 /\ 1..0 = {}
        OBVIOUS
    <2>2. Len(response) # 0
        BY <1>3, <2>1
    <2>3. QED
        BY <2>1, <2>2
<1>6. HasEvents(script)
    BY <1>4, <1>5 DEF HasEvents
<1>7. IsPrice(charged, observer.provider, observer.model)
    BY <1>1, <1>2, ObservedPrice
<1>8. QED
    BY <1>6, <1>7 DEF script

(* The handler charges an answer that was read when it gives it. *)
LEMMA RespondOkCharges ==
    ASSUME CallInv, ServedInv, RespondOk
    PROVE  ServedInv'
<1> DEFINE result == call.result
           last == Last(outcomes)
<1>1. /\ call.pc = "done" /\ result.kind = "response" /\ Answered
      /\ outcomes' = outcomes /\ sent' = sent
    BY DEF RespondOk
<1>2. call'.pc = "idle"
    BY <1>1, AnsweredIsEnd DEF RespondOk
<1>3. /\ last.kind = "response" /\ result.provider = last.provider /\ result.body = last.body
      /\ result.model = last.model /\ result.usage = last.usage
    BY <1>1, Settled
<1>4. Last(outcomes)' = last /\ Last(sent)' = Last(sent)
    BY <1>1 DEF Last
<1>5. OfServer(last) /\ stream.pc = "none"
    BY <1>1 DEF ServedInv
<1>6. CASE call.request.stream
    <2>1. PICK script \in BodiesOf(result) : Open(script, result.provider, result.model)
        BY <1>6 DEF RespondOk
    <2>2. HasEvents(script) => result.body \in {"adapted", "passed through"}
        BY <2>1, BodiesOK
    <2>3. /\ stream'.pc = "open" /\ stream'.script = script
          /\ observer'.provider = result.provider /\ observer'.model = result.model
        BY <2>1 DEF Open, Stream_new, Observer_new
    <2> HIDE DEF result, last
    <2>4. last.usage = None
        BY <1>3, <1>5, <1>6 DEF OfServer
    <2>5. ReadIsCharged'
        BY <1>4, <2>4 DEF ReadIsCharged
    <2>6. HasEvents(script) =>
             sent # <<>> /\ result.provider = Last(sent).provider /\ result.model = Last(sent).model
        BY <1>3, <1>5, <2>2 DEF OfServer
    <2>7. QED
        BY <1>1, <1>2, <1>4, <2>3, <2>4, <2>5, <2>6 DEF ServedInv, HasEvents
<1>7. CASE ~ call.request.stream
    <2>1. /\ charged' = IF result.usage = None THEN None
                        ELSE compute(result.provider, result.model, result.usage)
          /\ stream' = stream
        BY <1>7 DEF RespondOk
    <2> HIDE DEF result, last
    <2>2. ASSUME last.usage # None
          PROVE  /\ charged' = ServersPrice(last.usage) /\ sent # <<>>
                 /\ \E prompt, completion \in Tokens \cup {0} :
                       last.usage = [prompt |-> prompt, completion |-> completion]
        <3>1. /\ last.provider = Last(sent).provider /\ last.model = Last(sent).model
              /\ sent # <<>> /\ last.usage \in [prompt : Tokens \cup {0}, completion : Tokens \cup {0}]
            BY <1>3, <1>5, <2>2 DEF OfServer
        <3>2. charged' = compute(last.provider, last.model, last.usage)
            BY <1>3, <2>1, <2>2
        <3>3. compute(Last(sent).provider, Last(sent).model, last.usage) = ServersPrice(last.usage)
            BY DEF compute, ServersPrice
        <3>4. QED
            BY <3>1, <3>2, <3>3
    <2>3. \A usage : ServersPrice(usage)' = ServersPrice(usage)
        BY <1>1 DEF ServersPrice, Last
    <2>4. ReadIsCharged'
        BY <1>4, <2>2, <2>3 DEF ReadIsCharged
    <2>5. PricedAsServed'
        <3>1. CASE last.usage = None
            BY <1>3, <2>1, <2>4, <3>1 DEF PricedAsServed
        <3>2. CASE last.usage # None
            BY <1>1, <2>2, <2>3, <2>4, <3>2 DEF PricedAsServed
        <3>3. QED
            BY <3>1, <3>2
    <2>6. QED
        BY <1>2, <1>5, <2>1, <2>4, <2>5 DEF ServedInv
<1>8. QED
    BY <1>6, <1>7

LEMMA ServedStep ==
    ASSUME IInv, ServedInv, StreamInv, [Next]_vars
    PROVE  ServedInv'
<1>1. CallInv /\ ReplyInv /\ Served
    BY DEF IInv, ServedInv, Served
<1>2. ASSUME NEW name \in Names, NEW request \in Request, Ask(name, request)
      PROVE  ServedInv'
    <2>1. /\ call'.pc = "start" /\ stream'.pc = "none" /\ reply' = NoReply
          /\ charged' = None
        BY <1>2 DEF Ask, Chat, Stream_new
    <2>2. reply'.kind # "answer"
        BY <2>1 DEF NoReply
    <2>3. QED
        BY <2>1, <2>2 DEF ServedInv, ReadIsCharged, PricedAsServed
<1>3. CASE CallNext /\ UNCHANGED <<streamVars, reply>>
    <2>1. call.pc # "idle" /\ stream' = stream /\ charged' = charged /\ reply' = NoReply
        BY <1>1, <1>3, CallCases DEF Waits, Ends, Calling, Abandon, ReplyInv, streamVars
    <2>2. Served' /\ stream'.pc = "none" /\ charged' = None
        BY <1>1, <1>3, <2>1, CallServed DEF ServedInv
    <2>3. reply'.kind # "answer"
        BY <2>1 DEF NoReply
    <2>4. QED
        BY <2>2, <2>3 DEF ServedInv, Served, ReadIsCharged, PricedAsServed
<1>4. CASE RespondOk
    BY <1>1, <1>4, RespondOkCharges
<1>5. CASE RespondErr \/ Unwind
    <2>1. /\ call.pc = "done" /\ call.result.kind # "response" /\ Answered
          /\ outcomes' = outcomes /\ sent' = sent /\ UNCHANGED audits
          /\ stream' = stream /\ charged' = charged
        BY <1>5 DEF RespondErr, Unwind, Panic, streamVars
    <2>2. call'.pc = "idle" /\ Last(outcomes').kind # "response"
        BY <1>1, <2>1, Settled, AnsweredIsEnd DEF Last
    <2>3. stream'.pc = "none" /\ charged' = None
        BY <2>1 DEF ServedInv
    <2>4. QED
        BY <2>2, <2>3 DEF ServedInv, ReadIsCharged, PricedAsServed, Last
<1>6. CASE StreamNext /\ UNCHANGED <<callVars, reply>>
    <2>1. /\ stream.pc = "open" /\ stream'.pc # "none" /\ call' = call /\ outcomes' = outcomes
          /\ sent' = sent /\ reply' = reply /\ stream'.script = stream.script
          /\ observer'.provider = observer.provider /\ observer'.model = observer.model
        BY <1>6, StreamNextOK, ScriptStays DEF callVars
    <2>2. call.pc = "idle"
        BY <2>1 DEF ServedInv
    <2>3. ~ (reply.kind = "answer" /\ Last(outcomes).kind = "response" /\ Last(outcomes).usage # None)
        BY <2>1 DEF ServedInv
    <2>4. HasEvents(stream'.script) =>
             /\ sent' # <<>>
             /\ observer'.provider = Last(sent').provider /\ observer'.model = Last(sent').model
        BY <2>1 DEF ServedInv
    <2>5. ReadIsCharged'
        BY <2>1, <2>3 DEF ReadIsCharged, Last
    <2>6. Last(sent)' = Last(sent') /\ Last(outcomes)' = Last(outcomes)
        BY <2>1 DEF Last
    <2>7. QED
        BY <2>1, <2>2, <2>3, <2>4, <2>5, <2>6 DEF ServedInv, HasEvents
<1>7. CASE UNCHANGED vars
    <2>1. /\ call' = call /\ outcomes' = outcomes /\ sent' = sent /\ reply' = reply
          /\ stream' = stream /\ charged' = charged /\ observer' = observer
        BY <1>7 DEF vars, callVars, streamVars
    <2>2. (ReadIsCharged' <=> ReadIsCharged) /\ (PricedAsServed' <=> PricedAsServed)
        BY <2>1 DEF ReadIsCharged, PricedAsServed, ServersPrice, Last
    <2>3. QED
        BY <2>1, <2>2 DEF ServedInv, HasEvents, OfServer, Last, route, Registered, routes
<1>8. QED
    BY <1>2, <1>3, <1>4, <1>5, <1>6, <1>7 DEF Next

(* The steps of a stream are those of Streams: an answer that is read      *)
(* changes the charge only while there is no stream.                       *)
LEMMA StreamStep ==
    ASSUME IInv, ServedInv, StreamInv, [Next]_vars
    PROVE  StreamInv'
<1>1. ASSUME NEW name \in Names, NEW request \in Request, Ask(name, request)
      PROVE  StreamInv'
    BY <1>1, NoStreamNext DEF Ask
<1>2. CASE RespondOk
    <2>1. call.pc = "done"
        BY <1>2 DEF RespondOk
    <2>2. CASE call.request.stream
        <3>1. PICK script \in BodiesOf(call.result) :
                 Open(script, call.result.provider, call.result.model)
            BY <1>2, <2>2 DEF RespondOk
        <3>2. WellFormed(script)
            BY <3>1, BodiesOK
        <3>3. QED
            BY <3>1, <3>2, OpenOK
    <2>3. CASE ~ call.request.stream
        <3>1. stream' = stream /\ client' = client
            BY <1>2, <2>3 DEF RespondOk
        <3>2. stream.pc = "none"
            BY <2>1 DEF ServedInv
        <3>3. QED
            BY <3>1, <3>2 DEF StreamInv
    <2>4. QED
        BY <2>2, <2>3
<1>3. CASE StreamNext
    BY <1>3, StreamNextOK
<1>4. CASE UNCHANGED streamVars
    BY <1>4 DEF StreamInv, streamVars
<1>5. QED
    BY <1>1, <1>2, <1>3, <1>4 DEF Next, RespondErr, Unwind, vars

-----------------------------------------------------------------------------
(* Where the body and the observer come from. *)
BodyInv ==
    /\ stream.script \in Scripts \cup {NoScript, JsonBody(TRUE), JsonBody(FALSE)}
    /\ observer.found_usage \in BOOLEAN

LEMMA BodyStep ==
    ASSUME StreamInv, BodyInv, [Next]_vars
    PROVE  BodyInv'
<1>1. ASSUME NEW name \in Names, NEW request \in Request, Ask(name, request)
      PROVE  BodyInv'
    <2>1. stream'.script = NoScript /\ observer'.found_usage = FALSE
        BY <1>1 DEF Ask, Stream_new, Observer_new
    <2>2. QED
        BY <2>1 DEF BodyInv
<1>2. ASSUME NEW script \in BodiesOf(call.result), NEW provider, NEW model,
             Open(script, provider, model)
      PROVE  BodyInv'
    <2>1. stream'.script = script /\ observer'.found_usage = FALSE
        BY <1>2 DEF Open, Stream_new, Observer_new
    <2>2. QED
        BY <2>1, BodiesOK DEF BodyInv
<1>3. CASE StreamNext
    <2>1. StreamInv' /\ stream'.pc # "none" /\ stream'.script = stream.script
        BY <1>3, StreamNextOK, ScriptStays
    <2>2. observer'.found_usage \in BOOLEAN
        BY <2>1 DEF StreamInv, Observed
    <2>3. QED
        BY <2>1, <2>2 DEF BodyInv
<1>4. CASE UNCHANGED <<stream, observer>>
    BY <1>4 DEF BodyInv
<1>5. CASE RespondOk
    <2>1. \/ UNCHANGED <<stream, observer>>
          \/ \E script \in BodiesOf(call.result) : Open(script, call.result.provider, call.result.model)
        BY <1>5 DEF RespondOk
    <2>2. QED
        BY <1>2, <1>4, <2>1
<1>6. QED
    BY <1>1, <1>3, <1>4, <1>5 DEF Next, RespondErr, Unwind, vars, streamVars

LEMMA Priced ==
    ASSUME StreamInv, ServedInv
    PROVE  PricedAsServed
<1>1. CASE stream.pc = "none"
    BY <1>1 DEF ServedInv
<1>2. CASE stream.pc # "none"
    <2>1. ASSUME charged # None
          PROVE  /\ sent # <<>>
                 /\ \E prompt, completion \in Tokens \cup {0} :
                       charged = ServersPrice([prompt |-> prompt, completion |-> completion])
        <3>1. HasEvents(stream.script)
            BY <1>2, <2>1, StreamPrice
        <3>2. PICK prompt \in Tokens \cup {0}, completion \in Tokens \cup {0} :
                 charged = compute(observer.provider, observer.model,
                                   [prompt |-> prompt, completion |-> completion])
            BY <1>2, <2>1, StreamPrice DEF IsPrice
        <3>3. /\ sent # <<>>
              /\ observer.provider = Last(sent).provider /\ observer.model = Last(sent).model
            BY <1>2, <3>1 DEF ServedInv
        <3> DEFINE usage == [prompt |-> prompt, completion |-> completion]
        <3> HIDE DEF usage
        <3>4. compute(Last(sent).provider, Last(sent).model, usage) = ServersPrice(usage)
            BY DEF compute, ServersPrice
        <3>5. QED
            BY <3>2, <3>3, <3>4 DEF usage
    <2>2. QED
        BY <2>1 DEF ServedInv, PricedAsServed
<1>3. QED
    BY <1>1, <1>2

LEMMA TypesOK ==
    ASSUME IInv, ServedInv, StreamInv, BodyInv
    PROVE  TypeOK
<1>1. charged \in Int \cup {None}
    <2>1. CASE charged # None
        <3>1. PICK prompt \in Tokens \cup {0}, completion \in Tokens \cup {0} :
                 charged = ServersPrice([prompt |-> prompt, completion |-> completion])
            BY <2>1, Priced DEF PricedAsServed
        <3> DEFINE usage == [prompt |-> prompt, completion |-> completion]
                   served == Last(sent)
                   price == Pricing[served.provider][served.model]
        <3>2. usage.prompt \in Nat /\ usage.completion \in Nat
            BY ConnectorsAssumption
        <3> HIDE DEF usage
        <3>3. /\ served.provider \in DOMAIN Pricing /\ served.model \in DOMAIN Pricing[served.provider]
              /\ charged = usage.prompt * price.input + usage.completion * price.output
            BY <2>1, <3>1 DEF ServersPrice, usage
        <3>4. price.input \in Int /\ price.output \in Int
            BY <3>3, ConnectorsAssumption
        <3>5. QED
            BY <3>2, <3>3, <3>4
    <2>2. QED
        BY <2>1
<1>2. StreamTypeOK
    <2>1. StreamOK(stream, client)
        BY DEF StreamInv
    <2>2. QED
        BY <1>1, <2>1 DEF StreamTypeOK, StreamOK, BodyInv
<1>3. QED
    BY <1>2 DEF TypeOK, IInv, CallInv, ReplyInv

(* The inductive invariant of an exchange: of the call, of what its answer *)
(* is charged for, of the stream, and of the stream's body.                *)
THEOREM ExchangeInvariant == Spec => [](IInv /\ ServedInv /\ StreamInv /\ BodyInv)
<1>1. Init => ServedInv /\ StreamInv /\ BodyInv
    <2> SUFFICES ASSUME Init PROVE ServedInv /\ StreamInv /\ BodyInv
        OBVIOUS
    <2>1. /\ call.pc = "idle" /\ reply.kind = "none" /\ charged = None
          /\ stream = Stream_new(NoScript, "none") /\ observer = Observer_new(None, None)
        BY DEF Init, CallInit, StreamInit, NoReply
    <2>2. stream.pc = "none" /\ stream.script = NoScript /\ observer.found_usage = FALSE
        BY <2>1 DEF Stream_new, Observer_new
    <2>3. ServedInv
        BY <2>1, <2>2 DEF ServedInv, ReadIsCharged, PricedAsServed
    <2>4. StreamInv
        BY <2>1, NoStreamOK
    <2>5. QED
        BY <2>2, <2>3, <2>4 DEF BodyInv
<1>2. /\ IInv /\ ServedInv /\ StreamInv /\ BodyInv /\ [Next]_vars
      => ServedInv' /\ StreamInv' /\ BodyInv'
    BY ServedStep, StreamStep, BodyStep
<1>3. QED
    BY <1>1, <1>2, InductiveInvariant, PTL DEF Spec

(* cost::compute as the handler calls it on Ok(upstream): the usage that a *)
(* connector has read is charged with the answer, at the price of the      *)
(* provider and the model that the request was last sent to, whatever      *)
(* routes were passed over before, and nothing changes the charge after.   *)
THEOREM AnswersArePriced == Spec => []ReadIsCharged
<1>1. ServedInv => ReadIsCharged
    BY DEF ServedInv
<1>2. QED
    BY <1>1, ExchangeInvariant, PTL

(* What a client gets of a stream is a beginning of the response that the  *)
(* provider's events stand for, and all of it when the stream ends: the    *)
(* parser's buffer, the adapter's queue and its flags lose, repeat and     *)
(* reorder nothing, wherever the provider's bytes are cut.                 *)
THEOREM ResponseIsForwarded == Spec => []ForwardedIsTheResponse
    BY StreamSafe, ExchangeInvariant, PTL

(* The observer charges the first usage that the client has got whole, and *)
(* as soon as it has: however the stream is cut, adapted or broken off.    *)
THEOREM ForwardedIsCharged == Spec => []ChargedForWhatWasForwarded
    BY StreamSafe, ExchangeInvariant, PTL

(* Whatever is charged, for a stream too, is the price of token counts at  *)
(* the provider and the model that the request was last sent to, whatever  *)
(* routes were passed over; nothing is charged for what was not sent.      *)
THEOREM ChargesArePriced == Spec => []PricedAsServed
    BY Priced, ExchangeInvariant, PTL

(* The types of the registry's, the connectors' and the stream's state.    *)
THEOREM TypeCorrect == Spec => []TypeOK
    BY TypesOK, ExchangeInvariant, PTL
=============================================================================

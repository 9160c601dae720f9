----------------------------- MODULE Connectors -----------------------------
(***************************************************************************)
(* The four provider connectors (provider.rs, provider/openai.rs,          *)
(* azure.rs, anthropic.rs, bedrock.rs): what each makes of a request       *)
(* before it is sent, of the head of the provider's response and of its    *)
(* body.                                                                   *)
(*                                                                         *)
(* Data abstraction: a request is what the connectors tell apart in it; a  *)
(* provider's body is its kind and the token counts it reports.            *)
(***************************************************************************)
EXTENDS Sse

CONSTANTS
    Statuses,   \* HTTP statuses that providers answer with
    Tokens,     \* token counts that they report
    Pricing     \* provider -> upstream model -> [input, output], price of a token

ASSUME ConnectorsAssumption ==
    /\ Statuses \subseteq Nat /\ Tokens \subseteq Nat /\ None \notin Int
    /\ \A provider \in DOMAIN Pricing : \A model \in DOMAIN Pricing[provider] :
          Pricing[provider][model] \in [input : Int, output : Int]

Providers == {"openai", "azure", "anthropic", "bedrock"}

(* chat_schema: the body is one that OpenAiRequest accepts. *)
Request == [op : {"chat"}, stream : BOOLEAN, chat_schema : BOOLEAN]
             \cup [op : {"embeddings"}, stream : {FALSE}, chat_schema : BOOLEAN]

(* A provider's body: an answer or an error in the provider's own schema,  *)
(* or no JSON at all, which may be longer than 512 bytes with a character  *)
(* across that boundary.                                                   *)
Body ==
    [kind : {"answer"}, prompt : Tokens \cup {None}, completion : Tokens \cup {None}]
       \cup [kind : {"error", "text", "long text"}, prompt : {None}, completion : {None}]

Usage == [prompt : Nat, completion : Nat]

OrElse(option, default) == IF option = None THEN default ELSE option
-----------------------------------------------------------------------------
(* What a connector comes to: Err, a panic, or a ChatResponse, whose body  *)
(* has the OpenAI schema, is passed on as it is or is a stream.            *)
Err == [kind |-> "error"]
Panic == [kind |-> "panic"]

ChatResponse(status, provider, model, usage, body) ==
    [kind |-> "response", status |-> status, provider |-> provider, model |-> model,
     usage |-> usage, body |-> body, attempts |-> 1]

(* parse_openai_usage: no usage without a prompt count. *)
parse_openai_usage(body) ==
    IF body.prompt = None THEN None
    ELSE [prompt |-> body.prompt, completion |-> OrElse(body.completion, 0)]

(* The counts of an Anthropic answer, zero where there is none. *)
to_openai_usage(body) == [prompt |-> OrElse(body.prompt, 0), completion |-> OrElse(body.completion, 0)]

(* Cut at byte 512 of a text: a panic within a character. *)
to_openai_error(status, provider, model, body) ==
    IF body.kind = "long text" THEN Panic
    ELSE ChatResponse(status, provider, model, None, "openai")

(* Mutant: an answer that is no JSON is passed on. *)
to_openai_response_lenient(provider, model, body) ==
    ChatResponse(200, provider, model, to_openai_usage(body),
                 IF body.kind \in {"answer", "error"} THEN "openai" ELSE "raw")

to_openai_response(provider, model, body) ==
    IF body.kind \in {"text", "long text"} THEN Err
    ELSE ChatResponse(200, provider, model, to_openai_usage(body), "openai")
-----------------------------------------------------------------------------
(* Before anything is sent: the default Connector::embeddings, a body that *)
(* parse_openai_messages does not accept, a stream from Bedrock.           *)
Unsupported(provider, request) ==
    request.op = "embeddings" /\ provider \in {"anthropic", "bedrock"}

Unparsable(provider, request) ==
    /\ request.op = "chat"
    /\ \/ provider = "anthropic"
       \/ provider = "bedrock" /\ ~ request.stream
    /\ ~ request.chat_schema

NotStreamed(provider, request) == provider = "bedrock" /\ request.op = "chat" /\ request.stream

Refuses(provider, request) == Unsupported(provider, request) \/ Unparsable(provider, request)

Sends(provider, request) == ~ Refuses(provider, request) /\ ~ NotStreamed(provider, request)

(* The head of the response: is the body streamed to the client, or read   *)
(* by the connector?                                                       *)
PassesStream(provider, request, status) ==
    /\ request.stream
    /\ provider = "anthropic" => status = 200

(* The body is streamed by an adapter or passed through. *)
Streamed(provider, model, status) ==
    ChatResponse(status, provider, model, None,
                 IF provider = "anthropic" THEN "adapted" ELSE "passed through")

(* The body was read. *)
Finished(provider, model, status, body) ==
    CASE provider \in {"openai", "azure"} ->
            ChatResponse(status, provider, model, parse_openai_usage(body),
                         IF body.kind \in {"answer", "error"} THEN "openai" ELSE "raw")
      [] provider = "anthropic" /\ status # 200 -> to_openai_error(status, provider, model, body)
      [] provider = "bedrock" /\ status # 200   -> ChatResponse(status, provider, model, None, "raw")
      [] OTHER                                  -> to_openai_response(provider, model, body)
-----------------------------------------------------------------------------
(* cost::compute: None without a price. *)
compute(provider, model, usage) ==
    IF provider \notin DOMAIN Pricing THEN None
    ELSE IF model \notin DOMAIN Pricing[provider] THEN None
    ELSE usage.prompt * Pricing[provider][model].input
            + usage.completion * Pricing[provider][model].output
=============================================================================

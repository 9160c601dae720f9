------------------------------ MODULE Streams ------------------------------
(***************************************************************************)
(* The body of a streamed chat response on its way from the provider to    *)
(* the client: the Anthropic adapter, which turns Anthropic's events into  *)
(* OpenAI's (provider/anthropic.rs), or the pass-through of the OpenAI and *)
(* Azure connectors, and around either the observer that charges the usage *)
(* it sees go by (stream_observer.rs).                                     *)
(*                                                                         *)
(* The client's connection polls the observer, which polls the connector's *)
(* stream, which polls the provider's: one sequential task.  The provider  *)
(* cuts its bytes into chunks anywhere, may break off or hang, and the     *)
(* client may go away.  No timeout covers a body that is being streamed.   *)
(***************************************************************************)
EXTENDS Connectors

(***************************************************************************)
(* A body: adapted by the Anthropic adapter or not, one chunk that the     *)
(* gateway has made itself or the provider's, its events, and the lines    *)
(* that follow the last blank line.                                        *)
(***************************************************************************)
CONSTANT Scripts    \* the providers' bodies

LineType ==
    [field : {"event", "data", "comment"}, value : STRING, text : STRING \cup {None},
     prompt : Tokens \cup {0, None}, completion : Tokens \cup {0, None}]

Event == Seq(LineType) \ {<<>>}

Script == [adapted : BOOLEAN, whole : BOOLEAN, events : Seq(Event), rest : Seq(LineType)]

(* An event of Anthropic's has its name and one data: line, or is a line. *)
AnthropicEvent(event) ==
    \/ Len(event) = 1
    \/ Len(event) = 2 /\ event[1] = Name(event[1].value) /\ event[2].field = "data"

ASSUME StreamsAssumption ==
    /\ Scripts \subseteq Script
    /\ \A script \in Scripts :
          script.adapted => \A i \in 1..Len(script.events) : AnthropicEvent(script.events[i])
    /\ None \notin LineType \cup Usage

(* True of every string: stated for the provers, which do not know it. *)
ASSUME StringsAssumption == {"json", "[DONE]", "ping", "role", "finish"} \subseteq STRING

VARIABLES
    stream,     \* AnthropicStreamAdapter, or just the provider's stream
    observer,   \* UsageObservingStream
    client,     \* the bytes that the client has got
    charged     \* the cost that was recorded, or None

streamVars == <<stream, observer, client, charged>>

NoScript == [adapted |-> FALSE, whole |-> TRUE, events |-> <<>>, rest |-> <<>>]

(* A JSON body: of an error, or made by the gateway. *)
JsonBody(whole) == [adapted |-> FALSE, whole |-> whole, events |-> <<>>, rest |-> <<Comment>>]

Bytes(script) == Wire(script.events) \o Lines(script.rest)

AnthropicTransform_new == [prompt |-> 0, completion |-> 0]

Stream_new(script, pc) ==
    [pc |-> pc, script |-> script, read |-> 0,
     buffer |-> <<>>, transform |-> AnthropicTransform_new, pending |-> <<>>,
     upstream_done |-> FALSE, emitted_done |-> FALSE]

Observer_new(provider, model) ==
    [provider |-> provider, model |-> model, buffer |-> <<>>, found_usage |-> FALSE]

StreamTypeOK ==
    /\ stream.pc \in {"none", "open", "ended", "aborted"}
    /\ stream.script \in Scripts \cup {NoScript, JsonBody(TRUE), JsonBody(FALSE)}
    /\ stream.read \in 0..Len(Bytes(stream.script))
    /\ stream.upstream_done \in BOOLEAN /\ stream.emitted_done \in BOOLEAN
    /\ stream.transform \in Usage
    /\ observer.found_usage \in BOOLEAN
    /\ charged \in Int \cup {None}

StreamInit ==
    /\ stream = Stream_new(NoScript, "none")
    /\ observer = Observer_new(None, None)
    /\ client = <<>>
    /\ charged = None

(* The response of a provider goes out, and its body with it. *)
Open(script, provider, model) ==
    /\ stream' = Stream_new(script, "open")
    /\ observer' = Observer_new(provider, model)
    /\ client' = <<>>
    /\ charged' = None
-----------------------------------------------------------------------------
(***************************************************************************)
(* The observer: it forwards a chunk, and reads it until it has found      *)
(* usage once.                                                             *)
(***************************************************************************)
parse_chunk_usage(event) ==
    LET payload == Payload(event)
    IN  IF payload = None THEN None
        ELSE IF payload.prompt = None \/ payload.completion = None THEN None
        ELSE [prompt |-> payload.prompt, completion |-> payload.completion]

CostOf(event) == compute(observer.provider, observer.model, parse_chunk_usage(event))

(* Mutant: the observer goes on after it has found usage. *)
Forward_every_usage(bytes) ==
    \E seen \in {pulled(feed(observer.buffer, bytes))} :
        LET usages == {k \in 1..Len(seen.events) : parse_chunk_usage(seen.events[k]) # None}
        IN  /\ client' = client \o bytes
            /\ observer' = [observer EXCEPT !.buffer = seen.buffer, !.found_usage = usages # {}]
            /\ charged' = IF usages = {} THEN charged ELSE CostOf(seen.events[Max(usages)])

Forward(bytes) ==
    /\ client' = client \o bytes
    /\ IF observer.found_usage THEN UNCHANGED <<observer, charged>>
       ELSE \E seen \in {pulled(feed(observer.buffer, bytes))} :
                LET usages == {k \in 1..Len(seen.events) : parse_chunk_usage(seen.events[k]) # None}
                IN  /\ observer' = [observer EXCEPT
                                      !.buffer = IF usages = {} THEN seen.buffer ELSE <<>>,
                                      !.found_usage = usages # {}]
                    /\ charged' = IF usages = {} THEN charged ELSE CostOf(seen.events[Min(usages)])
-----------------------------------------------------------------------------
(***************************************************************************)
(* The Anthropic adapter.                                                  *)
(***************************************************************************)
chunk(text) == <<Json(text, None, None)>>
usage_chunk(transform) == <<Json(None, transform.prompt, transform.completion)>>
DONE_MARKER == <<Data("[DONE]")>>

(* AnthropicTransform::process: what an event adds to the output. *)
process(transform, event) ==
    LET payload == Payload(event)
        counted == [transform EXCEPT !.completion = OrElse(payload.completion, @)]
        started == [transform EXCEPT !.prompt = OrElse(payload.prompt, @)]
    IN  IF payload = None THEN [transform |-> transform, out |-> <<>>]
        ELSE CASE event.event = "message_start" ->
                    [transform |-> started, out |-> <<chunk("role")>>]
               [] event.event = "content_block_delta" /\ payload.text # None ->
                    [transform |-> transform, out |-> <<chunk(payload.text)>>]
               [] event.event = "message_delta" ->
                    [transform |-> counted, out |-> <<chunk("finish"), usage_chunk(counted)>>]
               [] OTHER -> [transform |-> transform, out |-> <<>>]

processed(transform, events) ==
    LET add(state, event) ==
            LET step == process(state.transform, event)
            IN  [transform |-> step.transform, out |-> state.out \o step.out]
        made[k \in 0..Len(events)] ==
            IF k = 0 THEN [transform |-> transform, out |-> <<>>] ELSE add(made[k - 1], events[k])
    IN  made[Len(events)]
-----------------------------------------------------------------------------
(***************************************************************************)
(* poll_next, one action per way that it can go.                           *)
(***************************************************************************)
upstream == Bytes(stream.script)

(* The provider's stream is polled: not while something is pending. *)
Polling ==
    /\ stream.pc = "open"
    /\ stream.pending = <<>>
    /\ ~ stream.upstream_done

Arrives(n) == stream.script.whole => n = Len(upstream)

(* Mutant: every chunk is parsed by itself. *)
ReadChunk_by_itself(n) ==
    LET bytes == SubSeq(upstream, stream.read + 1, stream.read + n)
    IN  /\ Polling /\ Arrives(n)
        /\ IF stream.script.adapted
           THEN /\ \E seen \in {pulled(feed(<<>>, bytes))} :
                       LET made == processed(stream.transform, seen.events)
                       IN  stream' = [stream EXCEPT !.read = @ + n, !.buffer = seen.buffer,
                                         !.transform = made.transform, !.pending = made.out]
                /\ UNCHANGED <<observer, client, charged>>
           ELSE /\ stream' = [stream EXCEPT !.read = @ + n]
                /\ Forward(bytes)

ReadChunk(n) ==
    LET bytes == SubSeq(upstream, stream.read + 1, stream.read + n)
    IN  /\ Polling /\ Arrives(n)
        /\ IF stream.script.adapted
           THEN /\ \E seen \in {pulled(feed(stream.buffer, bytes))} :
                       LET made == processed(stream.transform, seen.events)
                       IN  stream' = [stream EXCEPT !.read = @ + n, !.buffer = seen.buffer,
                                         !.transform = made.transform, !.pending = made.out]
                /\ UNCHANGED <<observer, client, charged>>
           ELSE /\ stream' = [stream EXCEPT !.read = @ + n]
                /\ Forward(bytes)

EmitPending ==
    /\ stream.pc = "open"
    /\ stream.pending # <<>>
    /\ stream' = [stream EXCEPT !.pending = Tail(@)]
    /\ Forward(Encoded(Head(stream.pending)))

(* The provider's stream ends; without an adapter, so does the response. *)
UpstreamEnd ==
    /\ Polling
    /\ stream.read = Len(upstream)
    /\ stream' = IF stream.script.adapted THEN [stream EXCEPT !.upstream_done = TRUE]
                 ELSE [stream EXCEPT !.pc = "ended"]
    /\ UNCHANGED <<observer, client, charged>>

(* Mutant: the end waits for the rest of an event that will not come. *)
EmitDone_once_empty ==
    /\ stream.pc = "open"
    /\ stream.upstream_done /\ stream.pending = <<>>
    /\ stream.buffer = <<>>
    /\ ~ stream.emitted_done
    /\ stream' = [stream EXCEPT !.emitted_done = TRUE]
    /\ Forward(Encoded(DONE_MARKER))

EmitDone ==
    /\ stream.pc = "open"
    /\ stream.upstream_done /\ stream.pending = <<>>
    /\ ~ stream.emitted_done
    /\ stream' = [stream EXCEPT !.emitted_done = TRUE]
    /\ Forward(Encoded(DONE_MARKER))

End ==
    /\ stream.pc = "open"
    /\ stream.emitted_done
    /\ stream' = [stream EXCEPT !.pc = "ended"]
    /\ UNCHANGED <<observer, client, charged>>

(* The provider breaks off, and the connection to the client with it. *)
UpstreamError ==
    /\ Polling
    /\ ~ stream.script.whole
    /\ stream' = [stream EXCEPT !.pc = "aborted"]
    /\ UNCHANGED <<observer, client, charged>>

(* The client goes away: the body is dropped. *)
Disconnect ==
    /\ stream.pc = "open"
    /\ stream' = [stream EXCEPT !.pc = "aborted"]
    /\ UNCHANGED <<observer, client, charged>>

(* What the gateway does by itself, for a client that reads. *)
Emit == EmitPending \/ EmitDone \/ End

StreamNext ==
    \/ \E n \in 1..Len(upstream) - stream.read : ReadChunk(n)
    \/ Emit
    \/ UpstreamEnd
    \/ UpstreamError
    \/ Disconnect
-----------------------------------------------------------------------------
(***************************************************************************)
(* Properties, stated on the events of the script, whatever the chunks.    *)
(***************************************************************************)

(* The events that a parser can get at: those before the first one that is *)
(* not UTF-8, where it stops for good.                                     *)
Readable(events) ==
    LET stuck == {i \in 1..Len(events) : ~ IsUtf8(Encoded(events[i]))}
    IN  IF stuck = {} THEN events ELSE SubSeq(events, 1, Min(stuck) - 1)

(* The counts that are known after the first k events: the last of each. *)
KnownAfter(events, k) ==
    LET told(name) == {i \in 1..k : /\ Len(events[i]) = 2 /\ events[i][1] = Name(name)
                                    /\ events[i][2].value = "json"}
        starts == {i \in told("message_start") : events[i][2].prompt # None}
        deltas == {i \in told("message_delta") : events[i][2].completion # None}
    IN  [prompt     |-> IF starts = {} THEN 0 ELSE events[Max(starts)][2].prompt,
         completion |-> IF deltas = {} THEN 0 ELSE events[Max(deltas)][2].completion]

Translation(events, k) ==
    LET name    == events[k][1].value
        payload == Last(events[k])
    IN  IF payload.value # "json" THEN <<>>
        ELSE CASE name = "message_start"           -> <<chunk("role")>>
               [] name = "content_block_delta"     ->
                     IF payload.text = None THEN <<>> ELSE <<chunk(payload.text)>>
               [] name = "message_delta"           ->
                     <<chunk("finish"), usage_chunk(KnownAfter(events, k))>>
               [] OTHER                            -> <<>>

(* The response that a script stands for: an adapted one has no rest. *)
ResponseTo(script) ==
    IF script.adapted
    THEN LET events == Readable(script.events)
         IN  FlattenSeq([k \in 1..Len(events) |-> Translation(events, k)]) \o <<DONE_MARKER>>
    ELSE script.events

ResponseBytes(script) ==
    Wire(ResponseTo(script)) \o (IF script.adapted THEN <<>> ELSE Lines(script.rest))

(* Chunk boundaries do not matter: what the client has got is a beginning  *)
(* of the response that the provider's events stand for, translated event  *)
(* by event, and a response that ends is the whole of it, with one [DONE]  *)
(* at its end.  (SseParser's buffer, the adapter's pending queue and its   *)
(* two flags.)                                                             *)
ForwardedIsTheResponse ==
    LET response == ResponseBytes(stream.script)
    IN  stream.pc # "none" =>
            /\ IsPrefix(client, response)
            /\ stream.pc = "ended" => client = response

(* The usage that is charged is that of the first usage event the client   *)
(* has got whole, and is charged when it has: never twice for a stream     *)
(* that repeats it, never for one that broke off before, wherever the      *)
(* chunks are cut.  Nothing is charged after an event that is not UTF-8,   *)
(* nor for one that lacks its blank line.  (UsageObservingStream, which    *)
(* proxy.rs puts around every streamed body.  The connectors' comments     *)
(* that usage of streams is "not yet recorded" are older than it.)         *)
ChargedForWhatWasForwarded ==
    LET response == Readable(ResponseTo(stream.script))
        usage(k) == parse_chunk_usage(parse(Encoded(response[k])))
        got      == {k \in 1..Len(response) :
                        /\ Len(Wire(SubSeq(response, 1, k))) <= Len(client)
                        /\ usage(k) # None}
    IN  stream.pc # "none" =>
            charged = IF got = {} THEN None
                      ELSE compute(observer.provider, observer.model, usage(Min(got)))

(* What the adapter has from the provider gets to the client that reads,   *)
(* and a body whose provider has ended ends: poll_next does not wait for   *)
(* an event that is cut off or cannot be decoded.                          *)
NothingStaysPending ==
    stream.pc = "open" /\ (stream.pending # <<>> \/ stream.upstream_done)
        ~> stream.pc # "open" \/ (stream.pending = <<>> /\ ~ stream.upstream_done)
=============================================================================

-------------------------------- MODULE Sse --------------------------------
(***************************************************************************)
(* SseParser (sse.rs), the parser of server-sent events that the Anthropic *)
(* adapter and the usage observer share, and the events of a streamed chat *)
(* as bytes.                                                               *)
(*                                                                         *)
(* Data abstraction: a line is a record, and its bytes are its two halves, *)
(* so that a chunk may end within a line and within a character of it; the *)
(* line end is a byte of its own, so that a chunk may end within the blank *)
(* line that ends an event.                                                *)
(***************************************************************************)
EXTENDS Integers, Sequences, SequencesExt

CONSTANT None       \* Rust's Option::None

(* A line: its field, its value (the name of an event; what a data line    *)
(* holds: "json", another text, or bytes that are no text), and what the   *)
(* gateway reads in the JSON.                                              *)
Line(field, value, text, prompt, completion) ==
    [field |-> field, value |-> value, text |-> text, prompt |-> prompt, completion |-> completion]

Json(text, prompt, completion) == Line("data", "json", text, prompt, completion)
Data(value) == Line("data", value, None, None, None)
Name(value) == Line("event", value, None, None, None)
Comment == Line("comment", "ping", None, None, None)

Byte(line, half) == [line |-> line, half |-> half]
Newline == Byte(Line("end", "", None, None, None), 0)

(* Two halves and an end for each line. *)
Lines(lines) ==
    [i \in 1..3 * Len(lines) |->
        IF i % 3 = 0 THEN Newline ELSE Byte(lines[(i + 2) \div 3], i % 3)]

(* The bytes of an event: its lines, each with its end, and a blank line. *)
Encoded(lines) == Lines(lines) \o <<Newline>>

Wire(events) == FlattenSeq([i \in 1..Len(events) |-> Encoded(events[i])])
-----------------------------------------------------------------------------
(* std::str::from_utf8 succeeds: no half of a line is alone, and no line   *)
(* is anything but text.                                                   *)
IsUtf8(bytes) ==
    \A i \in 1..Len(bytes) :
        /\ bytes[i].line.value # "not utf-8"
        /\ bytes[i].half = 1 => i < Len(bytes) /\ bytes[i + 1] = Byte(bytes[i].line, 2)
        /\ bytes[i].half = 2 => i > 1 /\ bytes[i - 1] = Byte(bytes[i].line, 1)

feed(buffer, bytes) == buffer \o bytes

(* The last event: line names the event; the data: lines, by where they    *)
(* are, are its data.                                                      *)
parse(text) ==
    LET at(field) == {i \in 1..Len(text) : text[i].half = 1 /\ text[i].line.field = field}
    IN  [event |-> IF at("event") = {} THEN "" ELSE text[Max(at("event"))].line.value,
         data  |-> [i \in at("data") |-> text[i].line]]

Delimiters(buffer) ==
    {i \in 1..Len(buffer) - 1 : buffer[i] = Newline /\ buffer[i + 1] = Newline}

(* SseParser::next_event: the event up to the first blank line, if there   *)
(* is one, leaves the buffer, unless it is not UTF-8: then nothing does.   *)
next_event(buffer) ==
    LET ends == Delimiters(buffer)
        pos  == Min(ends)
    IN  IF ends = {} \/ ~ IsUtf8(SubSeq(buffer, 1, pos - 1))
        THEN [event |-> <<>>, buffer |-> buffer]
        ELSE [event |-> <<parse(SubSeq(buffer, 1, pos - 1))>>,
              buffer |-> SubSeq(buffer, pos + 2, Len(buffer))]

(* while let Some(event) = parser.next_event(): the events of a buffer and *)
(* what is left of it, by what the last n bytes come to.                   *)
pulled(buffer) ==
    LET last[n \in 0..Len(buffer)] ==
            LET step == next_event(SubSeq(buffer, Len(buffer) - n + 1, Len(buffer)))
            IN  IF step.event = <<>> THEN [events |-> <<>>, buffer |-> step.buffer]
                ELSE [events |-> step.event \o last[Len(step.buffer)].events,
                      buffer |-> last[Len(step.buffer)].buffer]
    IN  last[Len(buffer)]

(* serde_json::from_str on the data of an event. *)
Payload(event) ==
    LET json == {i \in DOMAIN event.data : DOMAIN event.data = {i} /\ event.data[i].value = "json"}
    IN  IF json = {} THEN None ELSE event.data[Min(json)]
=============================================================================

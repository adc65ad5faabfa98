--------------------------------- MODULE Wire ---------------------------------
(* The wire format (mcp-wire): the incremental SSE decoder, which is fed    *)
(* with chunks of text; the guard against deeply nested JSON; and the four  *)
(* shapes of a JSON-RPC message.                                            *)
EXTENDS Naturals, Sequences, FiniteSets, SequencesExt

CONSTANTS MaxText, MaxChunk     \* bounds of the model

VARIABLES
    text,       \* what the decoder has been fed with
    decoder,
    document    \* a JSON text and how deep it is nested

wireVars == <<text, decoder, document>>

-----------------------------------------------------------------------------
(* Server-sent events.  "data:" and "event:" stand for the field's name with *)
(* the colon and the blank after it, "x" for any other text; a line that     *)
(* begins with "x" is a comment or has another field.  `id` is treated as    *)
(* `event` is.                                                               *)

Token == {"data:", "event:", "x", "LF", "CR"}
Unnamed == <<"none">>

New == [buffer |-> <<>>, event |-> Unnamed, data |-> <<>>, events |-> <<>>]

\* A blank line ends the event; one without data is dropped.
Dispatch(d) ==
    [d EXCEPT !.events = IF d.data = <<>> THEN @ ELSE Append(@, [event |-> d.event, data |-> d.data]),
              !.event = Unnamed, !.data = <<>>]

ApplyLine(d, line) ==
    IF Head(line) = "data:" THEN [d EXCEPT !.data = Append(@, Tail(line))]
    ELSE IF Head(line) = "event:" THEN [d EXCEPT !.event = Tail(line)]
    ELSE d

Trimmed(line) == IF line # <<>> /\ Last(line) = "CR" THEN Front(line) ELSE line
First(S, s) == CHOOSE i \in DOMAIN s : s[i] \in S /\ \A j \in 1 .. i - 1 : s[j] \notin S

TakeLine(d) ==
    LET end  == First({"LF"}, d.buffer)
        line == Trimmed(SubSeq(d.buffer, 1, end - 1))
        rest == [d EXCEPT !.buffer = SubSeq(@, end + 1, Len(@))]
    IN IF line = <<>> THEN Dispatch(rest) ELSE ApplyLine(rest, line)

\* As long as there is a line feed in the buffer.
Drain(d) ==
    LET lines == Cardinality({i \in DOMAIN d.buffer : d.buffer[i] = "LF"})
        after[n \in 0 .. lines] == IF n = 0 THEN d ELSE TakeLine(after[n - 1])
    IN after[lines]

\* A decoder that trims what it has rather than the line.
FeedTrimming(d, chunk) == Drain([d EXCEPT !.buffer = Trimmed(@ \o chunk)])
Feed(d, chunk) == Drain([d EXCEPT !.buffer = @ \o chunk])

\* str::split: one line more than there are line feeds.
SplitLines(s) ==
    LET Next(lines, c) == IF c = "LF" THEN Append(lines, <<>>) ELSE [lines EXCEPT ![Len(lines)] = Append(@, c)]
    IN FoldLeft(Next, << <<>> >>, s)

FirstLine(s) ==
    IF Contains(s, "LF") \/ Contains(s, "CR") THEN SubSeq(s, 1, First({"LF", "CR"}, s) - 1) ELSE s

EncodeSseEvent(e) ==
    (IF e.event = Unnamed THEN <<>> ELSE <<"event:">> \o FirstLine(e.event) \o <<"LF">>)
    \o FlattenSeq([k \in DOMAIN SplitLines(e.data) |-> <<"data:">> \o SplitLines(e.data)[k] \o <<"LF">>])
    \o <<"LF">>

-----------------------------------------------------------------------------
(* The nesting guard: a scan of the bytes, with brackets in strings skipped. *)

None == [text |-> <<>>, depth |-> 0]
Start == [depth |-> 0, deepest |-> 0, in_string |-> FALSE, escaped |-> FALSE]

Scan(s, byte) ==
    IF s.in_string THEN
        [s EXCEPT !.escaped = ~@ /\ byte = "backslash", !.in_string = s.escaped \/ byte # "quote"]
    ELSE [s EXCEPT !.in_string = byte = "quote",
                   !.depth = IF byte = "open" THEN @ + 1 ELSE IF byte = "close" /\ @ > 0 THEN @ - 1 ELSE @,
                   !.deepest = IF byte = "open" /\ s.depth = @ THEN @ + 1 ELSE @]

ExceedsMaxNesting(bytes, max_depth) == FoldLeft(Scan, Start, bytes).deepest > max_depth

\* JSON texts and how deep they are nested: scalars, strings with brackets and
\* escapes, and two levels of objects around them.
Text(t, depth) == [text |-> t, depth |-> depth]
Piece == {<<"open">>, <<"close">>, <<"x">>, <<"backslash", "quote">>, <<"backslash", "backslash">>}
Scalar == {Text(<<"x">>, 0)} \union {Text(<<"quote">> \o p \o q \o <<"quote">>, 0) : p, q \in Piece \union {<<>>}}
Within(S) ==
    {Text(<<"open", "close">>, 1)}
    \union {Text(<<"open">> \o d.text \o <<"x">> \o e.text \o <<"close">>,
                 1 + IF d.depth > e.depth THEN d.depth ELSE e.depth) : d, e \in S}
Nested == Within(Scalar) \union Within({Text(<<"x">>, 0)} \union Within({Text(<<"x">>, 0)} \union
              {Text(<<"quote", "backslash", "quote", "open", "quote">>, 0)}))

-----------------------------------------------------------------------------
(* JSON-RPC messages.  An object is a function from its fields to the shapes *)
(* of their values; "int" is an integer of 64 bits, "number" any other.      *)

Shape == {"2.0", "string", "int", "number", "null", "object"}
Field(o, f) == IF f \in DOMAIN o THEN o[f] ELSE "absent"

ParseId(shape) == shape \in {"int", "string", "2.0"}
Invalid == [kind |-> "invalid", id |-> "absent"]

DecodeRequestOrNotification(o) ==
    IF o.method \notin {"string", "2.0"} THEN Invalid
    ELSE IF Field(o, "id") = "absent" THEN [kind |-> "notification", id |-> "absent"]
    ELSE IF ParseId(o.id) THEN [kind |-> "request", id |-> o.id]
    ELSE Invalid

\* An error whose request could not be read has the id null, a result never has.
DecodeResponse(o) ==
    LET has(f) == f \in DOMAIN o
        id == Field(o, "id")
    IN IF has("result") = has("error") THEN Invalid
       ELSE IF has("result") THEN (IF ParseId(id) THEN [kind |-> "success", id |-> id] ELSE Invalid)
       ELSE IF (ParseId(id) \/ id = "null") /\ o.error = "object" THEN [kind |-> "error", id |-> id]
       ELSE Invalid

DecodeValue(o) ==
    IF Field(o, "jsonrpc") # "2.0" THEN Invalid
    ELSE IF "method" \in DOMAIN o THEN DecodeRequestOrNotification(o)
    ELSE DecodeResponse(o)

\* What the four message types serialise to.
Success(id) == [jsonrpc |-> "2.0", id |-> id, result |-> "object"]
Error(id) == [jsonrpc |-> "2.0", id |-> id, error |-> "object"]

-----------------------------------------------------------------------------

WireInit ==
    /\ text = <<>>
    /\ decoder = New
    /\ document = None

Chunk == UNION {[1 .. n -> Token] : n \in 1 .. MaxChunk}
Receive(chunk) ==
    /\ Len(text) + Len(chunk) <= MaxText
    /\ text' = text \o chunk
    /\ decoder' = Feed(decoder, chunk)
    /\ UNCHANGED document

Read(d) ==
    /\ text = <<>> /\ document = None
    /\ document' = d
    /\ UNCHANGED <<text, decoder>>

WireNext == (\E chunk \in Chunk : document = None /\ Receive(chunk)) \/ (\E d \in Nested : Read(d))

WireSpec == WireInit /\ [][WireNext]_wireVars

-----------------------------------------------------------------------------
(* Properties.                                                             *)

\* However the text is cut into chunks, the events are the ones that its blank
\* lines delimit: the data of the lines since the previous blank line, under the
\* last name they give.  A chunk may end between a CR and its LF.
Decoded(t) ==
    LET lines == [k \in DOMAIN SplitLines(t) |-> Trimmed(SplitLines(t)[k])]
        blank == {k \in DOMAIN lines : k < Len(lines) /\ lines[k] = <<>>}
        block(k) == SelectSeq(SubSeq(lines, 1 + (IF \E j \in blank : j < k THEN
                                  CHOOSE j \in blank : j < k /\ \A i \in blank : i < k => i <= j ELSE 0), k - 1),
                              LAMBDA l : Head(l) \in {"data:", "event:"})
        values(k, field) == LET has == SelectSeq(block(k), LAMBDA l : Head(l) = field)
                            IN [i \in DOMAIN has |-> Tail(has[i])]
        event(k) == [event |-> IF values(k, "event:") = <<>> THEN Unnamed ELSE Last(values(k, "event:")),
                     data |-> values(k, "data:")]
        full == SelectSeq([k \in DOMAIN lines |-> k], LAMBDA k : k \in blank /\ values(k, "data:") # <<>>)
    IN [i \in DOMAIN full |-> event(full[i])]

ChunksDoNotMatter == decoder.events = Decoded(text)

\* Any text can be sent as the data or the name of an event, and is decoded as
\* one event: the data arrives but for a CR at the end of a line, of the name
\* its first line.
EncodedEventArrives ==
    Feed(New, EncodeSseEvent([event |-> text, data |-> text])).events =
        <<[event |-> FirstLine(text),
           data  |-> [k \in DOMAIN SplitLines(text) |-> Trimmed(SplitLines(text)[k])]]>>

\* The guard against deep nesting refuses a JSON text exactly if its brackets
\* nest deeper than the limit, whatever its strings hold.
NestingIsExact ==
    \A limit \in 0 .. 3 : ExceedsMaxNesting(document.text, limit) <=> document.depth > limit

\* The decoder finds exactly the events of a text, in whatever chunks it comes
\* and whatever they contain, and the guard against deep nesting refuses what it
\* should and nothing else.  (json_payload feeds it one whole body and goes on
\* with the first event only: that use of it is not modelled.)
DecodesExactly == ChunksDoNotMatter /\ EncodedEventArrives /\ NestingIsExact
==============================================================================

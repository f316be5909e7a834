---------------------------- MODULE AnswerStream ----------------------------
(* The way of an answer from the sampled bytes to the client, streamed and  *)
(* as a whole: Utf8Util::StreamBuffer in the engine, the opener the worker  *)
(* adds, ResponsesDeltaFilter and the frames of stream_responses, and, once *)
(* the turn is done, split_thinking_channel, responses_visible_text and the *)
(* terminal events.  A byte is a string: the rest of a tag's name counts as *)
(* one byte, and a code point outside ASCII is "E" with two "c" behind it.  *)
EXTENDS ResponsesItems

CONSTANTS
    MaxWords,   \* bound: words of an answer
    MaxPiece    \* bound: bytes of one token

VARIABLES
    text,       \* the bytes the model will sample if nothing stops it
    opened,     \* the template opened <think> in the prompt
    at,         \* bytes sampled so far
    utf8,       \* StreamBuffer::buf_
    piped,      \* the worker has pushed something
    filter,     \* ResponsesDeltaFilter
    shown,      \* the deltas written so far, appended
    announced,  \* types of the items announced by output_item.added
    done,       \* types of the items completed by output_item.done
    result,     \* the result behind the terminal events
    end         \* "open", then the last event, or "dropped"

streamVars == <<text, opened, at, utf8, piped, filter, shown, announced, done,
                result, end>>

(* Both DeepSeek markers look alike here: one stands for the two.           *)
Think     == [start |-> <<"<", "think">>, end |-> <<"<", "/", "think">>]
ToolCall  == [start |-> <<"<", "call", ">">>, end |-> <<"<", "/", "call", ">">>]
ToolCalls == [start |-> <<"<", "call", "s>">>, end |-> <<"<", "/", "call", "s>">>]
DeepSeek  == [start |-> <<"<", "E", "c", "c", "begin">>,
              end |-> <<"<", "E", "c", "c", "end">>]
Devstral  == [start |-> <<"[", "TOOL_CALLS">>, end |-> <<>>]

Tools   == {ToolCall, ToolCalls, DeepSeek, Devstral}
Markers == Tools \cup {Think}

CodePoint == <<"E", "c", "c">>

(* Words an answer is made of. *)
Words == {<<"a">>, CodePoint, <<"<">>} \cup {m.start : m \in Markers}
         \cup {m.end : m \in Markers \ {Devstral}}

-----------------------------------------------------------------------------
(* utf8_stream.hpp *)
LookBack == 4

Width(byte) == IF byte = "E" THEN 3 ELSE 1

CompletePrefixLen(s) ==
    LET behind == {i \in 1..LookBack : i <= Len(s) /\ s[Len(s) + 1 - i] # "c"}
        i == CHOOSE n \in behind : \A m \in behind : n <= m
    IN  IF behind = {} THEN 0
        ELSE IF i < Width(s[Len(s) + 1 - i]) THEN Len(s) - i
        ELSE Len(s)

Complete(s) == SubSeq(s, 1, CompletePrefixLen(s))

After(s, n) == SubSeq(s, n + 1, Len(s))

-----------------------------------------------------------------------------
(* ResponsesDeltaFilter: a filter is [mode, toolEnd, pending], a drained    *)
(* one also has the delta that came out, [reasoning, text].                 *)
HasAt(s, p, marker) == SubSeq(s, p + 1, p + Len(marker)) = marker

Finds(s, marker) == {p \in 0..(Len(s) - Len(marker)) : HasAt(s, p, marker)}

First(positions) == CHOOSE p \in positions : \A q \in positions : p <= q

(* The longest end of s that may be the begin of a marker. *)
MostHeld_OneShort(m) == Len(m) - 2

MostHeld(m) == Len(m) - 1

HoldSuffix(s, markers) ==
    LET held == {n \in 0..Len(s) : n = 0 \/ \E m \in markers :
                    n <= MostHeld(m) /\ After(s, Len(s) - n) = SubSeq(m, 1, n)}
    IN  CHOOSE n \in held : \A k \in held : k <= n

Nothing == [reasoning |-> <<>>, text |-> <<>>]

NewFilter == [mode |-> "Text", toolEnd |-> <<>>, pending |-> <<>>]

Drained(mode, toolEnd, pending, delta) ==
    [mode |-> mode, toolEnd |-> toolEnd, pending |-> pending, delta |-> delta]

EarliestMarker(s) ==
    LET hits == {m \in Markers : Finds(s, m.start) # {}}
    IN  {m \in hits : \A n \in hits :
             First(Finds(s, m.start)) <= First(Finds(s, n.start))}

RECURSIVE Drain(_, _, _)
Drain(f, delta, flush) ==
    LET s == f.pending
        keep(markers) == IF flush THEN 0 ELSE HoldSuffix(s, markers)
        out(markers)  == SubSeq(s, 1, Len(s) - keep(markers))
        rest(markers) == After(s, Len(s) - keep(markers))
        next(mode) == IF flush THEN "Text" ELSE mode
    IN  CASE f.mode = "Text" /\ EarliestMarker(s) # {} ->
                 LET m == CHOOSE m \in EarliestMarker(s) : TRUE
                     p == First(Finds(s, m.start))
                     rem == After(s, p + Len(m.start))
                     mode == IF m = Think THEN "Reasoning" ELSE "Tool"
                 IN  Drain([mode |-> mode, pending |-> rem,
                            toolEnd |-> IF m = Think THEN f.toolEnd ELSE m.end],
                           [delta EXCEPT !.text = @ \o SubSeq(s, 1, p)], flush)
          [] f.mode = "Text" /\ EarliestMarker(s) = {} ->
                 LET starts == {m.start : m \in Markers}
                 IN  Drained("Text", f.toolEnd, rest(starts),
                             [delta EXCEPT !.text = @ \o out(starts)])
          [] f.mode = "Reasoning" /\ Finds(s, Think.end) # {} ->
                 LET p == First(Finds(s, Think.end))
                 IN  Drain([f EXCEPT !.mode = "Text",
                                     !.pending = After(s, p + Len(Think.end))],
                           [delta EXCEPT !.reasoning = @ \o SubSeq(s, 1, p)],
                           flush)
          [] f.mode = "Reasoning" /\ Finds(s, Think.end) = {} ->
                 Drained(next("Reasoning"), f.toolEnd, rest({Think.end}),
                         [delta EXCEPT !.reasoning = @ \o out({Think.end})])
          [] f.mode = "Tool" /\ f.toolEnd = <<>> ->
                 Drained(next("Tool"), <<>>, <<>>, delta)
          [] f.mode = "Tool" /\ f.toolEnd # <<>> /\ Finds(s, f.toolEnd) # {} ->
                 LET p == First(Finds(s, f.toolEnd))
                 IN  Drain([mode |-> "Text", toolEnd |-> <<>>,
                            pending |-> After(s, p + Len(f.toolEnd))],
                           delta, flush)
          [] OTHER ->
                 Drained(next("Tool"), IF flush THEN <<>> ELSE f.toolEnd,
                         rest({f.toolEnd}), delta)

Feed(f, piece) == Drain([f EXCEPT !.pending = @ \o piece], Nothing, FALSE)

Finish(f) == Drain(f, Nothing, TRUE)

FilterOf(drained) ==
    [mode |-> drained.mode, toolEnd |-> drained.toolEnd,
     pending |-> drained.pending]

ResponsesVisibleText(raw) ==
    LET head == Feed(NewFilter, raw)
    IN  head.delta.text \o Finish(FilterOf(head)).delta.text
-----------------------------------------------------------------------------
(* split_thinking_channel, with the tags spelled as above.                  *)
NoneSplit == [visible |-> <<>>, reasoning |-> <<>>, closed |-> TRUE]

RECURSIVE SplitRest(_, _)
SplitRest(rest, out) ==
    LET p    == First(Finds(rest, Think.start))
        body == After(rest, p + Len(Think.start))
        c    == First(Finds(body, Think.end))
        kept == [out EXCEPT !.visible = @ \o SubSeq(rest, 1, p)]
        with(r) == IF out.reasoning = <<>> THEN r
                   ELSE out.reasoning \o <<"newline">> \o r
    IN  IF Finds(rest, Think.start) = {} THEN [out EXCEPT !.visible = @ \o rest]
        ELSE IF Finds(body, Think.end) = {}
        THEN [kept EXCEPT !.reasoning = with(body), !.closed = FALSE]
        ELSE SplitRest(After(body, c + Len(Think.end)),
                       [kept EXCEPT !.reasoning = with(SubSeq(body, 1, c))])

SplitThinkingChannel_IgnoresPrompt(s, inPrompt) == SplitRest(s, NoneSplit)

SplitThinkingChannel(s, inPrompt) ==
    LET c == First(Finds(s, Think.end))
    IN  IF ~inPrompt THEN SplitRest(s, NoneSplit)
        ELSE IF Finds(s, Think.end) = {}
        THEN [visible |-> <<>>, reasoning |-> s, closed |-> FALSE]
        ELSE SplitRest(After(s, c + Len(Think.end)),
                       [NoneSplit EXCEPT !.reasoning = SubSeq(s, 1, c)])

(* Whether a call is found in what is visible is the parser's choice here.  *)
Results(response) ==
    LET split == SplitThinkingChannel(response, opened)
        found == {<<>>} \cup (IF split.closed THEN {<<[name |-> <<"f">>, id |-> 0]>>}
                              ELSE {})
    IN  {[reasoning |-> split.reasoning, calls |-> calls,
          text |-> ResponsesVisibleText(split.visible)] : calls \in found}

(* nlohmann::json::dump throws on a text that ends inside a code point.     *)
Dumps(s) == CompletePrefixLen(s) = Len(s)

-----------------------------------------------------------------------------
AnswerTexts == {FlattenSeq(w) : w \in BoundedSeq(Words, MaxWords)}

Fresh ==
    /\ at = 0 /\ utf8 = <<>> /\ piped = FALSE
    /\ filter = NewFilter /\ shown = Nothing
    /\ announced = {} /\ done = {}
    /\ result = <<>> /\ end = "open"

StreamInit == text \in AnswerTexts /\ opened \in BOOLEAN /\ Fresh

(* The template's <think> is not sampled again: the worker repeats it once. *)
Opener == IF opened /\ ~piped THEN <<"<", "think", "newline">> ELSE <<>>

(* What the filter makes of the pieces the worker pushes for ready.         *)
Pushed(ready) ==
    LET first  == Feed(filter, Opener)
        second == Feed(FilterOf(first), ready)
        both == [reasoning |-> first.delta.reasoning \o second.delta.reasoning,
                 text |-> first.delta.text \o second.delta.text]
    IN  IF ready = <<>>
        THEN Drained(filter.mode, filter.toolEnd, filter.pending, Nothing)
        ELSE Drained(second.mode, second.toolEnd, second.pending, both)

Show(delta) ==
    /\ shown' = [reasoning |-> shown.reasoning \o delta.reasoning,
                 text |-> shown.text \o delta.text]
    /\ announced' = announced
           \cup (IF delta.reasoning = <<>> THEN {} ELSE {"reasoning"})
           \cup (IF delta.text = <<>> THEN {} ELSE {"message"})

(* The model samples a token of n bytes, and what is whole goes its way.    *)
Sample(n) ==
    /\ end = "open" /\ at + n <= Len(text)
    /\ LET buf == utf8 \o SubSeq(text, at + 1, at + n)
           ready == Complete(buf)
           drained == Pushed(ready)
       IN  /\ utf8' = After(buf, Len(ready))
           /\ piped' = (piped \/ ready # <<>>)
           /\ filter' = FilterOf(drained)
           /\ Show(drained.delta)
    /\ at' = at + n
    /\ UNCHANGED <<text, opened, done, result, end>>

(* The model stops, on its own or at max_tokens: StreamBuffer::flush, the   *)
(* result, finish, and the terminal events.  A frame that cannot be written *)
(* takes the connection with it, and the frames before it on the queue.     *)
Stop ==
    /\ end = "open"
    /\ \E r \in Results(SubSeq(text, 1, at)) :
          LET flushed == Pushed(Complete(utf8))
              last == Finish(FilterOf(flushed)).delta
          IN  /\ result' = <<r>>
              /\ IF Dumps(r.reasoning) /\ Dumps(r.text)
                 THEN /\ Show([reasoning |-> flushed.delta.reasoning \o last.reasoning,
                               text |-> flushed.delta.text \o last.text])
                      /\ done' = {item.type : item \in ToSet(OutputItems(r, <<>>))}
                      /\ end' = "response.completed"
                 ELSE /\ end' = "dropped"
                      /\ UNCHANGED <<shown, announced, done>>
    /\ utf8' = <<>>
    /\ filter' = NewFilter
    /\ UNCHANGED <<text, opened, at, piped>>

StreamNext == Stop \/ \E n \in 1..MaxPiece : Sample(n)

StreamSpec == StreamInit /\ [][StreamNext]_streamVars

-----------------------------------------------------------------------------
(* The reading of an answer byte by byte: reasoning inside <think>, nothing *)
(* of a tool block, all the rest text.  nested: a tool block holds <think>. *)
RECURSIVE Read(_, _, _)
Read(s, inside, r) ==
    LET begins == {m \in Markers : IsPrefix(m.start, s)}
        m == CHOOSE m \in begins : TRUE
        closes == inside # {} /\ \E i \in inside :
                      i.end # <<>> /\ IsPrefix(i.end, s)
        i == CHOOSE i \in inside : TRUE
        r2 == [r EXCEPT !.nested = @ \/ (/\ inside # {} /\ inside # {Think}
                                         /\ IsPrefix(Think.start, s))]
    IN  IF s = <<>> THEN r
        ELSE IF inside = {} /\ begins # {}
        THEN Read(After(s, Len(m.start)), {m}, r)
        ELSE IF closes THEN Read(After(s, Len(i.end)), {}, r)
        ELSE IF inside = {} THEN Read(Tail(s), {}, [r EXCEPT !.text = Append(@, s[1])])
        ELSE IF inside = {Think}
        THEN Read(Tail(s), inside, [r EXCEPT !.reasoning = Append(@, s[1])])
        ELSE Read(Tail(s), inside, r2)

(* The reading of the first n bytes, as far as their code points are whole. *)
Reading(n) ==
    LET whole == Complete(SubSeq(text, 1, n))
        opener == IF opened /\ whole # <<>> THEN <<"<", "think", "newline">> ELSE <<>>
    IN  Read(opener \o whole, {},
             [reasoning |-> <<>>, text |-> <<>>, nested |-> FALSE])

Starts(marker) == {SubSeq(marker, 1, k) : k \in 0..(Len(marker) - 1)}

(* However the bytes are cut into tokens, the deltas are whole code points, *)
(* what was shown is never taken back whatever comes next, only what may    *)
(* become a marker is held back, and in the end nothing is.                 *)
StreamIsWhole ==
    /\ Dumps(shown.reasoning) /\ Dumps(shown.text)
    /\ end = "open" =>
         /\ \A n \in at..Len(text) :
               /\ IsPrefix(shown.text, Reading(n).text)
               /\ IsPrefix(shown.reasoning, Reading(n).reasoning)
         /\ \E held \in UNION {Starts(m.start) : m \in Markers} :
               Reading(at).text = shown.text \o held
         /\ \E held \in Starts(Think.end) :
               Reading(at).reasoning = shown.reasoning \o held
    /\ end = "response.completed" =>
         /\ shown.text = Reading(at).text
         /\ shown.reasoning = Reading(at).reasoning

WithoutNewlines(s) == SelectSeq(s, LAMBDA b : b # "newline")

(* The items a completed answer ends with say what its deltas said, up to   *)
(* newlines around thinking, and every item that was announced is among     *)
(* them.  Not so when a tool block holds <think>, which the parser takes    *)
(* out first, and when thinking the template opened is empty: the opener's  *)
(* newline is announced as reasoning that never completes.                  *)
StreamMatchesAnswer ==
    end = "response.completed" /\ ~Reading(at).nested =>
        /\ shown.text = result[1].text
        /\ WithoutNewlines(shown.reasoning) = WithoutNewlines(result[1].reasoning)
        /\ (opened => result[1].reasoning # <<>>) => announced \subseteq done

(* "The stream ends on one of these" (responses.hpp:71): what ends a stream *)
(* is a terminal event.                                                     *)
StreamEndsOnTerminalEvent == end \in {"open", "response.completed"}
=============================================================================

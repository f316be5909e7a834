--------------------------- MODULE ResponsesItems ---------------------------
(* What the Responses API answers with, and how the same items are read     *)
(* back when the client sends the conversation again:                       *)
(* src/src/server/responses/responses.cpp.  A tool name is the sequence of  *)
(* its parts between dots, an id the number in it, a text a sequence.       *)
EXTENDS Integers, Sequences, FiniteSets, SequencesExt

(* A tool a request declares: on its own (ns = "") or inside a namespace.   *)
ModelTool(d) == IF d.ns = "" THEN d.name ELSE <<d.ns>> \o d.name

Namespaces(declared) == {d.ns : d \in ToSet(declared)} \ {""}

(* The model may leave the namespace out.  It is put back when one tool     *)
(* alone can be meant.                                                      *)
Owners(raw, namespaces, tools) ==
    {k \in DOMAIN tools : /\ Len(tools[k]) = 2 /\ tools[k][1] \in namespaces
                          /\ <<tools[k][2]>> = raw}

FoundNamespace_Last(owners, tools) ==
    IF owners = {} THEN ""
    ELSE tools[CHOOSE k \in owners : \A j \in owners : j <= k][1]

FoundNamespace(owners, tools) ==
    IF Cardinality(owners) = 1 THEN tools[CHOOSE k \in owners : TRUE][1] ELSE ""

EmittedName(raw, namespaces, tools) ==
    IF Len(raw) = 1
    THEN [name |-> raw,
          ns |-> FoundNamespace(Owners(raw, namespaces, tools), tools)]
    ELSE IF raw[1] \in namespaces THEN [name |-> Tail(raw), ns |-> raw[1]]
    ELSE [name |-> raw, ns |-> ""]

(* A call without an id is numbered by its place. *)
CallId(call, i) == IF call.id = 0 THEN i ELSE call.id

TextItem(type, text) == [type |-> type, text |-> text]

CallItem(call, i, declared) ==
    LET tools == [k \in DOMAIN declared |-> ModelTool(declared[k])]
        emitted == EmittedName(call.name, Namespaces(declared), tools)
    IN  [type |-> "function_call", name |-> emitted.name, ns |-> emitted.ns,
         id |-> CallId(call, i)]

(* result: [reasoning, text, calls]. *)
OutputItems(result, declared) ==
    (IF result.reasoning = <<>> THEN <<>>
     ELSE <<TextItem("reasoning", result.reasoning)>>)
    \o (IF result.text = <<>> /\ result.calls # <<>> THEN <<>>
        ELSE <<TextItem("message", result.text)>>)
    \o [i \in DOMAIN result.calls |-> CallItem(result.calls[i], i, declared)]

-----------------------------------------------------------------------------
QualifiedName(name, ns) ==
    IF ns = "" \/ (Len(name) > 1 /\ name[1] = ns) THEN name ELSE <<ns>> \o name

Assistant(content, reasoning, calls) ==
    [role |-> "assistant", content |-> content, reasoning |-> reasoning,
     calls |-> calls]

Joined(a, b) ==
    IF a = <<>> THEN b ELSE IF b = <<>> THEN a ELSE a \o <<"newline">> \o b

(* The items of one answer become one message again. *)
MergeAssistant(messages, incoming) ==
    IF messages # <<>> /\ Last(messages).role = "assistant"
    THEN LET prev == Last(messages)
         IN  Append(Front(messages),
                    Assistant(Joined(prev.content, incoming.content),
                              Joined(prev.reasoning, incoming.reasoning),
                              prev.calls \o incoming.calls))
    ELSE Append(messages, incoming)

AppendItem(messages, item) ==
    CASE item.type = "function_call" ->
             MergeAssistant(messages, Assistant(<<>>, <<>>,
                 <<[name |-> QualifiedName(item.name, item.ns), id |-> item.id]>>))
      [] item.type = "function_call_output" ->
             Append(messages, [role |-> "tool", content |-> item.text,
                               id |-> item.id])
      [] item.type = "reasoning" ->
             IF item.text = <<>> THEN messages
             ELSE MergeAssistant(messages, Assistant(<<>>, item.text, <<>>))
      [] item.type = "message" ->
             MergeAssistant(messages, Assistant(item.text, <<>>, <<>>))
      [] item.type = "user" ->
             Append(messages, [role |-> "user", content |-> item.text])

MessagesFromInput(input) == FoldLeft(AppendItem, <<>>, input)
=============================================================================

---------------------------- MODULE ToolHistory ----------------------------
(* How stored tool results are shortened when a message comes after a       *)
(* finished turn, with compress_tools on:                                   *)
(* src/src/server/sessions/tool_history.cpp.  A text is a sequence of       *)
(* pieces: an opening tag without its end, with the name it gives, the end  *)
(* of a tag, the closing tag, a line break, a few words, one line of more   *)
(* than 240 characters, more than 3 lines, a record of an earlier pass.     *)
EXTENDS Integers, Sequences, FiniteSets, FiniteSetsExt, SequencesExt

Opening == {"<", "<read", "<agent"}
Close == "</>"
Records == {"read, 1 lines", "read, more lines", "tool, 1 lines", "tool, more lines", "omitted"}
Pieces == Opening \cup Records \cup {">", Close, "nl", "words", "long", "many"}

Places(text, pieces) == {i \in DOMAIN text : text[i] \in pieces}

TrimEdges(text) ==
    LET kept == DOMAIN text \ Places(text, {"nl"})
    IN  IF kept = {} THEN <<>> ELSE SubSeq(text, Min(kept), Max(kept))

(* The first name attribute of a tag; a cut tag may have swallowed others. *)
NameOf(tag) ==
    LET named == Places(tag, {"<read", "<agent"})
    IN  IF named = {} THEN "<" ELSE tag[Min(named)]

RecordLine(name, body) ==
    LET one == Places(body, {"nl", "many"}) = {}
    IN  IF name = "<read" THEN IF one THEN "read, 1 lines" ELSE "read, more lines"
        ELSE IF one THEN "tool, 1 lines" ELSE "tool, more lines"

RecordsOf(name) ==
    IF name = "<read" THEN {"read, 1 lines", "read, more lines"}
    ELSE {"tool, 1 lines", "tool, more lines"}

AlreadyRecord_Never(body, name) == FALSE

AlreadyRecord(body, name) ==
    /\ body # <<>> /\ Places(body, {"nl", "many"}) = {}
    /\ body[1] \in RecordsOf(name) \cup {"omitted"}

(* Name and detail may fill 225 characters, so a record can be too long.    *)
Small(body) ==
    /\ Places(body, {"long", "many"} \cup Records) = {}
    /\ Cardinality(Places(body, {"nl"})) < 3

ShrunkBlock(tag, inside) ==
    LET name == NameOf(tag)
        body == TrimEdges(inside)
    IN  IF name = "<agent" \/ AlreadyRecord(body, name) \/ Small(body)
        THEN tag \o inside \o <<Close>>
        ELSE tag \o <<"nl", RecordLine(name, body), "nl", Close>>

RECURSIVE Shrink(_)
Shrink(text) ==
    LET starts == Places(text, Opening)
        start  == Min(starts)
        Behind(places) == {i \in places : i > start}
        ends   == Behind(Places(text, {Close}))
        tagEnd == Min(Behind(Places(text, {">", Close})))
        end    == Min(ends)
    IN  IF starts = {} \/ ends = {} \/ tagEnd = end THEN text
        ELSE SubSeq(text, 1, start - 1)
                 \o ShrunkBlock(SubSeq(text, start, tagEnd),
                                SubSeq(text, tagEnd + 1, end - 1))
                 \o Shrink(SubSeq(text, end + 1, Len(text)))
=============================================================================

-------------------------- MODULE AlgorithmsCheck --------------------------
(* One run over everything that is computed and not raced for: the          *)
(* questions of PlansCheck, patches for EditFile, texts for ToolHistory,    *)
(* and every way to stream an answer through AnswerStream.                  *)
EXTENDS PlansCheck, AnswerStream, EditMeaning, ToolHistory

CONSTANTS
    MaxLines,       \* bound: lines of a file or a hunk
    MaxPieces       \* bound: pieces of a stored text

checkVars == <<ask, answer, streamVars>>

NoStream == text = <<>> /\ opened = FALSE /\ Fresh

AskPatch(file, hunks) == ask = [about |-> "edit", file |-> file, hunks |-> hunks]

Blocks ==
    {<<open, ">">> \o body \o <<Close>> :
         open \in Opening, body \in BoundedSeq(Pieces \ (Opening \cup {">", Close}), 2)}

AskText(first, second) == ask = [about |-> "shrink", first |-> first, second |-> second]

CheckInit ==
    \/ Init /\ NoStream
    \/ /\ \/ \E file \in FilesOf({"a", Dashes}, MaxLines),
                hunks \in BoundedSeq(HunksOf({"a", Dashes}, MaxLines - 2), 2) :
                 AskPatch(file, hunks)
          \/ \E file \in FilesOf({"a", Dashes, Plusses}, MaxLines - 1),
                hunk \in HunksOf({"a", Dashes, Plusses}, MaxLines - 1) :
                 AskPatch(file, <<hunk>>)
          \/ \E first \in Blocks,
                second \in Blocks \cup BoundedSeq(Pieces, MaxPieces - 2) :
                 AskText(first, second)
          \/ \E second \in BoundedSeq(Pieces, MaxPieces) : AskText(<<>>, second)
       /\ answer = <<>> /\ NoStream
    \/ ask = [about |-> "stream"] /\ answer = <<>> /\ StreamInit

AskEdit ==
    /\ Asked("edit")
    /\ answer' = <<EditFile(ask.file, FlattenSeq(ask.hunks))>>
    /\ UNCHANGED ask

AskShrink ==
    /\ Asked("shrink")
    /\ answer' = <<Shrink(ask.first \o ask.second)>>
    /\ UNCHANGED ask

CheckNext ==
    \/ (Next \/ AskEdit \/ AskShrink) /\ UNCHANGED streamVars
    \/ ask.about = "stream" /\ StreamNext /\ UNCHANGED vars

CheckSpec == CheckInit /\ [][CheckNext]_checkVars

-----------------------------------------------------------------------------
(* edit_file: a patch that is taken does what its hunks say, all of them    *)
(* seen against the file as it was, and a hunk that fits the line it states *)
(* is applied there; a patch that is refused leaves the file as it was.     *)
(* The diff in the answer is a patch of its own: with it the old file       *)
(* becomes the new one.  Not so for lines that read as headers of a patch.  *)
EditIsExact ==
    Answered("edit") /\ (\A h \in ToSet(ask.hunks) : NoHeaders(h)) =>
        IF ~Result.ok THEN Result.file = ask.file
        ELSE /\ Result.file \subseteq Meaning(ask.file, ask.hunks)
             /\ NoHeaders(Result.diff) =>
                    LET again == EditFile(ask.file, Result.diff)
                    IN  again.ok /\ again.file = Result.file

(* shrink_tool_responses, over all that is stored, whenever a message comes *)
(* after a finished turn and compress_tools is on: a result is shortened    *)
(* once and then stays, and what comes after it is shortened as it would be *)
(* alone.                                                                   *)
ShrinkIsStable ==
    Answered("shrink") =>
        /\ Shrink(Result) = Result
        /\ Result = Shrink(ask.first) \o Shrink(ask.second)
=============================================================================

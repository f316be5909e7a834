------------------------------ MODULE EditFile ------------------------------
(* The tool that applies a unified diff to a file:                          *)
(* src/src/common/tools/tool_edit_file.cpp.  A line of text is a model      *)
(* value; a line of a patch is a mark and a text, and "@@" has a start and  *)
(* a count.  Reading and writing the file succeed; a diff is never cut.     *)
EXTENDS Integers, Sequences, FiniteSets, FiniteSetsExt, SequencesExt

Line(mark, text) == [mark |-> mark, text |-> text]
HunkHeader(start, count) == [mark |-> "@@", start |-> start, count |-> count]

(* Lines of text that begin with "-- " and "++ ". *)
Dashes == "-- x"
Plusses == "++ x"

(* parse_patch looks for headers before it looks at the mark. *)
TakenFor(line) ==
    CASE line = Line("-", Dashes)   -> Line("---", "x")
      [] line = Line("+", Plusses)  -> Line("+++", "x")
      [] OTHER                      -> line

-----------------------------------------------------------------------------
(* parse_patch.  open holds the hunk that is being read, if any.            *)
NewHunk(line) == [start |-> line.start, count |-> line.count, lines |-> <<>>]

NothingRead ==
    [open |-> <<>>, hunks |-> <<>>, old |-> <<>>, new |-> <<>>, ok |-> TRUE]

CloseHunk(p) ==
    IF p.open = <<>> THEN p
    ELSE [p EXCEPT !.open = <<>>, !.hunks = p.hunks \o p.open,
                   !.ok = p.open[1].lines # <<>>]

ReadLine(p, l) ==
    LET line   == TakenFor(l)
        closed == CloseHunk(p)
    IN  IF ~p.ok THEN p
        ELSE CASE line.mark = "@@"  -> [closed EXCEPT !.open = <<NewHunk(line)>>]
               [] line.mark = "---" -> [closed EXCEPT !.old = Append(@, line.text)]
               [] line.mark = "+++" -> [closed EXCEPT !.new = Append(@, line.text),
                                                      !.ok = closed.ok /\ p.new = <<>>]
               [] OTHER -> IF p.open = <<>> THEN p
                           ELSE [p EXCEPT !.open[1].lines = Append(@, line)]

(* The only path that is the file's own is "file". *)
ParsePatch(patch) ==
    LET p == CloseHunk(FoldLeft(ReadLine, NothingRead, patch))
    IN  [hunks |-> p.hunks, newFile |-> Contains(p.old, "/dev/null"),
         ok |-> p.ok /\ p.hunks # <<>> /\ ToSet(p.new) \subseteq {"file"}]

-----------------------------------------------------------------------------
TextsOf(lines, marks) ==
    LET chosen == SelectSeq(lines, LAMBDA l : l.mark \in marks)
    IN  [i \in DOMAIN chosen |-> chosen[i].text]

OldSide(lines) == TextsOf(lines, {" ", "-"})
NewSide(lines) == TextsOf(lines, {" ", "+"})

Distance(a, b) == IF a < b THEN b - a ELSE a - b

Matches(file, old) ==
    {at \in 0..(Len(file) - Len(old)) : SubSeq(file, at + 1, at + Len(old)) = old}

(* The match nearest to the hint; none if two are equally near. *)
LocateHunk(file, old, hint) ==
    LET nearest == {at \in Matches(file, old) :
                        \A b \in Matches(file, old) :
                            Distance(at, hint) <= Distance(b, hint)}
    IN  IF Cardinality(nearest) = 1 THEN nearest ELSE {}

Span(from, len, new) == [from |-> from, len |-> len, new |-> new]

(* The changed middle of a hunk, without the context around it. *)
Changes(lines) == {i \in DOMAIN lines : lines[i].mark # " "}

Lead(lines) ==
    IF Changes(lines) = {} THEN Len(lines)
    ELSE Min(Changes(lines)) - 1

Middle(lines) ==
    IF Changes(lines) = {} THEN <<>>
    ELSE SubSeq(lines, Lead(lines) + 1, Max(Changes(lines)))

(* The span a hunk replaces: a set of at most one. *)
SpansOf(file, hunk) ==
    LET old == OldSide(hunk.lines)
        mid == Middle(hunk.lines)
    IN  IF old = <<>>
        THEN {Span(at, 0, NewSide(hunk.lines)) :
                  at \in {hunk.start} \cap (IF hunk.count = 0 THEN 0..Len(file) ELSE {})}
        ELSE {Span(at + Lead(hunk.lines), Len(OldSide(mid)), NewSide(mid)) :
                  at \in LocateHunk(file, old, hunk.start - 1)}

RangesOverlap(a, b) ==
    CASE a.len = 0 /\ b.len = 0 -> a.from = b.from
      [] a.len = 0 /\ b.len # 0 -> b.from <= a.from /\ a.from < b.from + b.len
      [] a.len # 0 /\ b.len = 0 -> a.from <= b.from /\ b.from < a.from + a.len
      [] OTHER -> a.from < b.from + b.len /\ b.from < a.from + a.len

AddSpan(file, plan, hunk) ==
    LET found == SpansOf(file, hunk)
        span  == CHOOSE s \in found : TRUE
    IN  IF ~plan.ok \/ found = {} THEN [plan EXCEPT !.ok = FALSE]
        ELSE IF span.len = 0 /\ span.new = <<>> THEN plan
        ELSE [ok    |-> \A s \in ToSet(plan.spans) : ~RangesOverlap(s, span),
              spans |-> Append(plan.spans, span)]

PlanSpans(file, hunks) ==
    FoldLeft(LAMBDA plan, hunk : AddSpan(file, plan, hunk),
             [ok |-> TRUE, spans |-> <<>>], hunks)

Replace(lines, span) ==
    SubSeq(lines, 1, span.from) \o span.new
        \o SubSeq(lines, span.from + span.len + 1, Len(lines))

(* The last span first, so that the others stay where they are. *)
ApplySpans_AsGiven(file, spans) == FoldLeft(Replace, file, spans)

ApplySpans(file, spans) ==
    FoldLeft(Replace, file, SortSeq(spans, LAMBDA a, b : a.from > b.from))

-----------------------------------------------------------------------------
ContextLines == 3

Marked(mark, texts) == [i \in DOMAIN texts |-> Line(mark, texts[i])]

(* One hunk: up to three lines of context, less where the next span is near. *)
DiffHunk(old, spans, s) ==
    LET from  == spans[s].from
        to    == from + spans[s].len
        first == IF s = 1 THEN 0 ELSE spans[s - 1].from + spans[s - 1].len
        last  == IF s = Len(spans) THEN Len(old) ELSE spans[s + 1].from
        lo    == Max({first, from - ContextLines})
        hi    == Min({last, to + ContextLines})
    IN  <<HunkHeader(IF hi = lo THEN from ELSE lo + 1, hi - lo)>>
            \o Marked(" ", SubSeq(old, lo + 1, from))
            \o Marked("-", SubSeq(old, from + 1, to))
            \o Marked("+", spans[s].new)
            \o Marked(" ", SubSeq(old, to + 1, hi))

FormatDiff(old, spans, created) ==
    LET sorted == SortSeq(spans, LAMBDA a, b : a.from < b.from)
    IN  <<Line("---", IF created THEN "/dev/null" ELSE "file"), Line("+++", "file")>>
            \o FlattenSeq([s \in DOMAIN sorted |-> DiffHunk(old, sorted, s)])

-----------------------------------------------------------------------------
(* edit_file.  A file is a set of at most one content: its lines and        *)
(* whether the last one is ended.                                           *)
Content(lines, ended) == [lines |-> lines, ended |-> ended /\ lines # <<>>]

Failed(file) == [ok |-> FALSE, file |-> file, diff |-> <<>>]

Created(patch) ==
    LET lines == FlattenSeq([i \in DOMAIN patch.hunks |->
                                 TextsOf(patch.hunks[i].lines, {"+"})])
    IN  [ok |-> TRUE, file |-> {Content(lines, TRUE)},
         diff |-> FormatDiff(<<>>, <<Span(0, 0, lines)>>, TRUE)]

AdditionsOnly(hunks) ==
    \A h \in ToSet(hunks) : \A l \in ToSet(h.lines) : l.mark = "+"

Changed(content, patch) ==
    LET plan    == PlanSpans(content.lines, patch.hunks)
        updated == Content(ApplySpans(content.lines, plan.spans),
                           content.ended \/ content.lines = <<>>)
    IN  IF ~plan.ok \/ updated = content THEN Failed({content})
        ELSE [ok |-> TRUE, file |-> {updated},
              diff |-> FormatDiff(content.lines, plan.spans, FALSE)]

EditFile(file, lines) ==
    LET patch == ParsePatch(lines)
    IN  IF \/ ~patch.ok
           \/ file = {} /\ ~AdditionsOnly(patch.hunks)
           \/ file # {} /\ patch.newFile
        THEN Failed(file)
        ELSE IF file = {} THEN Created(patch)
        ELSE Changed(CHOOSE c \in file : TRUE, patch)
=============================================================================

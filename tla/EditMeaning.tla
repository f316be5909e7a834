---------------------------- MODULE EditMeaning ----------------------------
(* What a patch means, with no order among its hunks and no spans, and the  *)
(* small patches and files the tool is asked with.                          *)
EXTENDS EditFile

(* Hunks and files of up to n of the given lines; a hunk that names no old  *)
(* line says that it has none.                                              *)
HunksOf(texts, n) ==
    {<<HunkHeader(start, IF OldSide(lines) = <<>> THEN 0 ELSE 1)>> \o lines :
         start \in {1, 3},
         lines \in BoundedSeq([mark : {" ", "-", "+"}, text : texts], n)}

FilesOf(texts, n) ==
    {{}} \cup {{Content(lines, ended)} :
                  lines \in BoundedSeq(texts, n), ended \in BOOLEAN}

NoHeaders(lines) == \A l \in ToSet(lines) : TakenFor(l) = l

-----------------------------------------------------------------------------
(* The lines of the file before line i of a hunk. *)
Before(lines, i) == Len(OldSide(SubSeq(lines, 1, i - 1)))

(* The lines a hunk at a place takes out of the file, and those it puts in  *)
(* before line g + 1.                                                       *)
Removed(lines, at) ==
    {at + Before(lines, i) + 1 : i \in {j \in DOMAIN lines : lines[j].mark = "-"}}

Added(lines, at, g) ==
    LET here  == {i \in DOMAIN lines : at + Before(lines, i) = g}
        order == SetToSortSeq(here, <)
    IN  TextsOf([n \in DOMAIN order |-> lines[order[n]]], {"+"})

(* The places a hunk may mean: the line it states if the file has the lines *)
(* of the hunk there, else wherever it has them.                            *)
PlacesOf(file, hunk) ==
    LET old    == OldSide(Tail(hunk))
        places == Matches(file, old)
        stated == {IF old = <<>> THEN hunk[1].start ELSE hunk[1].start - 1}
    IN  IF old = <<>> \/ stated \subseteq places THEN stated \cap places ELSE places

AppliedAtOnce(file, hunks, at) ==
    LET gone == UNION {Removed(Tail(hunks[h]), at[h]) : h \in DOMAIN hunks}
        New(g) == FlattenSeq([h \in DOMAIN hunks |-> Added(Tail(hunks[h]), at[h], g)])
        Kept(g) == IF g + 1 \in DOMAIN file \ gone THEN <<file[g + 1]>> ELSE <<>>
    IN  FlattenSeq([g \in 1..(Len(file) + 1) |-> New(g - 1) \o Kept(g - 1)])

(* All hunks at once, each at one of its places: no hunk sees what another  *)
(* one does.  Two that add lines at one place may do so in either order.    *)
AppliedTogether(content, hunks) ==
    LET choices(order) ==
            {at \in [DOMAIN order -> 0..Len(content.lines)] :
                \A h \in DOMAIN order : at[h] \in PlacesOf(content.lines, order[h])}
    IN  UNION {{Content(AppliedAtOnce(content.lines, order, at),
                        content.ended \/ content.lines = <<>>) : at \in choices(order)}
               : order \in {hunks, Reverse(hunks)}}

(* A missing file is made of the added lines, wherever the hunks say. *)
NewFile(hunks) ==
    Content(FlattenSeq([h \in DOMAIN hunks |-> TextsOf(Tail(hunks[h]), {"+"})]), TRUE)

Meaning(file, hunks) ==
    IF file = {} THEN {NewFile(hunks)}
    ELSE UNION {AppliedTogether(content, hunks) : content \in file}
=============================================================================

------------------------------ MODULE MCReport ------------------------------
(* One file's coverage on its way from the filter's JSON to the database and *)
(* to the screen, over every small input.                                    *)
EXTENDS LinePrinter, Lighter, Objects

CONSTANTS
    LastLine,       \* the highest line of the texts shown
    MaxText         \* the longest text compared

Lines == {0, 1, 2, MaxU31, MaxU31 + 1, MaxU32 - 1, MaxU32}

JsonFunctions ==
    [name : {1, 2}, demangled : {NotGiven, 3}, count : {0, 5}, start_line : {1, 2},
     start_column : {NotGiven, 4}, end_line : {NotGiven, 2}, end_column : {NotGiven}]

(* Functions as the end of show sees them. *)
ShownFunctions == {f \in JsonFunctions : f.name = 1 /\ f.demangled = NotGiven
                                          /\ f.start_column = NotGiven /\ f.end_line = NotGiven}
At0(line, f) == [LoadFunction(f) EXCEPT !.start = <<line, 0>>, !.end = <<line, 1>>]

InitLines ==
    \E given \in kSubset(3, Lines) \cup kSubset(2, Lines) \cup kSubset(1, Lines) \cup {{}},
       line_count \in {0, 3, MaxU31 + 2, MaxU32} :
        \E lc \in [given -> {0, 1, MaxU32}] :
            subject = [part |-> "lines", lc |-> lc, line_count |-> line_count]

(* Reports of up to two files, with any one of the keys missing. *)
Item(key, hits) == [key |-> key, hits |-> hits]
GoodFile == [name |-> 1, digest |-> <<>>, algorithm |-> "sha", functions |-> NotGiven,
             line_coverage |-> <<Item(0, 1), Item(1, 2)>>]
JsonFiles ==
    {GoodFile, [GoodFile EXCEPT !.name = NotGiven], [GoodFile EXCEPT !.digest = NotGiven],
     [GoodFile EXCEPT !.algorithm = "crc"]}
      \cup {[GoodFile EXCEPT !.line_coverage = items] :
              items \in {NotGiven} \cup SeqOf({Item(0, 3), Item(1, MaxU32 + 1), Item(2, 0), Item(MaxU32, 4),
                                             Item(MaxU32 + 1, 1), Item(NotGiven, 1), Item(3, NotGiven)}, 3)}
InitJson ==
    \E git \in {NotGiven, "git"}, files \in {NotGiven} \cup {<<>>} \cup {<<f>> : f \in JsonFiles}
                                             \cup {<<GoodFile, f>> : f \in JsonFiles} :
        subject = [part |-> "json", git |-> git, files |-> files]

InitStats ==
    \E r1, r2 \in 0..9, v1, v2 \in 0..2, d1, d2 \in 0..2 :
        /\ v1 <= r1 /\ v2 <= r2
        /\ subject = [part |-> "stats", newer |-> [relevant |-> r1, visited |-> v1],
                      older |-> [relevant |-> r2, visited |-> v2], digits |-> <<d1, d2>>]

(* The commit and the work tree have the same text, or one has another text  *)
(* or none.                                                                  *)
InitTexts ==
    \E digest, text \in SeqOf({"x", CR, LF}, MaxText), other \in {NotGiven, <<>>, <<LF>>} :
        \E pair \in {<<text, text>>, <<text, other>>, <<other, text>>} :
            subject = [part |-> "texts", digest |-> digest, blob |-> pair[1], file |-> pair[2]]

InitFunctions ==
    \E fns \in SeqOf(JsonFunctions, 2) :
        subject = [part |-> "functions", fns |-> LoadFunctionList(fns)]

InitShow ==
    \E missed \in kSubset(2, 0..LastLine) \cup kSubset(1, 0..LastLine) \cup {{}},
       step \in {2, 5} :
        \E l1, l2 \in {0, 6, LastLine - 1}, f1, f2 \in ShownFunctions :
            /\ l1 <= l2 /\ f1.start_line = 1 /\ f2.start_line = 1
            /\ subject = [part |-> "show",
                          coverage |-> [l \in missed \cup {k \in 0..LastLine : k % step = 0} |->
                                          IF l \in missed THEN 0 ELSE l + 1],
                          functions |-> MergeAliases(<<At0(l1, f1), At0(l2, f2)>>)]

(* What a highlighter makes of a line: texts and tokens, also inside tokens. *)
Plain0(text) == [kind |-> "text", text |-> text]
Token0(kind, items) == [kind |-> kind, items |-> items]
Pieces == {Plain0(<<"a">>), Plain0(<<"\t", "b">>), Plain0(<<"c", "\t">>),
           Token0("keyword", <<Plain0(<<"d">>)>>), Token0("line_comment", <<Plain0(<<"e">>)>>),
           Token0("unheard_of", <<Plain0(<<"f">>)>>), Token0("", <<Plain0(<<"g">>)>>),
           Token0("string", <<Plain0(<<"h">>), Token0("escape_sequence", <<Plain0(<<"i">>)>>), Plain0(<<"j">>)>>)}
InitPainted ==
    \/ \E items \in SeqOf(Pieces, 4), count \in {{}, {0}, {1}}, use_color \in BOOLEAN :
         subject = [part |-> "painted", items |-> items, count |-> count, use_color |-> use_color]
    \/ \E length \in {0, 37, 38, 40, 41, 43, 60}, max_width \in {0, 1, 50, 53, 60, 200}, widths \in {<<1, 0>>, <<3, 2>>},
         count \in {{0}, {1}}, use_color \in BOOLEAN :
         subject = [part |-> "name", name |-> [i \in 1..length |-> "x"], max_width |-> max_width,
                    widths |-> widths, count |-> count, use_color |-> use_color]

(* A text and the tokens a grammar may find in it: each within another or    *)
(* beside it, none with an end inside of a line break.                       *)
Sources == {<<"a", LF, "b">>, <<"a", LF, LF, "b">>, <<LF, "a", CR, LF>>, <<"a", "b", "c">>}
InBreak(text, at) == at \in 1..Len(text) - 1 /\ text[at] = CR
Apart(s, t) == s.stop <= t.start \/ t.stop <= s.start
Within(s, t) == t.start <= s.start /\ s.stop <= t.stop
TokensIn(text) ==
    {t \in [start : 0..Len(text), stop : 0..Len(text), kind : {"string", "meta", "whitespace"}] :
        t.start <= t.stop /\ ~InBreak(text, t.start) /\ ~InBreak(text, t.stop)}
Nested(tokens) == \A s, t \in Range(tokens) : Apart(s, t) \/ Within(s, t) \/ Within(t, s)
InitLit ==
    \E text \in Sources : \E a, b, c \in TokensIn(text) :
        /\ a.kind = "string" /\ "string" \notin {b.kind, c.kind}
        /\ \E tokens \in {ts \in {<<a, b, c>>, <<b, a>>} : Nested(ts)} :
             subject = [part |-> "lit", text |-> text, tokens |-> tokens]

InitReport == InitJson \/ InitLit \/ InitPainted \/ InitLines \/ InitStats \/ InitTexts \/ InitFunctions \/ InitShow

-----------------------------------------------------------------------------
IsEscape(c) == c[1] = "escape"
Characters(out) == SelectSeq(out, LAMBDA c : ~IsEscape(c))
ColorAt(out, i) ==
    LET before == {k \in 1..i : IsEscape(out[k])}
    IN  IF before = {} THEN NoColor ELSE out[CHOOSE k \in before : \A j \in before : j <= k][2]

(* The characters of a line with the color of the innermost token that has   *)
(* one, a tab as the blanks it is printed as.                                *)
RECURSIVE Colored0(_, _, _)
Colored0(items, mark, color) ==
    FlattenSeq([i \in DOMAIN items |->
        IF items[i].kind = "text"
        THEN LET text == TabStopped(items[i].text, 0) IN [k \in DOMAIN text |-> <<text[k], color>>]
        ELSE LET own == FindStyle(items[i].kind, mark)
             IN  Colored0(items[i].items, mark, IF own = NoColor THEN color ELSE own)])

(* A line with a count is printed with every character in the color of its   *)
(* token, one without a count with all of its characters; either leaves the  *)
(* terminal as it was.  A name is cut to fit the terminal beside its         *)
(* columns, if that leaves MagicWidth for it, and starts in the column of    *)
(* the lines' signs.                                                         *)
PaintedAs(out, expected) ==
    LET printed == {i \in DOMAIN out : ~IsEscape(out[i])}
    IN  /\ Tail(Characters(out)) = Chars([i \in DOMAIN expected |-> expected[i][1]])
        /\ ColorAt(out, Len(out)) = NoColor
        /\ ~subject.use_color => Len(out) = Cardinality(printed)
        /\ subject.use_color /\ subject.count # {} =>
             \A i \in printed : LET n == Cardinality({k \in printed : k < i})
                                IN  n > 0 => ColorAt(out, i) = expected[n][2]
CutTo(s, out, source) ==
    LET width == Len(Characters(out))
        beside == s.widths[1] + s.widths[2] + Margins
        blanks(text) == Len(SelectSeq(text, LAMBDA c : c = <<"char", " ">>))
    IN  /\ ColorAt(out, Len(out)) = NoColor /\ blanks(out) = blanks(source)
        /\ width <= IF s.max_width < beside + MagicWidth THEN beside + MagicWidth ELSE s.max_width
        /\ width < beside + Len(s.name) => width >= beside + MagicWidth
Painted0 ==
    LET s == subject
    IN  /\ s.part = "painted" =>
             PaintedAs(LineToString(s.count, s.items, s.use_color),
                       Colored0(s.items, MarkFor(s.count), FindStyle("text", MarkFor(s.count))))
        /\ s.part = "name" =>
             CutTo(s, NameLine(s.name, s.max_width, s.widths[1], s.widths[2], s.count, s.use_color),
                   SourceLine(s.count, <<Plain0(s.name)>>, s.widths[1], s.widths[2], s.use_color))

(* Every character of a text is in its line once, in the token around it     *)
(* that starts last, or of those that start together is the shortest.        *)
RECURSIVE Kinds0(_, _)
Kinds0(items, kind) ==
    FlattenSeq([i \in DOMAIN items |->
        IF items[i].kind = "text" THEN [k \in 1..items[i].end - items[i].begin |-> <<items[i].begin + k, kind>>]
        ELSE Kinds0(items[i].items, items[i].kind)])
BreaksIn(text) == SelectSeq([i \in 1..Len(text) |-> i], LAMBDA i : text[i] = LF)
BreakSize(text, i) == IF i > 1 /\ text[i - 1] = CR THEN 2 ELSE 1
NewlinesIn(text, breaks) == [k \in DOMAIN breaks |-> Endline(breaks[k], BreakSize(text, breaks[k]))]
LitAs(text, lines) ==
        LET stop(i) == IF i < Len(lines) THEN lines[i + 1].start - BreakSize(text, lines[i + 1].start) ELSE Len(text)
            around(p) == SelectSeq(subject.tokens, LAMBDA t : t.kind # "whitespace" /\ t.start < p /\ p <= t.stop)
            inner(p, i) == \A j \in DOMAIN around(p) :
                              \/ TokenLess(around(p)[j], around(p)[i])
                              \/ ~TokenLess(around(p)[i], around(p)[j]) /\ j <= i
            kind(p) == IF around(p) = <<>> THEN "whitespace"
                       ELSE around(p)[CHOOSE i \in DOMAIN around(p) : inner(p, i)].kind
        IN  /\ Len(lines) = Len(BreaksIn(text)) + 1
            /\ \A i \in DOMAIN lines :
                 Kinds0(lines[i].items, "whitespace") =
                   [k \in 1..stop(i) - lines[i].start |-> <<k, kind(lines[i].start + k)>>]
Lit0 ==
    LET s == subject
    IN  s.part = "lit" =>
          LitAs(s.text, Highlights(s.tokens, NewlinesIn(s.text, BreaksIn(s.text)), Len(s.text)))

ShowsMissed(shown, width) ==
    LET lines == {shown[i].line : i \in DOMAIN shown}
        uncalled == {f \in Range(subject.functions) : f.count = 0}
        missed == {l \in DOMAIN subject.coverage : subject.coverage[l] = 0}
                    \cup {f.line : f \in uncalled}
    IN  /\ missed \subseteq lines
        /\ \A i, j \in DOMAIN shown : i < j => shown[i].line < shown[j].line
        /\ \A f \in uncalled :
             Cardinality({i \in DOMAIN shown : f \in Range(shown[i].functions)}) = 1
        /\ IF missed = {} THEN lines = 0..LastLine
           ELSE \A l \in lines : \E k \in missed : l - k \in -4..4
        /\ \A l \in lines \cap DOMAIN subject.coverage : ColumnWidth(subject.coverage[l]) <= width
        /\ \A i \in DOMAIN shown : \A f \in Range(shown[i].functions) : ColumnWidth(f.count) <= width

(* MissedAreShown: show prints every line that was not executed and every    *)
(* function that was not called, once and in order, and around them only     *)
(* lines near to one; a file without any is printed whole, and every count   *)
(* that is printed fits its column.  No character of a line is lost or has   *)
(* the color of another token, also where tokens reach over several lines.   *)
MissedAreShown ==
  /\ Painted0
  /\ Lit0
  /\ subject.part = "show" =>
       ShowsMissed(Shown(subject.coverage, subject.functions, LastLine + 1),
                   CountWidth(subject.coverage, subject.functions,
                              Chunks(subject.coverage, subject.functions, LastLine + 1)))
=============================================================================

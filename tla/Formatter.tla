------------------------------ MODULE Formatter ------------------------------
(* formatter::format: what a parsed template prints about one object.  An    *)
(* object is a record with its kind, the ids it holds (ZeroOid when unset)   *)
(* and what else its facade can be asked for; NoObject is an empty context.  *)
(* What is printed is a sequence of pieces, one for each piece of output.    *)
EXTENDS Template, ReportFile

NoObject == [kind |-> "none"]
Zero == "zero"      \* an oid that is not set
NoWidth == [total |-> 0, indent1 |-> 0, indent2 |-> 0]

-----------------------------------------------------------------------------
(* The facades.  A build in a report is known by its short entry; the object *)
(* itself is looked up when more is asked for and may not be readable.       *)
ObjectFacade ==
    [labels |-> <<"", "", "", "">>, ids |-> {}, stats |-> FALSE, git |-> FALSE,
     added |-> 0, builds |-> <<>>]

SetIds(f, ns) == {n \in ns : f.ids[n] # Zero}

FileFacade(f) ==
    [ObjectFacade EXCEPT !.labels = <<"blob", "lines", "functions", "branches">>,
                         !.ids = {1} \cup SetIds(f, 2..4), !.stats = TRUE]

FilesFacade(f) ==
    [ObjectFacade EXCEPT !.labels = <<"files", "", "", "">>, !.ids = {1}]

BuildFacade(f) ==
    [ObjectFacade EXCEPT !.labels = <<"build", "files", "", "">>,
                         !.ids = {1} \cup (IF f.readable THEN {2} ELSE {}), !.stats = TRUE,
                         !.added = IF f.readable THEN f.added ELSE 0]

ReportFacade(f) ==
    [ObjectFacade EXCEPT !.labels = <<"report", "files", "parent", "commit">>,
                         !.ids = {1} \cup SetIds(f, 2..4), !.stats = TRUE, !.git = TRUE,
                         !.added = f.added, !.builds = f.builds]

Facade(f) ==
    CASE f.kind = "report" -> ReportFacade(f) [] f.kind = "build" -> BuildFacade(f)
      [] f.kind = "files" -> FilesFacade(f)   [] f.kind = "file" -> FileFacade(f)
      [] f.kind = "none" -> ObjectFacade

Labels(f) == Facade(f).labels
HasId(f, n) == n \in Facade(f).ids
HasStats(f) == Facade(f).stats
HasGit(f) == Facade(f).git
Added(f) == Facade(f).added

Loop(f, ref) == IF ref \in {<<"B">>, <<"build">>} THEN Facade(f).builds ELSE <<>>

Measure(f, c) == CASE c = "L" -> f.stats.lines [] c = "F" -> f.stats.functions
                   [] c = "B" -> f.stats.branches

(* object_facade::condition and build_facade::condition, which asks for its *)
(* properties first.                                                         *)
ConditionOfLines(f, ref) ==
    IF ref = <<"pT">> THEN HasStats(f)
    ELSE IF ref = <<"pL">> THEN HasStats(f) /\ f.stats.lines_total > 0
    ELSE IF ref \in {<<"pTL">>, <<"pTF">>, <<"pTB">>}
    THEN HasStats(f) /\ f.stats.lines.relevant > 0
    ELSE IF \E n \in 1..4 : ref = <<<<"H1", "H2", "H3", "H4">>[n]>>
    THEN \E n \in 1..4 : ref = <<<<"H1", "H2", "H3", "H4">>[n]>> /\ HasId(f, n) /\ f.ids[n] # Zero
    ELSE IF ref = <<"rd">> THEN Added(f) # 0
    ELSE IF ref = <<"git">> THEN HasGit(f)
    ELSE Loop(f, ref) # <<>>

Condition(f, ref) ==
    IF ref = <<"pT">> THEN HasStats(f)
    ELSE IF ref = <<"pL">> THEN HasStats(f) /\ f.stats.lines_total > 0
    ELSE IF ref \in {<<"pTL">>, <<"pTF">>, <<"pTB">>}
    THEN HasStats(f) /\ Measure(f, CASE ref = <<"pTL">> -> "L" [] ref = <<"pTF">> -> "F"
                                     [] ref = <<"pTB">> -> "B").relevant > 0
    ELSE IF \E n \in 1..4 : ref = <<<<"H1", "H2", "H3", "H4">>[n]>>
    THEN \E n \in 1..4 : ref = <<<<"H1", "H2", "H3", "H4">>[n]>> /\ HasId(f, n) /\ f.ids[n] # Zero
    ELSE IF ref = <<"rd">> THEN Added(f) # 0
    ELSE IF ref = <<"git">> THEN HasGit(f)
    ELSE Loop(f, ref) # <<>>

BuildCondition(f, ref) ==
    IF ref \in {<<>>, <<"prop">>} THEN f.props # <<>> ELSE Condition(f, ref)

ConditionHolds(f, ref) == IF f.kind = "build" THEN BuildCondition(f, ref) ELSE Condition(f, ref)

-----------------------------------------------------------------------------
(* formatted_output: the text in paragraphs, each filled up to the width.    *)
(* The length is calculated in unsigned numbers.                             *)
WordsIn(s) == SelectSeq(SplitBy([i \in DOMAIN s |-> IF s[i] \in Space THEN " " ELSE s[i]], " "),
                        LAMBDA w : w # <<>>)

Blanks(n) == [i \in 1..n |-> " "]

FillFlush(words, indent, length) ==
    FoldLeft(LAMBDA st, word :
               LET breaks == st.index > 0 /\ st.index + Len(word) > length
                   index == IF breaks THEN 0 ELSE IF st.index > 0 THEN st.index + 1 ELSE 0
               IN  [out |-> st.out \o (IF breaks THEN <<LF>> ELSE IF st.index > 0 THEN <<" ">> ELSE <<>>)
                              \o (IF index = 0 THEN Blanks(indent) ELSE <<>>) \o word,
                    index |-> index + Len(word)],
             [out |-> <<>>, index |-> 0], words).out

Fill(words, indent, length) ==
    FoldLeft(LAMBDA st, word :
               LET breaks == st.index > 0 /\ st.index + Len(word) + 1 > length
                   index == IF breaks THEN 0 ELSE IF st.index > 0 THEN st.index + 1 ELSE 0
               IN  [out |-> st.out \o (IF breaks THEN <<LF>> ELSE IF st.index > 0 THEN <<" ">> ELSE <<>>)
                              \o (IF index = 0 THEN Blanks(indent) ELSE <<>>) \o word,
                    index |-> index + Len(word)],
             [out |-> <<>>, index |-> 0], words).out

RECURSIVE Paragraphs(_, _, _)
Paragraphs(view, width, indent) ==
    LET gaps == {i \in 1..Len(view) - 1 : view[i] = LF /\ view[i + 1] = LF}
        pos == IF gaps = {} THEN Len(view) + 1 ELSE CHOOSE i \in gaps : \A j \in gaps : i <= j
        rest == Lstrip(From(view, pos))
    IN  IF view = <<>> THEN <<>>
        ELSE Fill(WordsIn(Before(view, pos)), indent, (width.total - indent) % U32)
               \o (IF rest = <<>> THEN <<>> ELSE <<LF, LF>>)
               \o Paragraphs(rest, width, width.indent2)

FormattedOutput(text, width) ==
    IF width = NoWidth THEN text ELSE Paragraphs(Strip(text), width, width.indent1)

SubjectFrom(message) == Strip(Before(message, FirstOf(message, 1, {LF})))
BodyFrom(message) == Strip(From(message, FirstOf(message, 1, {LF}) + 1))

(* sanitized_subject: runs of other characters become one dash, between      *)
(* title characters only, and runs of dots one dot.                          *)
TitleChars == {"a", "b", ".", "_"}
SanitizedSubject(message) ==
    FoldLeft(LAMBDA st, c :
               IF c = "." /\ st.seen_dot THEN st
               ELSE [seen_dot |-> c = ".",
                     space |-> IF c \in TitleChars THEN 0 ELSE IF st.space = 0 THEN 1 ELSE st.space,
                     out |-> IF c \notin TitleChars THEN st.out
                             ELSE st.out \o (IF st.space = 1 THEN <<"-", c>> ELSE <<c>>)],
             [seen_dot |-> FALSE, space |-> 2, out |-> <<>>], message).out

-----------------------------------------------------------------------------
(* relative_date: how long ago, in the unit that suits; the pieces said.     *)
(* Each unit is rounded from the one below it.                               *)
Day == 24 * 60 * 60

\* Mutant of Rounded: the cast alone, which cuts.
RoundedDown(n, unit) == n \div unit
Rounded(n, unit) == (n + unit \div 2) \div unit

RelativeDate(now, then) ==
    LET secs == now - then
        mins == Rounded(secs, 60)
        hrs == Rounded(mins, 60)
        days == Rounded(hrs, 24)
        total == Rounded(days * 24, 730)
    IN  IF now < then THEN <<<<"future", 0>>>>
        ELSE IF secs < 90 THEN <<<<"seconds", secs>>>>
        ELSE IF mins < 90 THEN <<<<"minutes", mins>>>>
        ELSE IF hrs < 36 THEN <<<<"hours", hrs>>>>
        ELSE IF days < 14 THEN <<<<"days", days>>>>
        ELSE IF days < 70 THEN <<<<"weeks", Rounded(days, 7)>>>>
        ELSE IF days < 365 THEN <<<<"months", Rounded(days, 30)>>>>
        ELSE IF days < 1825
        THEN <<<<"years", total \div 12>>>>
               \o (IF total % 12 = 0 THEN <<>> ELSE <<<<"months", total % 12>>>>)
        ELSE <<<<"years", (days + 183) \div 365>>>>

(* apply_mark: the products are unsigned; the fractions are reduced first.   *)
RECURSIVE Gcd(_, _)
Gcd(a, b) == IF b = 0 THEN a ELSE Gcd(b, a % b)
Reduced(r) == LET g == Gcd(r[1], r[2]) IN IF g = 0 THEN r ELSE <<r[1] \div g, r[2] \div g>>

Below(q, r) == (q[1] * r[2]) % U32 < (r[1] * q[2]) % U32

ApplyMark(stats, marks) ==
    LET ratio == Reduced(<<stats.visited, stats.relevant>>)
    IN  IF stats.relevant = 0 \/ marks.incomplete[2] = 0 \/ marks.passing[2] = 0 THEN "failing"
        ELSE IF Below(ratio, Reduced(marks.incomplete)) THEN "failing"
        ELSE IF Below(ratio, Reduced(marks.passing)) THEN "incomplete" ELSE "passing"

RatingInOrder(one, other) == [incomplete |-> one, passing |-> other]

(* base_rating_from: two ratios in any order; the lower one is for           *)
(* incomplete.  The common divisors are taken out before comparing.          *)
RatingFrom(one, other) ==
    LET nums == Gcd(one[1], other[1])
        dens == Gcd(one[2], other[2])
        a == <<one[1] \div nums, one[2] \div dens>>
        b == <<other[1] \div nums, other[2] \div dens>>
    IN  IF Below(b, a) THEN [incomplete |-> other, passing |-> one]
        ELSE [incomplete |-> one, passing |-> other]

(* ratio_from: the parts of one text, <<n, "/", d>> or <<n, "%">>; what is    *)
(* neither is no ratio.                                                      *)
RatioFrom(text) ==
    IF Len(text) = 3 /\ text[2] = "/" /\ text[3] # 0 THEN {Reduced(<<text[1], text[3]>>)}
    ELSE IF Len(text) = 2 /\ text[2] = "%" THEN {Reduced(<<text[1], 100>>)} ELSE {}

(* The texts around the comma of the key's value, or of core.rating's.       *)
BaseRatingFrom(own, core) ==
    LET value == IF own # <<>> THEN own ELSE core
        ratios == IF Len(value) = 2 THEN RatioFrom(value[1]) \X RatioFrom(value[2]) ELSE {}
    IN  IF ratios = {} THEN [incomplete |-> <<3, 4>>, passing |-> <<9, 10>>]
        ELSE LET r == CHOOSE pair \in ratios : TRUE IN RatingFrom(r[1], r[2])

(* context::format of a color: a rating becomes the color of its mark.  The  *)
(* marks are those of the rating's kind, the statistics always the lines'.   *)
MarkOf(color, f, marks) ==
    LET kind == IF color = "rating:F" THEN "F" ELSE IF color = "rating:B" THEN "B" ELSE "L"
        lines == IF HasStats(f) THEN f.stats.lines ELSE [relevant |-> 0, visited |-> 0]
        mark == ApplyMark(lines, marks[kind])
    IN  CASE mark = "failing" -> "red" [] mark = "incomplete" -> "yellow" [] mark = "passing" -> "green"

Colored(color, f, env) ==
    IF ~env.colorize THEN <<>>
    ELSE <<<<"color", color[1], IF color[2] \in Ratings THEN MarkOf(color[2], f, env.marks) ELSE color[2]>>>>

-----------------------------------------------------------------------------
(* refs::format and format_properties: a list in parentheses, its colors     *)
(* closed; the branch HEAD is on stands only beside HEAD.                    *)
Said(s) == <<<<"said", s>>>>
Painted(magic, color, s, f, env) ==
    IF magic THEN Colored(color, f, env) \o s \o Colored(<<"", "reset">>, f, env) ELSE s

Closed(list, wrapped, end) == IF wrapped /\ list # <<>> THEN list \o end ELSE list

Listed(items, wrapped, magic, color, f, env) ==
    LET mark(text) == Painted(magic, color, Said(text), f, env)
    IN  Closed(FoldLeft(LAMBDA out, item : out \o (IF out # <<>> THEN mark(", ")
                                                 ELSE IF wrapped THEN mark(" (") ELSE <<>>) \o item,
                        <<>>, items),
               wrapped, mark(")"))

RefNames(f, wrapped, magic, env) ==
    LET id == f.ids[1]
        names == env.names
        head == IF names.HEAD_ref # id THEN <<>>
                ELSE IF names.HEAD = "" THEN <<Painted(magic, <<"bold", "cyan">>, Said("HEAD"), f, env)>>
                ELSE <<Painted(magic, <<"bold", "cyan">>, Said("HEAD -> "), f, env)
                         \o Painted(magic, <<"bold", "green">>, Said(names.HEAD), f, env)>>
        tags == SelectSeq(names.tags, LAMBDA t : t[2] = id)
        heads == SelectSeq(names.heads, LAMBDA h : h[2] = id /\ h[1] # names.HEAD)
    IN  Listed(head
               \o [i \in DOMAIN tags |-> Painted(magic, <<"bold", "yellow">>,
                                                  Said("tag: ") \o Said(tags[i][1]), f, env)]
               \o [i \in DOMAIN heads |-> Painted(magic, <<"bold", "green">>, Said(heads[i][1]), f, env)],
               wrapped, magic, <<"", "yellow">>, f, env)

Properties(f, wrapped, magic, env) ==
    Listed([i \in DOMAIN f.props |-> Painted(magic, <<"faint", "yellow">>, Said(f.props[i]), f, env)],
           wrapped, magic, <<"faint", "yellow">>, f, env)

NamesOf(f, value, env) ==
    LET letter == Names(value.word)
        magic == Head(value.word) = "m"
        wrapped == letter \in {"d", "z"}
    IN  IF ~env.decorate THEN <<>>
        ELSE IF letter \in {"d", "D"} /\ f.kind = "report" THEN RefNames(f, wrapped, magic, env)
        ELSE IF letter \in {"z", "Z"} /\ f.kind = "build" THEN Properties(f, wrapped, magic, env)
        ELSE <<>>

-----------------------------------------------------------------------------
(* One placeholder; everything but texts, messages and people ends wrapping. *)
Rank(letters, c) == CHOOSE n \in 1..4 : c \in letters[n]
Printed(out, width) == [out |-> out, width |-> width]

Person(who, letter, at, env) ==
    IF letter = "r" THEN RelativeDate(env.now, at) ELSE <<<<"person", who, letter, at>>>>

StatsOf(f, word, env) ==
    IF ~HasStats(f) THEN <<>>
    ELSE IF Len(word) = 2 THEN <<<<"number", f.stats.lines_total>>>>
    ELSE LET s == Measure(f, word[3])
         IN  CASE word[2] = "P" -> <<<<"percent", Calc(s, 0).whole>>>>
               [] word[2] = "T" -> <<<<"number", s.relevant>>>>
               [] word[2] = "V" -> <<<<"number", s.visited>>>>
               [] word[2] = "r" -> <<<<"mark", ApplyMark(s, env.marks[word[3]])>>>>

CommitField(word, f, width) ==
    CASE word = <<"s">> -> FormattedOutput(SubjectFrom(f.message), width)
      [] word = <<"f">> -> SanitizedSubject(SubjectFrom(f.message))
      [] word = <<"b">> -> FormattedOutput(BodyFrom(f.message), width)
      [] word = <<"B">> -> FormattedOutput(Strip(f.message), width)
      [] word = <<"r", "D">> -> <<<<"branch", f.branch>>>>

FormatWord(word, f, env, width) ==
    LET c == Head(word)
    IN  CASE c \in {"%", "n", "x"} -> Printed(<<word>>, width)
          [] c = "C" -> Printed(Colored(<<"", CASE word[2] = "g" -> "green" [] word[2] = "b" -> "blue"
                                                [] word[4] = "d" -> "red" [] OTHER -> "reset">>, f, env), NoWidth)
          [] c \in {"s", "f", "b", "B"} \/ word = <<"r", "D">> ->
               Printed(IF HasGit(f) THEN CommitField(word, f, width) ELSE <<>>, width)
          [] c = "r" /\ word[2] # "D" -> Printed(IF f.kind = "none" THEN <<>> ELSE Person("reporter", word[2], Added(f), env), width)
          [] c \in {"a", "c"} ->
               Printed(IF HasGit(f) THEN Person(c, word[2], f.committed, env) ELSE <<>>, width)
          [] c \in {"H", "h"} ->
               LET n == Rank(HashLetters, word[2])
               IN  Printed(IF HasId(f, n) THEN <<<<"hash", c, f.ids[n]>>>> ELSE <<>>, NoWidth)
          [] c = "L" -> Printed(LET label == Labels(f)[Rank(LabelLetters, word[2])]
                                IN  IF label = "" THEN <<>> ELSE Said(label), NoWidth)
          [] c = "p" -> Printed(StatsOf(f, word, env), NoWidth)

RECURSIVE FormatAll(_, _, _, _)
Then(st, r) == Printed(st.out \o r.out, r.width)
FormatWith(op, f, env, width) ==
    CASE op.kind = "text" -> Printed(op.text, width)
      [] op.kind = "width" -> Printed(<<>>, op.value)
      [] op.kind = "word" -> FormatWord(op.value, f, env, width)
      [] op.kind = "color" -> Printed(Colored(op.value, f, env), NoWidth)
      [] op.kind = "names" -> Printed(NamesOf(f, op.value, env), NoWidth)
      [] op.kind = "if" ->
           IF ConditionHolds(f, op.value) THEN FormatAll(op.opcodes, f, env, width) ELSE Printed(<<>>, width)
      [] op.kind = "loop" ->
           FoldLeft(LAMBDA st, item : Then(st, FormatAll(op.opcodes, item, env, st.width)),
                    Printed(<<>>, width), Loop(f, op.value))

FormatAll(opcodes, f, env, width) ==
    FoldLeft(LAMBDA st, op : Then(st, FormatWith(op, f, env, st.width)), Printed(<<>>, width), opcodes)

Format(template, f, env) == FormatAll(FormatterFrom(template), f, env, NoWidth).out
=============================================================================

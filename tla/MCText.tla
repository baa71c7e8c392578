------------------------------- MODULE MCText -------------------------------
(* Templates, messages, dates and ratings, over every small input. *)
EXTENDS Subject, Formatter

CONSTANTS MaxPieces     \* the longest template, in pieces

(* Placeholders, written as they are parsed, and pieces that are none. *)
Good == {<<"%", "n">>, <<"%", "%">>, <<"%", "x", "2", "5">>, <<"%", "h", "R">>, <<"%", "m", "d">>,
         <<"%", "d", "(", "4", ")">>, <<"%", "C", "(", "bold", " ", "red", ")">>,
         <<"%", "C", "r", "e", "d">>, <<"%", "w", "(", "9", ",", "1", ",", "2", ")">>,
         <<"%", "w", "(", ")">>, <<"%", "p", "P", "L">>, <<"%", "{", "?", "H2", "[">>,
         <<"%", "{", "B", "[">>, <<"%", "]", "}">>}
Broken == {<<"a">>, <<"%">>, <<"%", "q">>, <<"%", "H">>, <<"%", "C", "r", "e">>, <<"%", "x", "4">>,
           <<"%", "C", "(", "x", ")">>, <<"%", "w", "(", "9", ",", "9", ",", "2", ")">>,
           <<"%", "d", "(", "4">>, <<"%", "m">>, <<"%", "C", "(">>, <<"%", "w", "(">>, <<"%", "{">>}

InitTemplate ==
    \E pieces \in SeqOf(Good \cup Broken, MaxPieces) :
        subject = [part |-> "template", pieces |-> pieces]

Objects0 ==
    LET ids(n) == [1..n -> {"id", Zero}]
        count == [relevant : {0, 4}, visited : {0}]
        stats == [lines_total : {0, 9}, lines : count, functions : count, branches : count]
        build == [kind : {"build"}, ids : {<<"b", "files">>}, readable : BOOLEAN, added : {7},
                  stats : stats, props : {<<>>, <<"os">>}]
        some == CHOOSE b \in build : TRUE
    IN  build \cup [kind : {"files"}, ids : {<<"f">>}] \cup {NoObject}
        \cup [kind : {"file"}, ids : ids(4), stats : {CHOOSE s \in stats : TRUE}]
        \cup [kind : {"report"}, ids : ids(4), added : {0, 7}, committed : {7}, branch : {"main"},
              message : {<<"a">>}, stats : stats, builds : {<<>>, <<some, some>>}]

InitObject == \E f \in Objects0 : subject = [part |-> "printed", of |-> f]

Widths == {[total |-> t, indent1 |-> i, indent2 |-> j] : t \in {5, 7}, i \in {0, 1, 6}, j \in {0, 3}}
Lines0 == SeqOf({<<"a">>, <<"b", "b", "b">>, <<" ">>, <<LF>>, <<LF, LF>>, <<".", ".">>, <<"*">>}, 4)
InitMessage ==
    \E pieces \in Lines0, width \in Widths :
        subject = [part |-> "message", text |-> FlattenSeq(pieces), width |-> width]

(* The ages at which relative_date comes to the next second, minute, hour or *)
(* day, each of these rounded from the one before: where all of its steps    *)
(* start, up to years that are told in years alone.                          *)
DayStart(d) == 60 * (60 * (24 * d - 12) - 30) - 30
Starts == 0..90 \cup {60 * m - 30 : m \in 2..90} \cup {60 * (60 * h - 30) - 30 : h \in 2..36}
            \cup {DayStart(d) : d \in 2..3000}
InitDated == \E age \in Starts, d \in {-1, 0} : subject = [part |-> "dated", age |-> age + d]

RatioTexts == {<<0, "%">>, <<3, "/", 4>>, <<90, "%">>, <<1, "/", 1>>, <<2, "/", 4>>, <<1, "/", 0>>, <<1>>}
InitJudged ==
    \E visited \in 0..8, relevant \in {0, 8}, one, other \in RatioTexts, own \in BOOLEAN :
        /\ visited <= relevant /\ <<one[1], other[1]>> # <<0, 0>>
        /\ subject = [part |-> "judged", own |-> own, stats |-> [relevant |-> relevant, visited |-> visited],
                      one |-> one, other |-> other]

InitText == InitTemplate \/ InitObject \/ InitMessage \/ InitDated \/ InitJudged

-----------------------------------------------------------------------------
TextOf(tokens) ==
    FlattenSeq([i \in DOMAIN tokens |-> IF tokens[i].kind = "text" THEN tokens[i].text
                                        ELSE <<"%">> \o tokens[i].text])

RECURSIVE Flattened(_)
Flattened(ops) ==
    FlattenSeq([i \in DOMAIN ops |->
        <<ops[i].text>> \o IF ops[i].kind \in {"if", "loop"} THEN Flattened(ops[i].opcodes) ELSE <<>>])

KeepsText(in, tokens, parsed) ==
    LET kept == SelectSeq(tokens, LAMBDA t : t.kind # "end")
        wellFormed == SelectSeq(subject.pieces, LAMBDA p : p \in Good)
        placeholders == SelectSeq(tokens, LAMBDA t : t.kind # "text")
    IN  /\ TextOf(tokens) = in
        /\ Range(subject.pieces) \subseteq Good \cup {<<"a">>} =>
             [i \in DOMAIN placeholders |-> <<"%">> \o placeholders[i].text] = wellFormed
        /\ Flattened(parsed) = [i \in DOMAIN kept |-> kept[i].text]

(* TemplateKept: formatter::from loses no text: what is no placeholder is    *)
(* printed as it stands, what was swallowed looking for the end of a broken  *)
(* one included.  A placeholder is found wherever it does not stand inside   *)
(* another, and each is printed once, whatever the blocks around it.         *)
TemplateKept ==
    subject.part = "template" =>
        LET in == FlattenSeq(subject.pieces) IN KeepsText(in, Tokens(in, 1, 1), FormatterFrom(in))

Plain == [now |-> 100, decorate |-> TRUE, colorize |-> FALSE,
          marks |-> [c \in Measured |-> [incomplete |-> <<3, 4>>, passing |-> <<9, 10>>]],
          names |-> [HEAD |-> "main", HEAD_ref |-> "id", tags |-> <<<<"v1", "id">>, <<"v2", "x">>>>,
                     heads |-> <<<<"main", "id">>, <<"dev", "id">>>>]]

(* A question and the placeholder it is asked for. *)
Asked == {<<<<"H1">>, <<"H", "1">>>>, <<<<"H2">>, <<"H", "2">>>>, <<<<"H3">>, <<"h", "P">>>>,
          <<<<"H4">>, <<"H", "G">>>>, <<<<"pL">>, <<"p", "L">>>>, <<<<"pTL">>, <<"p", "T", "L">>>>,
          <<<<"pTF">>, <<"p", "T", "F">>>>, <<<<"pTB">>, <<"p", "T", "B">>>>,
          <<<<"rd">>, <<"r", "t">>>>, <<<<"git">>, <<"r", "D">>>>, <<<<"prop">>, <<"m", "Z">>>>,
          <<<<"B">>, <<"{", "B", "[", "%", "h", "R", "%", "]", "}">>>>}

SaysNothing(out) ==
    \/ out = <<>>
    \/ Len(out) = 1 /\ out[1][1] = "hash" /\ out[1][3] = Zero
    \/ Len(out) = 1 /\ out[1][1] = "number" /\ out[1][2] = 0
    \/ Len(out) = 1 /\ out[1][1] = "person" /\ out[1][4] = 0

IfSaid(out) == IF SaysNothing(out) THEN <<>> ELSE out

(* OptionalOutput: a block that asks for something prints its placeholder    *)
(* exactly when that has something to say about the object: the facades'     *)
(* conditions agree with what they hand out, for every kind of object.       *)
OptionalOutput ==
    subject.part = "printed" =>
        \A a \in Asked :
            LET placeholder == <<"%">> \o a[2]
                guarded == <<"%", "{", "?">> \o a[1] \o <<"[">> \o placeholder \o <<"%", "]", "}">>
            IN  Format(guarded, subject.of, Plain) = IfSaid(Format(placeholder, subject.of, Plain))

(* WrappedText: filled to a width, a message keeps its words in their order, *)
(* and no line that holds more than one of them is too long.  The subject in *)
(* a file name has no dash at its ends, none doubled and no two dots.        *)
WrappedText ==
    subject.part = "message" =>
        LET w == subject.width
            out == FormattedOutput(subject.text, w)
            lines == SplitBy(out, LF)
            name == SanitizedSubject(subject.text)
        IN  /\ WordsIn(out) = WordsIn(subject.text)
            /\ w.indent1 < w.total =>
                 \A i \in DOMAIN lines : Len(lines[i]) <= w.total \/ Len(WordsIn(lines[i])) = 1
            /\ \A i \in 1..Len(name) - 1 : <<name[i], name[i + 1]>> \notin {<<"-", "-">>, <<".", ".">>}
            /\ name # <<>> => name[1] # "-" /\ Last(name) # "-"

(* A month that stands alone has 30 days; beside years, twelve are a year.   *)
Month(said) == IF said[1][1] = "months" THEN 30 * Day ELSE (365 * Day) \div 12
SecondsIn(said) == [seconds |-> 1, minutes |-> 60, hours |-> 3600, days |-> Day, weeks |-> 7 * Day,
                    months |-> Month(said), years |-> 365 * Day]
Told(said) == FoldLeft(LAMBDA n, p : n + p[2] * SecondsIn(said)[p[1]], 0, said)

(* What rounding the smaller units before it may add to the error. *)
Slack == [seconds |-> 0, minutes |-> 0, hours |-> 30, days |-> 1830, weeks |-> Day, months |-> Day, years |-> 2 * Day]

TellsAge(age, said) ==
    LET unit == IF said[1][1] = "years" /\ age < DayStart(1825) THEN "months" ELSE Last(said)[1]
        error == IF Told(said) < age THEN age - Told(said) ELSE Told(said) - age
    IN  2 * error <= SecondsIn(said)[unit] + 2 * Slack[unit]

(* DatesTold: only a date to come is told as one.  How long ago another one  *)
(* is, is told with an error of no more than half the smallest unit that is  *)
(* counted, and what the rounding to seconds, minutes, hours and days before *)
(* adds to that; a second later it is never told as more recent, but for one *)
(* place: 10 weeks become 2 months at 70 days.                               *)
DatesTold ==
    subject.part = "dated" =>
        LET said == RelativeDate(0, -subject.age)
            later == RelativeDate(0, -(subject.age + 1))
        IN  IF subject.age < 0 THEN said = <<<<"future", 0>>>>
            ELSE /\ TellsAge(subject.age, said)
                 /\ Told(later) >= Told(said) \/ <<said, later>> = <<<<<<"weeks", 10>>>>, <<<<"months", 2>>>>>>

Fraction(text) == <<text[1], IF Len(text) = 3 THEN text[3] ELSE IF Len(text) = 2 THEN 100 ELSE 0>>
LessRatio(a, b) == a[1] * b[2] < b[1] * a[2]

(* JudgedRight: where there is something to cover, a mark is the place of    *)
(* the ratio among the two configured ones, fractions or percentages in      *)
(* whichever order they were given, or among 75% and 90% when one of them    *)
(* cannot be read.  Left out: two configured ratios that are both zero.      *)
JudgedRight ==
    subject.part = "judged" =>
        LET value == <<subject.one, subject.other>>
            marks == IF subject.own THEN BaseRatingFrom(value, <<<<1, "/", 2>>, <<1, "/", 3>>>>)
                     ELSE BaseRatingFrom(<<>>, value)
            asked == {Fraction(subject.one), Fraction(subject.other)}
            bars == IF \E r \in asked : r[2] = 0 THEN {<<3, 4>>, <<9, 10>>} ELSE asked
            covered == <<subject.stats.visited, subject.stats.relevant>>
        IN  subject.stats.relevant > 0 =>
              ApplyMark(subject.stats, marks) =
                 IF \A r \in bars : LessRatio(covered, r) THEN "failing"
                 ELSE IF \E r \in bars : LessRatio(covered, r) THEN "incomplete" ELSE "passing"
=============================================================================

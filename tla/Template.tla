------------------------------ MODULE Template ------------------------------
(* formatter::from: a template text becomes text, placeholders and blocks.   *)
(* A placeholder is kept as the letters that spell it.  The name between the *)
(* parentheses of a color, or before the bracket of a block, is one symbol.  *)
EXTENDS Texts

None == <<>>    \* std::nullopt
HexDigits == Range(Digits) \cup {"a", "b", "c", "d", "e", "f", "A", "B", "C", "D", "E", "F"}

(* parse_hash, parse_labels: the letters for the first to the fourth object. *)
HashLetters == <<{"R", "C", "1"}, {"F", "L", "2"}, {"P", "f", "3"}, {"G", "B", "4"}>>
LabelLetters == <<{"n", "1"}, {"2"}, {"3"}, {"4"}>>
DateLetters == {"d", "r", "t", "i", "I", "s"}
StatLetters == {"P", "T", "V", "r"}     \* percent, total, visited, rating
Measured == {"L", "F", "B"}              \* lines, functions, branches

HexWords == {<<"x", hi, lo>> : hi, lo \in HexDigits}
ReportWords == {<<"r", c>> : c \in DateLetters \cup {"D"}}
StatWords == {<<"p", "L">>} \cup {<<"p", s, c>> : s \in StatLetters, c \in Measured}
PersonWords == {<<w, c>> : w \in {"a", "c"}, c \in DateLetters \cup {"n", "e", "l"}}

(* parser::parse: every placeholder that is a fixed run of letters. *)
Words ==
    {<<c>> : c \in {"%", "n", "s", "f", "b", "B"}}
    \cup {<<"]", "}">>}
    \cup {<<"C", "g", "r", "e", "e", "n">>, <<"C", "b", "l", "u", "e">>,
          <<"C", "r", "e", "d">>, <<"C", "r", "e", "s", "e", "t">>}
    \cup {<<h, c>> : h \in {"H", "h"}, c \in UNION Range(HashLetters)}
    \cup {<<"L", c>> : c \in UNION Range(LabelLetters)}
    \cup HexWords \cup ReportWords \cup StatWords \cup PersonWords

Started == UNION {Prefixes(w) : w \in Words}

(* find_color *)
Palette == {"red", "green", "yellow", "blue", "magenta", "cyan"}
Ratings == {"rating", "rating:L", "rating:F", "rating:B"}
Colors ==
    {<<"", c>> : c \in Palette \cup Ratings \cup {"normal", "reset"}}
    \cup {<<"bold", c>> : c \in Palette \cup Ratings \cup {"normal"}}
    \cup {<<"faint", c>> : c \in Palette \cup Ratings \cup {"normal"}}
    \cup {<<"bg", c>> : c \in Palette \cup Ratings}
FindColor(name) ==
    LET hit == {c \in Colors : name = IF c[1] = "" THEN <<c[2]>> ELSE <<c[1], " ", c[2]>>}
    IN  IF hit = {} THEN None ELSE CHOOSE c \in hit : TRUE

Names(word) == IF Head(word) = "m" THEN word[2] ELSE word[1]
NameWords == {<<c>> : c \in {"D", "d", "Z", "z"}} \cup {<<"m", c>> : c \in {"D", "d", "Z", "z"}}

-----------------------------------------------------------------------------
(* Each parse returns the token, or None, and where the cursor was left.     *)
Result(token, cur) == [token |-> token, cur |-> cur]
Fails(cur) == Result(None, cur)
Placeholder(kind, in, from, to, value) ==
    Result([kind |-> kind, text |-> SubSeq(in, from, to - 1), value |-> value], to)

(* The switches over the next letter: the cursor stops at the first letter   *)
(* that continues no placeholder.                                            *)
ParseWord(in, cur) ==
    LET n == CHOOSE n \in 0..Len(in) - cur + 1 :
                /\ SubSeq(in, cur, cur + n - 1) \in Started
                /\ \A k \in n + 1..Len(in) - cur + 1 : SubSeq(in, cur, cur + k - 1) \notin Started
        word == SubSeq(in, cur, cur + n - 1)
    IN  IF word \in Words
        THEN Placeholder(IF word = <<"]", "}">> THEN "end" ELSE "word", in, cur, cur + n, word)
        ELSE Fails(cur + n)

(* %C(name) *)
ParseColor(in, cur) ==
    LET close == FirstOf(in, cur + 2, {")"})
        color == FindColor(SubSeq(in, cur + 2, close - 1))
    IN  IF cur + 2 > Len(in) \/ close > Len(in) THEN Fails(Len(in) + 1)
        ELSE IF color = None THEN Fails(close + 1)
        ELSE Placeholder("color", in, cur, close + 1, color)

(* %w([total[,indent1[,indent2]]]): the indents are compared with the total  *)
(* only when all three are given.                                            *)
DefaultWidth == [total |-> 76, indent1 |-> 6, indent2 |-> 9]
WidthOf(args) ==
    LET parts == SplitBy(args, ",")
        arg(i) == NumberOf(Strip(parts[i]))
    IN  IF args = <<>> THEN DefaultWidth
        ELSE IF Len(parts) > 3 \/ \E i \in DOMAIN parts : ~IsDigits(Strip(parts[i])) THEN None
        ELSE IF Len(parts) = 1 THEN [DefaultWidth EXCEPT !.total = arg(1)]
        ELSE IF Len(parts) = 2 THEN [total |-> arg(1), indent1 |-> arg(2), indent2 |-> arg(2)]
        ELSE IF arg(2) >= arg(1) \/ arg(3) >= arg(1) THEN None
        ELSE [total |-> arg(1), indent1 |-> arg(2), indent2 |-> arg(3)]

ParseWidth(in, cur) ==
    LET close == FirstOf(in, cur + 2, {")"})
        width == WidthOf(Strip(SubSeq(in, cur + 2, close - 1)))
    IN  IF cur + 1 > Len(in) \/ in[cur + 1] # "(" THEN Fails(cur + 1)
        ELSE IF close > Len(in) THEN Fails(close)
        ELSE IF width = None THEN Fails(close + 1)
        ELSE Placeholder("width", in, cur, close + 1, width)

(* %d, %D, %z, %Z and their magic forms, with an indent in parentheses; a    *)
(* broken one gives the cursor back.                                         *)
ParseNames(in, cur, word) ==
    LET open == cur + Len(word)
        close == FirstNotOf(in, open + 1, Range(Digits))
        indent == NumberOf(SubSeq(in, open + 1, close - 1))
    IN  IF open > Len(in) \/ in[open] # "("
        THEN Placeholder("names", in, cur, open, [word |-> word, indent |-> 0])
        ELSE IF close > Len(in) \/ in[close] # ")" THEN Fails(open)
        ELSE Placeholder("names", in, cur, close + 1, [word |-> word, indent |-> indent])

(* %{name[ and %{?name[ *)
StartBlock(in, cur) ==
    LET asks == cur + 1 <= Len(in) /\ in[cur + 1] = "?"
        name == IF asks THEN cur + 2 ELSE cur + 1
        open == FirstOf(in, name, {"["})
    IN  IF open > Len(in) THEN Fails(open)
        ELSE Placeholder(IF asks THEN "if" ELSE "loop", in, cur, open + 1, SubSeq(in, name, open - 1))

Parse(in, cur) ==
    LET nameWords == {w \in NameWords : IsPrefix(w, From(in, cur))}
    IN  IF cur > Len(in) THEN Fails(cur)
        ELSE IF in[cur] = "{" THEN StartBlock(in, cur)
        ELSE IF in[cur] = "w" THEN ParseWidth(in, cur)
        ELSE IF in[cur] = "C" /\ cur < Len(in) /\ in[cur + 1] = "(" THEN ParseColor(in, cur)
        ELSE IF nameWords # {} THEN ParseNames(in, cur, CHOOSE w \in nameWords : TRUE)
        ELSE IF in[cur] = "m" THEN Fails(cur + 1)
        ELSE ParseWord(in, cur)

TextToken(s) == IF s = <<>> THEN <<>> ELSE <<[kind |-> "text", text |-> s, value |-> s]>>

(* formatter::from, the first loop: prev is where the text not yet emitted   *)
(* starts; a failed placeholder leaves it alone.                             *)
RECURSIVE Tokens(_, _, _)
TokensTextLost(in, cur, prev) ==
    LET percent == FirstOf(in, cur, {"%"})
        r == Parse(in, percent + 1)
    IN  IF percent > Len(in) THEN TextToken(From(in, prev))
        ELSE IF r.token = None THEN Tokens(in, r.cur, r.cur)
        ELSE TextToken(SubSeq(in, prev, percent - 1)) \o <<r.token>> \o Tokens(in, r.cur, r.cur)

TokensAt(in, prev, percent, r) ==
    IF percent > Len(in) THEN TextToken(From(in, prev))
    ELSE IF r.token = None THEN Tokens(in, r.cur, prev)
    ELSE TextToken(SubSeq(in, prev, percent - 1)) \o <<r.token>> \o Tokens(in, r.cur, r.cur)

Tokens(in, cur, prev) ==
    LET percent == FirstOf(in, cur, {"%"}) IN TokensAt(in, prev, percent, Parse(in, percent + 1))

(* The second loop: blocks become nested; an end with no block open is       *)
(* dropped and blocks left open end with the template.                       *)
Pop(stack) ==
    LET n == Len(stack)
        inner == stack[n]
        outer == stack[n - 1]
    IN  IF n < 2 THEN stack
        ELSE SubSeq(stack, 1, n - 2)
               \o <<Front(outer) \o <<[Last(outer) EXCEPT !.opcodes = inner]>>>>

PushToken(stack, token) ==
    LET n == Len(stack)
        block == [kind |-> token.kind, text |-> token.text, value |-> token.value, opcodes |-> <<>>]
    IN  IF token.kind = "end" THEN Pop(stack)
        ELSE IF token.kind \in {"if", "loop"}
        THEN [stack EXCEPT ![n] = Append(@, block)] \o <<<<>>>>
        ELSE [stack EXCEPT ![n] = Append(@, token)]

RECURSIVE PopAll(_)
PopAll(stack) == IF Len(stack) > 1 THEN PopAll(Pop(stack)) ELSE stack[1]

FormatterFrom(in) == PopAll(FoldLeft(PushToken, <<<<>>>>, Tokens(in, 1, 1)))
=============================================================================

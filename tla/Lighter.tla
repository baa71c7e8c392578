------------------------------ MODULE Lighter ------------------------------
(* From the tokens a grammar found in a text to the highlighted lines show   *)
(* prints (hilite.cc, lighter.cc).  A token is a range [start, stop) of the  *)
(* text and a kind; an end of line is where the next line starts and how     *)
(* long the line break before it is.                                         *)
EXTENDS Integers, Sequences, SequencesExt, FiniteSets

Token(start, stop, kind) == [start |-> start, stop |-> stop, kind |-> kind]
Endline(offset, size) == [offset |-> offset, size |-> size]

(* sort_uniq: a stable sort, and neighbours that are equal kept once.        *)
(* Tokens that start together are ordered from the longest.                  *)
StableSort(s, Less(_, _)) ==
    LET before(j, i) == Less(s[j], s[i]) \/ (~Less(s[i], s[j]) /\ j < i)
        order == SortSeq([i \in DOMAIN s |-> i], before)
    IN  [k \in DOMAIN s |-> s[order[k]]]

SortUniq(s, Less(_, _), Equal(_, _)) ==
    LET sorted == StableSort(s, Less)
        kept == SelectSeq([i \in DOMAIN s |-> i], LAMBDA i : i = 1 \/ ~Equal(sorted[i - 1], sorted[i]))
    IN  [k \in DOMAIN kept |-> sorted[kept[k]]]

TokenLess(a, b) == IF a.start = b.start THEN b.stop < a.stop ELSE a.start < b.start

(* break_token: the piece of each line the token reaches into. *)
BreakToken(tok, ends, first) ==
    LET start(k) == IF k = first THEN tok.start ELSE ends[k - 1].offset
        stop(k) == ends[k].offset - ends[k].size
        pieces[k \in first..Len(ends) + 1] ==
            IF k > Len(ends) \/ (k <= Len(ends) /\ tok.stop <= stop(k)) THEN <<Token(start(k), tok.stop, tok.kind)>>
            ELSE <<Token(start(k), stop(k), tok.kind)>> \o pieces[k + 1]
    IN  pieces[first]

BreakLines(ends, tokens) ==
    FlattenSeq([i \in DOMAIN tokens |->
        LET next == {k \in DOMAIN ends : tokens[i].start < ends[k].offset}
        IN  IF next = {} THEN <<tokens[i]>>
            ELSE BreakToken(tokens[i], ends, CHOOSE k \in next : \A j \in next : k <= j)])

(* One piece of blank after another is one. *)
MergeBlank(tokens) ==
    FoldLeft(LAMBDA line, tok :
               LET last == Last(line)
               IN  IF line # <<>> /\ {last.kind, tok.kind} = {"whitespace"} /\ last.stop = tok.start
                   THEN [line EXCEPT ![Len(line)].stop = tok.stop] ELSE Append(line, tok),
             <<>>, tokens)

(* grammar_result::produce_lines: each line takes the pieces that end in it, *)
(* from where the line above stopped.                                        *)
LineLength(ends, i, length) ==
    IF i < Len(ends) THEN ends[i + 1].offset - ends[i].offset - ends[i + 1].size
    ELSE IF length < ends[i].offset THEN 0 ELSE length - ends[i].offset

TakenByLines(ends, broken, length) ==
    LET taken[i \in 0..Len(ends)] ==
            IF i = 0 THEN 0
            ELSE LET beyond == {k \in taken[i - 1] + 1..Len(broken) :
                                  broken[k].stop > ends[i].offset + LineLength(ends, i, length)}
                 IN  IF beyond = {} THEN Len(broken) ELSE (CHOOSE k \in beyond : \A j \in beyond : k <= j) - 1
    IN  taken

LineTokens(ends, broken, taken, length) ==
    LET moved(tok, i) == Token(tok.start - ends[i].offset, tok.stop - ends[i].offset, tok.kind)
        line(i, from, to) == MergeBlank([k \in 1..to - from |-> moved(broken[from + k], i)])
    IN  [i \in DOMAIN ends |-> [start |-> ends[i].offset, length |-> LineLength(ends, i, length),
                               tokens |-> line(i, taken[i - 1], taken[i])]]

LinesBroken(ends, broken, length) == LineTokens(ends, broken, TakenByLines(ends, broken, length), length)

LinesAt(ends, tokens, length) ==
    LinesBroken(ends, StableSort(BreakLines(ends, SortUniq(tokens, TokenLess, LAMBDA a, b : a = b)), TokenLess), length)

ProduceLines(tokens, newlines, length) ==
    LinesAt(SortUniq(<<Endline(0, 0)>> \o newlines, LAMBDA a, b : a.offset < b.offset, LAMBDA a, b : a.offset = b.offset),
            tokens, length)

-----------------------------------------------------------------------------
(* node::from: a stack of open tokens; one that ends before the next does is *)
(* closed and becomes a child of the one below it.                           *)
NodeOf(tok) == [tok |-> tok, children |-> <<>>]

CloseTop(nodes) ==
    LET below == Front(nodes)
    IN  [below EXCEPT ![Len(below)].children = Append(@, Last(nodes))]

RECURSIVE CloseBefore(_, _)
CloseBefore(nodes, tok) ==
    IF nodes = <<>> THEN nodes
    ELSE IF Last(nodes).tok.stop >= tok.stop THEN nodes
    ELSE IF Len(nodes) = 1 THEN <<>> ELSE CloseBefore(CloseTop(nodes), tok)

NodeFrom(tokens, length) ==
    LET put(nodes, tok) == IF tok.kind = "whitespace" THEN nodes ELSE Append(CloseBefore(nodes, tok), NodeOf(tok))
        open == FoldLeft(put, <<NodeOf(Token(0, length, "whitespace"))>>, tokens)
        closed[n \in 1..Len(open)] == IF n = Len(open) THEN open[n]
                                      ELSE [open[n] EXCEPT !.children = Append(@, closed[n + 1])]
    IN  closed[1]

(* node::spans: the texts between the children; a token of nothing is left   *)
(* out (span::cleanup).                                                      *)
Span(begin, end) == IF begin < end THEN <<[kind |-> "text", begin |-> begin, end |-> end]>> ELSE <<>>

RECURSIVE Spans(_)
Spans(node) ==
    LET n == Len(node.children)
        prev(i) == IF i = 1 THEN node.tok.start ELSE node.children[i - 1].tok.stop
        items(i) == Spans(node.children[i])
        child(i) == IF items(i) = <<>> THEN <<>> ELSE <<[kind |-> node.children[i].tok.kind, items |-> items(i)]>>
    IN  FlattenSeq([i \in 1..n |-> Span(prev(i), node.children[i].tok.start) \o child(i)])
          \o Span(prev(n + 1), node.tok.stop)

(* highlights::from, for the grammar's tokens *)
SpansOf(lines) ==
    [i \in DOMAIN lines |-> [start |-> lines[i].start, items |-> Spans(NodeFrom(lines[i].tokens, lines[i].length))]]

Highlights(tokens, newlines, length) == SpansOf(ProduceLines(tokens, newlines, length))
=============================================================================

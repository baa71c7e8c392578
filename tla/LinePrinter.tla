---------------------------- MODULE LinePrinter ----------------------------
(* One printed line of a source file, or the name of a function above one    *)
(* (line_printer.cc, the to_string functions of cvg_info.cc).  A highlighted *)
(* line is a sequence of items: a text, or a token of the highlighter with   *)
(* the items inside of it.  The output is a sequence of characters and of    *)
(* escape sequences, named by the color they switch to.                      *)
EXTENDS CoverageView

TabSize == 4
NoColor == ""
EscapeTo(color) == <<"escape", color>>
Chars(text) == [i \in DOMAIN text |-> <<"char", text[i]>>]

MarkFor(count) == IF count = {} THEN "irrelevant" ELSE IF 0 \in count THEN "bad" ELSE "good"

(* The palette: most colors depend on the mark of the line. *)
Aliases == [line_comment |-> "comment", string |-> "character", string_delim |-> "char_delim",
            deleted_newline |-> "escape_sequence", local_header_name |-> "module_name", macro_name |-> "meta"]
SingleColors == [comment |-> "faint92", meta |-> "90", escape_sequence |-> "faint33", module_name |-> "faint91"]
Varying(good, bad, irrelevant) == [good |-> good, bad |-> bad, irrelevant |-> irrelevant]
VaryingStyles == [keyword |-> Varying("bold32", "bold31", "bold37"), character |-> Varying("faint92", "faint91", "faint91"),
                  char_delim |-> Varying("92", "91", "91"), text |-> Varying("32", "31", NoColor),
                  fn |-> Varying("faint32", "faint31", NoColor)]

FindStyle(token, mark) ==
    LET name == IF token \in DOMAIN Aliases THEN Aliases[token] ELSE token
    IN  IF token = "" THEN NoColor
        ELSE IF name \in DOMAIN SingleColors THEN SingleColors[name]
        ELSE VaryingStyles[IF name \in DOMAIN VaryingStyles THEN name ELSE "text"][mark]

-----------------------------------------------------------------------------
(* tab_stopped: a tab goes on to the next column that is a multiple. *)
TabStopped(line, column) ==
    LET stop(c) == (c \div TabSize + 1) * TabSize
        after[i \in 0..Len(line)] ==
          IF i = 0 THEN [column |-> column, out |-> <<>>]
          ELSE LET s == after[i - 1]
               IN  IF line[i] = "\t"
                   THEN [column |-> stop(s.column), out |-> s.out \o [k \in 1..stop(s.column) - s.column |-> " "]]
                   ELSE [column |-> s.column + 1, out |-> Append(s.out, line[i])]
    IN  after[Len(line)].out

(* shell_paint: a color is asked for, and written once there is a text. *)
NoPaint == [color |-> NoColor, active |-> FALSE, use_reset |-> FALSE, out |-> <<>>]

SetColor(p, next) ==
    IF (next = NoColor /\ p.use_reset) \/ next = p.color THEN p
    ELSE [p EXCEPT !.active = FALSE, !.use_reset = next = NoColor,
                   !.color = IF next = NoColor THEN @ ELSE next]

Activate(p, use_color) ==
    IF p.active THEN p
    ELSE [p EXCEPT !.active = TRUE, !.use_reset = FALSE,
                   !.out = IF ~use_color \/ (~p.use_reset /\ p.color = NoColor) THEN @
                           ELSE Append(@, EscapeTo(IF p.use_reset THEN NoColor ELSE p.color))]

(* add_text: the column is that of the beginning of the line, always. *)
AddText(p, text, use_color) ==
    LET q == Activate(p, use_color) IN [q EXCEPT !.out = @ \o Chars(TabStopped(text, 0))]

(* color_stack: the color before is the one to go back to. *)
RECURSIVE VisitSpan(_, _, _, _)
AddSpan(p, span, mark, use_color) ==
    LET style == FindStyle(span.kind, mark)
        inside == VisitSpan(IF style = NoColor THEN p ELSE SetColor(p, style), span.items, mark, use_color)
    IN  SetColor(inside, p.color)
VisitSpan(p, items, mark, use_color) ==
    LET after[i \in 0..Len(items)] ==
          IF i = 0 THEN p
          ELSE IF items[i].kind = "text" THEN AddText(after[i - 1], items[i].text, use_color)
          ELSE AddSpan(after[i - 1], items[i], mark, use_color)
    IN  after[Len(items)]

LineToString(count, items, use_color) ==
    LET mark == MarkFor(count)
        sign == IF mark = "irrelevant" THEN " " ELSE IF mark = "good" THEN "+" ELSE "-"
        style == FindStyle("text", mark)
        started == Activate(IF style = NoColor THEN NoPaint ELSE SetColor(NoPaint, style), use_color)
        inside == VisitSpan([started EXCEPT !.out = @ \o Chars(<<sign>>)], items, mark, use_color)
    IN  Activate(SetColor(inside, NoColor), use_color).out

NameToString(count, name, shortened, use_color) ==
    LET style == FindStyle("fn", MarkFor(count))
        started == Activate(IF style = NoColor THEN NoPaint ELSE SetColor(NoPaint, style), use_color)
        ended == Activate(SetColor([started EXCEPT !.out = @ \o Chars(name)], NoColor), use_color).out
        dots == Chars(<<".", ".", ".">>)
    IN  ended \o IF ~shortened THEN <<>> ELSE IF use_color THEN <<EscapeTo("faint39")>> \o dots \o <<EscapeTo(NoColor)>> ELSE dots

-----------------------------------------------------------------------------
(* cvg_info::to_string of a name: cut to what a terminal of max_width leaves *)
(* beside the columns, but never to less than MagicWidth.                    *)
MagicWidth == 40
Margins == 8

NameWidth(max_width, line_no_width, count_width) ==
    LET minus(w, n) == IF n > w THEN 0 ELSE w - n
        left == minus(minus(minus(max_width, count_width), line_no_width), Margins)
    IN  IF left < MagicWidth THEN MagicWidth ELSE left

(* A column of the right width, its contents are not of interest here. *)
Padded(width) == Chars([i \in 1..width |-> " "])

NameLine(name, max_width, line_no_width, count_width, count, use_color) ==
    LET width == NameWidth(max_width, line_no_width, count_width)
        shorten == Len(name) > width
        shown == IF shorten THEN SubSeq(name, 1, width - 3) ELSE name
    IN  (IF use_color THEN <<EscapeTo("faint39")>> ELSE <<>>)
        \o Padded(1 + line_no_width + 3 + count_width + 1 + 2)
        \o (IF use_color THEN <<EscapeTo(NoColor)>> ELSE <<>>)
        \o Padded(1) \o NameToString(count, shown, shorten, use_color)

(* cvg_info::to_string of a line *)
SourceLine(count, items, line_no_width, count_width, use_color) ==
    Padded(1 + line_no_width + 3 + count_width + 1 + 3) \o LineToString(count, items, use_color)
=============================================================================

----------------------------- MODULE StatsTable -----------------------------
(* The table `cov show` prints: which columns it has (report_stats.cc), what *)
(* their cells say (column_selectors.cc, show.cc) and how it is laid out     *)
(* (tabular.cc).  A printed text is a sequence of characters, "~" standing   *)
(* for a tail byte of UTF-8; a digit is "0", whichever it is.                *)
EXTENDS Projection, Formatter, FiniteSetsExt

Esc == "ESC"
NumberText(n) == LET len == CHOOSE k \in 1..12 : n < 10 ^ k /\ (k = 1 \/ n >= 10 ^ (k - 1))
                 IN  [i \in 1..len |-> "0"]
RatioText(r) == NumberText(r.whole) \o <<".">> \o [i \in 1..r.digits |-> "0"]

-----------------------------------------------------------------------------
(* calc_stats: the sums, and which columns have anything to say. *)
TotalOf(rows) == FoldSet(LAMBDA row, sum : Extend(sum, row.stats), NoEntryStats, rows)
Incomplete(rows, field) == \E row \in rows : row.stats.current[field].relevant # row.stats.current[field].visited

FlagsOfTotal(rows) ==
    LET total == TotalOf(rows).current
    IN  [shown |-> {"lines"} \cup {f \in {"functions", "branches"} : total[f].relevant > 0},
         missing |-> {"lines", "functions", "branches"}]

Flags(rows) ==
    LET total == TotalOf(rows).current
    IN  [shown |-> {"lines"} \cup {f \in {"functions", "branches"} : total[f].relevant > 0},
         missing |-> {f \in {"lines", "functions", "branches"} : Incomplete(rows, f)}]

Column(of, what, priority) == [of |-> of, what |-> what, priority |-> priority]
Columns == <<Column("branches", "covered", "high"), Column("branches", "relevant", "supplemental"),
             Column("branches", "missing", "key"), Column("functions", "covered", "high"),
             Column("functions", "relevant", "supplemental"), Column("functions", "missing", "key"),
             Column("lines", "covered", "high"), Column("lines", "visited", "key"),
             Column("lines", "relevant", "supplemental"), Column("lines", "missing", "key"),
             Column("lines", "total", "supplemental")>>
VisibleColumns(flags) ==
    SelectSeq(Columns, LAMBDA c : c.of \in flags.shown /\ (c.what = "missing" => c.of \in flags.missing))

(* The cell of one column.  A change is counted from the previous value; one *)
(* of missing lines is turned round; nothing relevant counts as covered; a   *)
(* zero in a missing column is blank.                                        *)
Count(stats, column) ==
    CASE column.what = "total"    -> stats.lines_total
      [] column.what = "missing"  -> (stats[column.of].relevant - stats[column.of].visited) % U32
      [] column.what = "relevant" -> stats[column.of].relevant
      [] column.what = "visited"  -> stats[column.of].visited

Signed(n, text) == IF n = 0 THEN <<>> ELSE <<IF n < 0 THEN "-" ELSE "+">> \o text

CounterCell(column, stats) ==
    LET value == Count(stats.current, column)
        change == DiffU32(value, Count(stats.previous, column))
        reversed == column.what = "missing"
    IN  [value |-> IF reversed /\ value = 0 THEN <<>> ELSE NumberText(value),
         change |-> Signed(change, NumberText(IF change < 0 THEN -change ELSE change)),
         category |-> "passing", negative |-> (change < 0) # reversed]

RatioShown(now, value, change, marks) ==
    LET sign == IF change.whole # 0 THEN change.whole ELSE change.fraction
        abs == [change EXCEPT !.whole = IF @ < 0 THEN -@ ELSE @]
        nothing == now.relevant = 0
    IN  [value |-> RatioText(IF nothing THEN [value EXCEPT !.whole = 100] ELSE value),
         change |-> IF nothing THEN <<>> ELSE Signed(sign, RatioText(abs)),
         category |-> ApplyMark(IF nothing THEN [relevant |-> 1, visited |-> 1] ELSE now, marks["B"]),
         negative |-> ~nothing /\ sign < 0]

RatioCell(column, stats, marks) ==
    LET now == stats.current[column.of]
        value == Calc(now, 2)
    IN  RatioShown(now, value, DiffRatio(value, Calc(stats.previous[column.of], 2)), marks)

Cell(column, stats, marks) ==
    IF column.what = "covered" THEN RatioCell(column, stats, marks) ELSE CounterCell(column, stats)

(* add_table_row: the flag, the name, then a value and a change per column.  *)
InColor(text, colored, color) ==
    IF text = <<>> \/ ~colored \/ color = "normal" THEN text
    ELSE <<Esc, "[", "1", "m">> \o text \o <<Esc, "[", "m">>

CellTexts(cell, priority, colored) ==
    <<InColor(cell.value, colored,
              IF priority # "high" THEN "normal"
              ELSE IF cell.category = "passing" THEN "bold_green"
              ELSE IF cell.category = "incomplete" THEN "bold_yellow" ELSE "bold_red"),
      InColor(cell.change, colored,
              IF priority = "supplemental" THEN "faint_normal"
              ELSE IF cell.negative THEN "faint_red" ELSE "faint_green")>>

(* The directory of a name is faint. *)
Display(label, colored) ==
    LET slashes == {i \in DOMAIN label : label[i] = "/"}
        pos == CHOOSE i \in slashes : \A k \in slashes : k <= i
    IN  IF slashes = {} THEN label ELSE InColor(SubSeq(label, 1, pos), colored, "faint_normal") \o From(label, pos + 1)

AddTableRow(flag, label, stats, columns, colored, marks) ==
    <<flag, Display(label, colored)>> \o FlattenSeq([i \in DOMAIN columns |->
        CellTexts(Cell(columns[i], stats, marks), columns[i].priority, colored)])

-----------------------------------------------------------------------------
(* count_invisible: escape sequences to their m, and tails of UTF-8. *)
CountInvisible(label) ==
    LET step(s, c) ==
            CASE s.state = "raw" -> [s EXCEPT !.state = IF c = Esc THEN "esc" ELSE "raw",
                                              !.tail = IF c = "~" THEN @ + 1 ELSE @]
              [] s.state = "esc" -> IF c = "[" THEN [s EXCEPT !.state = "csi", !.esc = @ + 2] ELSE s
              [] s.state = "csi" -> [s EXCEPT !.state = IF c = "m" THEN "raw" ELSE "csi", !.esc = @ + 1]
        after[i \in 0..Len(label)] == IF i = 0 THEN [state |-> "raw", esc |-> 0, tail |-> 0]
                                      ELSE step(after[i - 1], label[i])
    IN  after[Len(label)]
Visible(text) == LET inv == CountInvisible(text) IN Len(text) - inv.esc - inv.tail

(* data_table::emplace *)
ColumnWidths(rows, columns) ==
    [i \in 1..columns |-> FoldLeft(LAMBDA w, row : IF Visible(row[i]) > w THEN Visible(row[i]) ELSE w, 0, rows)]

(* calc_headers: each title stands over two columns. *)
CalcHeaders(titles, widths) ==
    [h \in DOMAIN titles |->
        LET first == 2 * h - 1
            pair == IF first + 1 > Len(widths) THEN <<0, 0>> ELSE <<widths[first], widths[first + 1]>>
            width == pair[1] + pair[2] + (IF pair[1] > 0 /\ pair[2] > 0 THEN 1 ELSE 0)
            title == Len(titles[h]) - CountInvisible(titles[h]).esc
            all == IF title > width THEN title ELSE width
        IN  [start |-> first, first |-> (IF pair[1] > 0 THEN pair[1] ELSE pair[2]) + all - width,
             width |-> all]]

(* fmt counts code points, so the padding is told of the escapes only. *)
Aligned(text, width) ==
    LET points == Len(text) - CountInvisible(text).tail
    IN  IF points < width THEN Blanks(width - points) \o text ELSE text

SepLine(headers) ==
    FlattenSeq([h \in DOMAIN headers |-> <<"+">> \o [i \in 1..headers[h].width + 2 |-> "-"]]) \o <<"+">>

HeaderLine(titles, headers) ==
    FlattenSeq([h \in DOMAIN headers |->
        <<"|", " ">> \o Aligned(titles[h], headers[h].width + CountInvisible(titles[h]).esc) \o <<" ">>])
    \o <<"|">>

(* row_format_to: a column nobody wrote in is skipped, with the bar before it. *)
RowLine(row, headers, widths) ==
    LET step(st, i) ==
            LET starts == st.next <= Len(headers) /\ headers[st.next].start = i
                width == IF starts THEN headers[st.next].first ELSE widths[i]
            IN  IF widths[i] = 0 THEN st
                ELSE [out |-> st.out \o (IF i > 1 THEN <<" ">> ELSE <<>>)
                                \o (IF starts THEN <<"|", " ">> ELSE <<>>)
                                \o Aligned(row[i], width + CountInvisible(row[i]).esc),
                      next |-> IF starts THEN st.next + 1 ELSE st.next]
        done == FoldLeftDomain(step, [out |-> <<>>, next |-> 1], row)
    IN  IF done.next > 1 THEN done.out \o <<" ", "|">> ELSE done.out

(* data_table::format_to *)
TableLines(titles, data, footer, widths, headers) ==
    LET line(row) == RowLine(row, headers, widths)
    IN  <<SepLine(headers), HeaderLine(titles, headers), SepLine(headers)>>
          \o [i \in DOMAIN data |-> line(data[i])]
          \o (IF footer = <<>> THEN <<>> ELSE <<SepLine(headers), line(footer[1])>>)
          \o <<SepLine(headers)>>

LaidOut(titles, data, footer) ==
    LET widths == IF data = <<>> THEN <<>> ELSE ColumnWidths(data \o footer, Len(data[1]))
    IN  TableLines(titles, data, footer, widths, CalcHeaders(titles, widths))

(* print_table: "Name", "% Branches", "% Funcs" and so on are known by their *)
(* lengths; more than one row have their sum below.                          *)
TitleOf(column) ==
    LET length == CASE column.what = "name" -> 4 [] column.what = "relevant" -> 8 [] column.what = "total" -> 10
                    [] OTHER -> IF column.of = "branches" /\ column.what = "covered" THEN 10 ELSE 7
    IN  [i \in 1..length |-> "t"]

PrintTable(rows, colored, marks) ==
    LET columns == VisibleColumns(Flags(rows))
        flagOf(type) == CASE type = "module" -> <<"M">> [] type = "directory" -> <<"D">> [] OTHER -> <<" ">>
    IN  LaidOut(<<TitleOf(Column("name", "name", "key"))>> \o [i \in DOMAIN columns |-> TitleOf(columns[i])],
                FoldSet(LAMBDA r, out : Append(out, AddTableRow(flagOf(r.type), r.display, r.stats,
                                                                columns, colored, marks)), <<>>, rows),
                IF Cardinality(rows) < 2 THEN <<>>
                ELSE <<AddTableRow(<<">">>, <<"T", "O", "T">>, TotalOf(rows), columns, colored, marks)>>)
=============================================================================

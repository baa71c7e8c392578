------------------------------ MODULE Excludes ------------------------------
(* strip-excludes, the filter that takes marked lines out of a report        *)
(* (excludes.cc, strip.cc, strip_excludes.cc).  A line is known by what is   *)
(* in it: a START, STOP, END or LINE marker, a marker for another platform   *)
(* (foreign), nothing (blank), or text.                                      *)
EXTENDS Integers, Sequences, SequencesExt, FiniteSets

Block(start, end) == [start |-> start, end |-> end]

(* excludes::exclude *)
ExcludeLine(st, n) ==
    IF st.result # <<>> /\ Last(st.result).end + 1 = n
    THEN [st EXCEPT !.result[Len(st.result)].end = n]
    ELSE [st EXCEPT !.result = Append(@, Block(n, n)), !.single_lines = <<>>]

(* Mutant of IncludeBack: the lines marked on their own are taken back too. *)
IncludeBackAll(st, n) == [st EXCEPT !.result = SelectSeq(@, LAMBDA b : b.start < n)]

(* excludes::include_back, at a start that turns out to have no stop.  The   *)
(* lines it goes through are cleared on the way; their storage is still      *)
(* there, so all of them are seen.                                           *)
IncludeBack(st, n) ==
    LET popped == [st EXCEPT !.result = SelectSeq(@, LAMBDA b : b.start < n)]
    IN  FoldLeft(ExcludeLine, popped, st.single_lines)

(* excludes::on_line *)
OnLine(st, n, kind) ==
    LET opened == [(IF st.inside_exclude THEN IncludeBack(st, st.last_start) ELSE st)
                      EXCEPT !.last_start = n, !.inside_exclude = TRUE]
        found == CASE kind = "start" -> opened
                   [] kind = "line"  -> [st EXCEPT !.single_lines = Append(@, n)]
                   [] OTHER          -> st
        excluded == IF found.inside_exclude \/ kind = "line" THEN ExcludeLine(found, n) ELSE found
    IN  CASE kind = "blank"   -> [st EXCEPT !.empties = @ \cup {n}]
          [] kind = "foreign" -> st
          [] kind = "stop"    -> [excluded EXCEPT !.inside_exclude = FALSE]
          [] OTHER            -> excluded

(* after_lines *)
Found(st) == [blocks |-> st.result, empties |-> st.empties]
AfterLines(st) == Found(IF st.inside_exclude THEN IncludeBack(st, st.last_start) ELSE st)

(* find_blocks *)
FindBlocks(text) ==
    LET start == [inside_exclude |-> FALSE, last_start |-> 0, single_lines |-> <<>>,
                  result |-> <<>>, empties |-> {}]
        after[i \in 0..Len(text)] == IF i = 0 THEN start ELSE OnLine(after[i - 1], i, text[i])
    IN  AfterLines(after[Len(text)])

IsLineExcluded(n, blocks) == \E i \in DOMAIN blocks : blocks[i].start <= n /\ n <= blocks[i].end

(* erase_lines: excluded lines, and blank ones that were never reached. *)
EraseLines(coverage, found) ==
    LET kept == {n \in DOMAIN coverage : /\ ~IsLineExcluded(n, found.blocks)
                                         /\ n \in found.empties => coverage[n] # 0}
    IN  [n \in kept |-> coverage[n]]

(* mask_range: what is left of a range, taken off at its ends, block by      *)
(* block and then line by line.                                              *)
MaskRange(range, found) ==
    LET cut(r, b) ==
            IF r.end < r.start \/ r.end < b.start \/ r.start > b.end THEN r
            ELSE Block(IF r.start >= b.start THEN b.end + 1 ELSE r.start,
                       IF r.end <= b.end THEN b.start - 1 ELSE r.end)
        trim(r, n) == IF r.end < r.start THEN r
                      ELSE Block(IF r.start = n THEN n + 1 ELSE r.start, IF r.end = n THEN n - 1 ELSE r.end)
        blocks == SortSeq(found.blocks, LAMBDA b, c : b.start < c.start)
        empties == SetToSortSeq(found.empties, <)
    IN  FoldLeft(trim, FoldLeft(cut, range, blocks), empties)

(* filter_blocks: a function of which nothing is left goes. *)
FilterBlocks(ranges, found) ==
    {r \in ranges : LET left == MaskRange(r, found) IN left.start <= left.end}

(* find_lines: the lines the user is told of, with their counts, if any. *)
FindLines(coverage, found, text) ==
    LET gone == SelectSeq([i \in DOMAIN text |-> i], LAMBDA i : IsLineExcluded(i, found.blocks))
    IN  [k \in DOMAIN gone |-> [line |-> gone[k], counter |-> IF gone[k] \in DOMAIN coverage THEN {coverage[gone[k]]} ELSE {}]]

(* The turn of tool() for one file of the report: one that lacks a key, has  *)
(* no source to be read or nothing to take out of it is left as it is.       *)
NoSource == <<"none">>
FindExclBlocks(source) == IF source = NoSource THEN [blocks |-> <<>>, empties |-> {}] ELSE FindBlocks(source)

StripFound(file, source, found) ==
    LET lines == EraseLines(file.lines, found)
        functions == FilterBlocks(file.functions, found)
        erased == Cardinality(DOMAIN file.lines) - Cardinality(DOMAIN lines)
        hidden == Cardinality(file.functions) - Cardinality(functions)
    IN  IF ~file.complete \/ (found.blocks = <<>> /\ found.empties = {})
        THEN [file |-> file, lines |-> 0, functions |-> 0, told |-> <<>>]
        ELSE [file |-> [file EXCEPT !.lines = lines, !.functions = functions],
              lines |-> erased, functions |-> hidden,
              told |-> IF found.blocks = <<>> THEN <<>> ELSE FindLines(file.lines, found, source)]

StripFile(file, source) == StripFound(file, source, FindExclBlocks(source))
=============================================================================

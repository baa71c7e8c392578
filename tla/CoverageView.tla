---------------------------- MODULE CoverageView ----------------------------
(* What `cov show` prints of one file (cov::core::cvg_info and the end of    *)
(* builtin show): the functions merged by position, the chunks of lines      *)
(* around what was not executed, and the lines and functions of the chunks.  *)
(* A function entry has the shape ReportFile!LoadFunction gives it.          *)
EXTENDS ReportFile

MaxOf(S) == CHOOSE x \in S : \A y \in S : y <= x

(* function_coverage::merge_aliases: one function for each position, in the  *)
(* order of positions, with the counts of its names added up.                *)
PosOf(f) == <<f.start[1], f.start[2], f.end[1], f.end[2]>>
NameOf(f) == <<f.name, f.demangled_name>>

SumU32(counts) ==
    LET sum[i \in 0..Len(counts)] == IF i = 0 THEN 0 ELSE (sum[i - 1] + counts[i]) % U32
    IN  sum[Len(counts)]

NamesAt(fns, p) ==
    LET at == {i \in DOMAIN fns : PosOf(fns[i]) = p}
        names == Sorted({NameOf(fns[i]) : i \in at}, TupleLess)
        calls(n) == [i \in DOMAIN fns |-> IF i \in at /\ NameOf(fns[i]) = n THEN fns[i].count ELSE 0]
    IN  [k \in DOMAIN names |->
            [link |-> names[k][1], demangled |-> names[k][2], count |-> SumU32(calls(names[k]))]]

MergedAt(fns, p) ==
    LET names == NamesAt(fns, p)
    IN  [pos |-> p, line |-> p[1], names |-> names, count |-> SumU32([k \in DOMAIN names |-> names[k].count])]

MergeAliases(fns) ==
    LET positions == Sorted({PosOf(fns[i]) : i \in DOMAIN fns}, TupleLess)
    IN  [i \in DOMAIN positions |-> MergedAt(fns, positions[i])]

FunctionStatsByName(fns) ==
    [relevant |-> Len(fns), visited |-> Len(SelectSeq(fns, LAMBDA f : f.count # 0))]

(* stored_file::store_coverage and recalc_functions count functions alike. *)
FunctionStats(fns) ==
    LET merged == MergeAliases(fns)
    IN  [relevant |-> Len(merged), visited |-> Cardinality({i \in DOMAIN merged : merged[i].count # 0})]

(* cvg_info::soft_alias: neighbours with the same label are one. *)
LabelOf(n) == IF n.demangled = 0 THEN n.link ELSE n.demangled

AddAlias(acc, n) ==
    IF acc = <<>> \/ acc[Len(acc)].label # LabelOf(n)
    THEN Append(acc, [label |-> LabelOf(n), count |-> n.count])
    ELSE [acc EXCEPT ![Len(acc)].count = (@ + n.count) % U32]

SoftAlias(function) ==
    LET names == function.names
        after[i \in 0..Len(names)] == IF i = 0 THEN <<>> ELSE AddAlias(after[i - 1], names[i])
    IN  after[Len(names)]

-----------------------------------------------------------------------------
MarkLineApart(chunks, line) ==
    LET start == IF line < 3 THEN 0 ELSE line - 3
    IN  IF chunks = <<>> \/ Last(chunks)[2] < line
        THEN Append(chunks, <<start, line + 3>>)
        ELSE [chunks EXCEPT ![Len(chunks)][2] = line + 3]

MarkLine(chunks, line) ==
    LET start == IF line < 3 THEN 0 ELSE line - 3
        stop == (line + 3) % U32
    IN  IF chunks = <<>> \/ (Last(chunks)[2] + 3) % U32 < start
        THEN Append(chunks, <<start, stop>>)
        ELSE [chunks EXCEPT ![Len(chunks)][2] = stop]

(* find_chunks walks lines and functions together: function_iterator hands   *)
(* out the functions before and at a line, then the line itself is marked.   *)
FindChunks(coverage, functions) ==
    LET lines == Sorted(DOMAIN coverage, LAMBDA a, b : a < b)
        notCalled(a, b) == SelectSeq(functions,
                             LAMBDA f : f.line > a /\ f.line <= b /\ f.count = 0)
        marks(chunks, fns) == FoldLeft(LAMBDA c, f : MarkLine(c, f.line), chunks, fns)
        step(acc, line) ==
          LET c == marks(acc.chunks, notCalled(acc.prev, line))
          IN  [prev |-> line,
               chunks |-> IF coverage[line] = 0 THEN MarkLine(c, line) ELSE c]
        rest(walked) == marks(walked.chunks, notCalled(walked.prev, MaxU32))
    IN  rest(FoldLeft(step, [chunks |-> <<>>, prev |-> -1], lines))

(* load_syntax: a file without chunks is shown whole. *)
OrWhole(found, text_lines) == IF found = <<>> THEN <<<<0, text_lines>>>> ELSE found

Chunks(coverage, functions, text_lines) == OrWhole(FindChunks(coverage, functions), text_lines)

MaxCount(coverage, functions, chunks) ==
    LET inChunk(l) == \E i \in DOMAIN chunks : l \in chunks[i][1]..chunks[i][2]
        ofLines == {coverage[l] : l \in {k \in DOMAIN coverage : inChunk(k)}}
        merge(result, f) ==
          FoldLeft(LAMBDA r, a : IF r = {} THEN {f.count} ELSE {MaxOf(r \cup {a.count})},
                   result, SoftAlias(f))
    IN  FoldLeft(merge, IF ofLines = {} THEN {} ELSE {MaxOf(ofLines)}, functions)

ColumnWidth(number) ==
    LET digits[n \in 0..MaxU32] == IF n < 10 THEN 1 ELSE 1 + digits[n \div 10]
    IN  digits[number]

CountWidth(coverage, functions, chunks) ==
    LET most == MaxCount(coverage, functions, chunks)
    IN  IF most = {} THEN 0 ELSE ColumnWidth(CHOOSE n \in most : TRUE)

-----------------------------------------------------------------------------
(* The lines the command prints, in order, each with the functions fn.at()   *)
(* hands out before it; functions between chunks are skipped, and printing   *)
(* ends at the first line the text does not have.                            *)
LinesOfChunks(chunks, text_lines) ==
    SelectSeq(FlattenSeq([i \in DOMAIN chunks |->
                [k \in 1..(chunks[i][2] - chunks[i][1] + 1) |-> chunks[i][1] + k - 1]]),
              LAMBDA l : l < text_lines)

ShownAt(coverage, functions, lines) ==
    [i \in DOMAIN lines |->
        [line |-> lines[i],
         count |-> IF lines[i] \in DOMAIN coverage THEN {coverage[lines[i]]} ELSE {},
         functions |-> SelectSeq(functions, LAMBDA f : f.line = lines[i])]]

Shown(coverage, functions, text_lines) ==
    ShownAt(coverage, functions, LinesOfChunks(Chunks(coverage, functions, text_lines), text_lines))

-----------------------------------------------------------------------------
(* The sum of numbers, however large. *)
Total(numbers) ==
    LET sum[i \in 0..Len(numbers)] == IF i = 0 THEN 0 ELSE sum[i - 1] + numbers[i]
    IN  sum[Len(numbers)]

(* FunctionsCounted: the functions of a file are its positions, whatever     *)
(* the order and the number of names the filter reported for each; one is    *)
(* visited when any of its names was called, and its labels account for all  *)
(* of its calls.                                                             *)
FunctionsCounted ==
    subject.part = "functions" =>
        LET fns == subject.fns
            positions == {PosOf(fns[i]) : i \in DOMAIN fns}
            called == {PosOf(fns[i]) : i \in {j \in DOMAIN fns : fns[j].count > 0}}
            merged == MergeAliases(fns)
            counts(labels) == [k \in DOMAIN labels |-> labels[k].count]
            calls(p) == [i \in DOMAIN fns |-> IF PosOf(fns[i]) = p THEN fns[i].count ELSE 0]
        IN  /\ FunctionStats(fns) = [relevant |-> Cardinality(positions),
                                     visited |-> Cardinality(called)]
            /\ {merged[i].pos : i \in DOMAIN merged} = positions
            /\ \A i \in DOMAIN merged :
                 /\ Total(counts(SoftAlias(merged[i]))) = Total(calls(merged[i].pos))
                 /\ merged[i].count = Total(calls(merged[i].pos))
=============================================================================

----------------------------- MODULE ReportFile -----------------------------
(* What `cov report` makes of the report a filter wrote (cov::app::report):  *)
(* reading the JSON, matching each file's digest with the text git or the    *)
(* work tree has, and packing its line coverage.  Machine words have Bits    *)
(* bits (32 in the program); a missing JSON value is NotGiven; a digest is   *)
(* the text it was calculated from.                                          *)
EXTENDS Texts, FiniteSets, Orders, Subject

CONSTANTS Bits, NotGiven

ASSUME BitsAssumption ==
    /\ Bits \in Nat /\ Bits > 2
    /\ 2 ^ (Bits - 1) \in Nat /\ 2 ^ (Bits - 1) > 2 /\ 2 ^ Bits = 2 * 2 ^ (Bits - 1)

U32 == 2 ^ Bits
MaxU32 == U32 - 1
MaxU31 == 2 ^ (Bits - 1) - 1

-----------------------------------------------------------------------------
(* Statistics never wrap: they stay at the highest value. *)
ClipU32(n) == IF n < 0 THEN 0 ELSE IF n > MaxU32 THEN MaxU32 ELSE n
AddU32(a, b) == IF MaxU32 - a < b THEN MaxU32 ELSE a + b

AddStats(s, t) == [relevant |-> AddU32(s.relevant, t.relevant),
                   visited |-> AddU32(s.visited, t.visited)]

(* stats::pow10 *)
Pow10(value, digits) ==
    LET times[n \in 0..digits] == IF n = 0 THEN value ELSE 10 * times[n - 1]
    IN  times[digits]

(* stats::calc: a percentage with digits after the point; the first product  *)
(* is one of 32-bit numbers.                                                 *)

Calc(s, digits) ==
    LET divider == Pow10(1, digits)
        out == (((s.visited * 100) % U32) * divider + (s.relevant \div 2)) \div s.relevant
    IN  IF s.relevant = 0 THEN [whole |-> 0, fraction |-> 0, digits |-> digits]
        ELSE [whole |-> out \div divider, fraction |-> out % divider, digits |-> digits]

(* ratio's <=> and ==: whole parts first, then fractions brought to the same *)
(* digits, which have signs of their own.                                    *)
Fractions(r, t) ==
    LET digits == IF r.digits > t.digits THEN r.digits ELSE t.digits
    IN  [left  |-> r.fraction * Pow10(1, digits - r.digits), right |-> t.fraction * Pow10(1, digits - t.digits)]

RatioLess(r, t) ==
    IF r.whole # t.whole THEN r.whole < t.whole
    ELSE IF (r.fraction < 0) # (t.fraction < 0) THEN r.fraction < t.fraction
    ELSE Fractions(r, t).left < Fractions(r, t).right

RatioEqual(r, t) ==
    /\ r.whole = t.whole /\ (r.fraction < 0) = (t.fraction < 0)
    /\ Fractions(r, t).left = Fractions(r, t).right

(* diff of counters: clipped to what a signed number holds. *)
DiffU32(newer, older) ==
    LET abs == IF newer < older THEN older - newer ELSE newer - older
        clipped == IF abs > MaxU31 THEN MaxU31 ELSE abs
    IN  IF newer < older THEN -clipped ELSE clipped

(* diff of ratios: the sign is the whole part's, or the fraction's if that is 0. *)
DiffRatioBySign(newer, older) ==
    LET value(r) == Pow10(Pow10(r.whole, r.digits) + r.fraction, 2 - r.digits)
        neg == value(newer) < value(older)
        abs == IF neg THEN value(older) - value(newer) ELSE value(newer) - value(older)
    IN  [whole |-> IF neg THEN -(abs \div 100) ELSE abs \div 100,
         fraction |-> abs % 100, digits |-> 2]

DiffRatio(newer, older) ==
    LET digits == IF newer.digits > older.digits THEN newer.digits ELSE older.digits
        multiplier == Pow10(1, digits)
        value(r) == Pow10(Pow10(r.whole, r.digits) + r.fraction, digits - r.digits)
        neg == value(newer) < value(older)
        abs == IF neg THEN value(older) - value(newer) ELSE value(newer) - value(older)
        whole == abs \div multiplier
        fraction == abs % multiplier
    IN  [whole |-> IF neg THEN -whole ELSE whole,
         fraction |-> IF neg /\ whole = 0 THEN -fraction ELSE fraction,
         digits |-> digits]

-----------------------------------------------------------------------------
(* Line coverage: a function from lines, counted from 0, to hits.  Lines     *)
(* between the covered ones are stored as runs of at most MaxU31 lines.      *)
NullRunClipped(lines) ==
    IF lines = 0 THEN <<>>
    ELSE <<[value |-> IF lines < MaxU31 THEN lines ELSE MaxU31, is_null |-> TRUE]>>

NullRuns(lines) ==
    LET runs[n \in 0..MaxU32] ==
          IF n = 0 THEN <<>>
          ELSE LET chunk == IF n < MaxU31 THEN n ELSE MaxU31
               IN  <<[value |-> chunk, is_null |-> TRUE]>> \o runs[n - chunk]
    IN  runs[lines]

Hits(count) == [value |-> IF count > MaxU31 THEN MaxU31 ELSE count, is_null |-> FALSE]

VisitLine(acc, line, hits) ==
    [out |-> acc.out \o NullRuns((line - acc.prev - 1) % U32) \o <<Hits(hits)>>, prev |-> line]

VisitAll(lc, lines) ==
    LET after[i \in 0..Len(lines)] ==
          IF i = 0 THEN [out |-> <<>>, prev |-> 0]
          ELSE VisitLine(after[i - 1], lines[i], lc[lines[i]])
    IN  after[Len(lines)]

VisitLines(lc, line_count) ==
    LET all == VisitAll(lc, Sorted(DOMAIN lc, LAMBDA a, b : a < b))
        total == IF all.prev > line_count THEN all.prev ELSE line_count
    IN  [coverage |-> IF all.prev < total
                      THEN all.out \o NullRuns(total - all.prev - 1) ELSE all.out,
         lines_total |-> total]

ExpandCoverage(lc, line_count) ==
    LET visited == VisitLines(lc, line_count)
        relevant == {i \in DOMAIN visited.coverage : ~visited.coverage[i].is_null}
    IN  [coverage |-> visited.coverage, lines_total |-> visited.lines_total,
         lines |-> [relevant |-> Cardinality(relevant),
                    visited |-> Cardinality({i \in relevant : visited.coverage[i].value # 0})]]

(* The reader's side (cvg_info::from_coverage): line numbers from the runs. *)
ReadRun(acc, c) ==
    LET line == (acc.line + 1) % U32
    IN  IF c.is_null THEN [acc EXCEPT !.line = (@ + c.value) % U32]
        ELSE [line |-> line,
              lines |-> [l \in DOMAIN acc.lines \cup {line} |->
                           IF l = line THEN c.value ELSE acc.lines[l]]]

FromCoverage(coverage) ==
    LET after[i \in 0..Len(coverage)] ==
          IF i = 0 THEN [line |-> 0, lines |-> [l \in {} |-> 0]]
          ELSE ReadRun(after[i - 1], coverage[i])
    IN  after[Len(coverage)].lines

-----------------------------------------------------------------------------
(* Texts are sequences of "x", "\r" and "\n". *)
CR == "\r"

ToCRLF(text) ==
    FlattenSeq([i \in DOMAIN text |->
        IF text[i] = LF /\ (i = 1 \/ text[i - 1] # CR) THEN <<CR, LF>> ELSE <<text[i]>>])

ToLF(text) ==
    FlattenSeq([i \in DOMAIN text |->
        IF text[i] = CR /\ i < Len(text) /\ text[i + 1] = LF THEN <<>> ELSE <<text[i]>>])

MatchCRLF(digest, text) ==
    IF digest = text THEN "exactly"
    ELSE IF digest = ToCRLF(text) THEN "with_different_newlines" ELSE "none"

Match(digest, text) ==
    IF digest = text THEN "exactly"
    ELSE IF digest = ToCRLF(text) \/ digest = ToLF(text) THEN "with_different_newlines"
    ELSE "none"

LinesIn(text) ==
    Cardinality({i \in DOMAIN text : text[i] = LF})
      + (IF text = <<>> \/ text[Len(text)] # LF THEN 1 ELSE 0)

(* git_commit::verify: the blob of the commit first, then the file of the    *)
(* work tree; each is a text or NotGiven.                                    *)
Verify(digest, blob, workDir, file) ==
    LET inRepo == IF blob = NotGiven THEN "none" ELSE Match(digest, blob)
        inFs == Match(digest, file)
        newlines(m) == IF m = "exactly" THEN {} ELSE {"different_newline"}
        nothing == [flags |-> {}, existing |-> FALSE, lines |-> 0]
    IN  IF inRepo # "none"
        THEN [flags |-> {"in_repo"} \cup newlines(inRepo), existing |-> TRUE,
              lines |-> LinesIn(blob)]
        ELSE IF ~workDir \/ file = NotGiven THEN nothing
        ELSE IF inFs = "none"
        THEN [nothing EXCEPT !.flags = {"in_fs", "mismatched"}
                                         \cup (IF blob = NotGiven THEN {} ELSE {"in_repo"})]
        ELSE [nothing EXCEPT !.flags = {"in_fs"} \cup newlines(inFs), !.lines = LinesIn(file)]

(* stored_file::from and store: a text nobody has stops the report, one that *)
(* differs is warned of.  What the commit does not have is read again from   *)
(* the work tree and kept in the database.                                   *)
WarnsOf(seen) == "mismatched" \in seen.flags
Kept(seen) == "in_repo" \in seen.flags /\ ~WarnsOf(seen)

StoreFile(seen, blob, again) ==
    IF seen.flags = {} \/ (~Kept(seen) /\ again = NotGiven) THEN [ok |-> FALSE, text |-> NotGiven, warned |-> FALSE]
    ELSE [ok |-> TRUE, text |-> IF Kept(seen) THEN blob ELSE again, warned |-> WarnsOf(seen)]

-----------------------------------------------------------------------------
(* The JSON.  Line keys are numbers or NotGiven (no number at all); names    *)
(* are numbers, which have an order.                                         *)
RebaseOK(key) == key # NotGiven /\ key <= MaxU32
Rebase(line) == IF line > 0 THEN line - 1 ELSE line

LookupDigest(algorithm) ==
    CASE algorithm = "md5" -> "md5"
      [] algorithm \in {"sha", "sha1"} -> "sha1"
      [] OTHER -> "unknown"

OrElse(value, default) == IF value = NotGiven THEN default ELSE value

LoadFunction(f) ==
    [name |-> f.name, demangled_name |-> OrElse(f.demangled, 0), count |-> ClipU32(f.count),
     start |-> <<Rebase(ClipU32(f.start_line)), ClipU32(OrElse(f.start_column, 0))>>,
     end |-> <<Rebase(ClipU32(OrElse(f.end_line, f.start_line))),
               ClipU32(OrElse(f.end_column, 0))>>]

FunctionKey(f) == <<f.start[1], f.end[1], f.demangled_name, f.name>>

LoadFunctionList(fns) ==
    SortSeq([i \in DOMAIN fns |-> LoadFunction(fns[i])],
            LAMBDA a, b : TupleLess(FunctionKey(a), FunctionKey(b)))

(* Later entries of a line replace earlier ones, also "0" and "1". *)
LoadLineCoverage(items) ==
    [l \in {Rebase(items[i].key) : i \in DOMAIN items} |->
        LET at == {i \in DOMAIN items : Rebase(items[i].key) = l}
        IN  ClipU32(items[CHOOSE i \in at : \A j \in at : j <= i].hits)]

FileOK(file) ==
    /\ file.name # NotGiven /\ file.digest # NotGiven /\ file.line_coverage # NotGiven
    /\ LookupDigest(file.algorithm) # "unknown"
    /\ \A i \in DOMAIN file.line_coverage :
         file.line_coverage[i].hits # NotGiven /\ RebaseOK(file.line_coverage[i].key)
    /\ file.functions # NotGiven =>
         \A i \in DOMAIN file.functions :
            LET f == file.functions[i]
            IN  f.name # NotGiven /\ f.count # NotGiven /\ f.start_line # NotGiven

LoadFile(file) ==
    [name |-> file.name, algorithm |-> LookupDigest(file.algorithm), digest |-> file.digest,
     line_coverage |-> LoadLineCoverage(file.line_coverage),
     function_coverage |-> IF file.functions = NotGiven THEN <<>>
                           ELSE LoadFunctionList(file.functions)]

NoReport == [ok |-> FALSE, git |-> NotGiven, files |-> <<>>]

LoadFromText(json) ==
    IF \/ json.git = NotGiven \/ json.files = NotGiven
       \/ \E i \in DOMAIN json.files : ~FileOK(json.files[i])
    THEN NoReport
    ELSE [ok |-> TRUE, git |-> json.git,
          files |-> [i \in DOMAIN json.files |-> LoadFile(json.files[i])]]

-----------------------------------------------------------------------------
(* A file shows the lines its items name, hit or not as the last item of the *)
(* line says.                                                                *)
ShowsItems(items, shown) ==
    LET line(k) == IF items[k].key = 0 THEN 0 ELSE items[k].key - 1
        last(k) == \A j \in DOMAIN items : j > k => line(j) # line(k)
    IN  /\ DOMAIN shown = {line(k) : k \in DOMAIN items}
        /\ \A k \in DOMAIN items : last(k) => (shown[line(k)] = 0 <=> items[k].hits = 0)

(* LinesSurvive: the runs report.cc packs a file's line coverage into, read  *)
(* back by cvg_info::from_coverage, give the same lines with the same hits   *)
(* (clipped to 31 bits), at line 0 and with gaps longer than a run can be;   *)
(* the statistics count exactly those lines.  From a report that is accepted *)
(* no line of a file and no file is lost on the way; of one that is not,     *)
(* nothing is used.                                                          *)
LinesSurvive ==
  /\ subject.part = "json" =>
        LET done == LoadFromText(subject)
            shown(i) == FromCoverage(ExpandCoverage(done.files[i].line_coverage, 0).coverage)
        IN  IF ~done.ok THEN done.files = <<>>
            ELSE /\ Len(done.files) = Len(subject.files)
                 /\ \A i \in DOMAIN done.files : ShowsItems(subject.files[i].line_coverage, shown(i))
  /\ subject.part = "lines" =>
        LET packed == ExpandCoverage(subject.lc, subject.line_count)
            clipped(n) == IF n > MaxU31 THEN MaxU31 ELSE n
        IN  /\ FromCoverage(packed.coverage)
                 = [l \in DOMAIN subject.lc |-> clipped(subject.lc[l])]
            /\ packed.lines.relevant = Cardinality(DOMAIN subject.lc)
            /\ packed.lines.visited
                 = Cardinality({l \in DOMAIN subject.lc : subject.lc[l] > 0})

(* The value of a ratio, in units of 10^-digits. *)
ValueOf(r) == r.whole * Pow10(1, r.digits) + (IF r.whole < 0 THEN -r.fraction ELSE r.fraction)

(* RatiosExact: a percentage is the nearest one of its digits, and the       *)
(* difference of two, with its sign split between whole part and fraction    *)
(* and its digits the more precise of the two, is the difference of their    *)
(* values.  Percentages are ordered by their values whatever their digits,   *)
(* and a difference is compared with none by its sign.                       *)
RatiosExact ==
    subject.part = "stats" =>
        LET newer == Calc(subject.newer, subject.digits[1])
            older == Calc(subject.older, subject.digits[2])
            d == DiffRatio(newer, older)
            scaled(r) == ValueOf(r) * Pow10(1, d.digits - r.digits)
            error(s, r) == 2 * (ValueOf(r) * s.relevant - s.visited * 100 * Pow10(1, r.digits))
            none == [whole |-> 0, fraction |-> 0, digits |-> 0]
        IN  /\ ValueOf(d) = scaled(newer) - scaled(older)
            /\ RatioLess(newer, older) <=> ValueOf(d) < 0
            /\ RatioEqual(newer, older) <=> ValueOf(d) = 0
            /\ RatioLess(d, none) <=> ValueOf(d) < 0
            /\ RatioLess(none, d) <=> ValueOf(d) > 0
            /\ error(subject.newer, newer) \in -subject.newer.relevant..subject.newer.relevant

WithoutCR(text) == FlattenSeq([i \in DOMAIN text |-> IF text[i] = CR THEN <<>> ELSE <<text[i]>>])
Unix(text) == \A i \in DOMAIN text : text[i] # CR
Dos(text) == \A i \in DOMAIN text : /\ text[i] = LF => i > 1 /\ text[i - 1] = CR
                                    /\ text[i] = CR => i < Len(text) /\ text[i + 1] = LF

(* One of the texts is the other with all its line endings converted. *)
Converted(text, other) ==
    /\ WithoutCR(text) = WithoutCR(other)
    /\ Unix(text) \/ Dos(text)
    /\ Unix(other) \/ Dos(other)

(* VerifiedText: git_commit::verify accepts a text only if it differs from   *)
(* the one the filter measured in nothing but carriage returns, and then     *)
(* counts as many lines as that one has; a text converted whole between the  *)
(* two line endings is always accepted, be it the commit's or, when that is  *)
(* another one, the work tree's.  The text that is kept with the report is   *)
(* such a one or the user is warned, if the file read again while it is      *)
(* stored still is what it was; the text of the commit needs no file.        *)
VerifiedText ==
    subject.part = "texts" =>
        LET seen == Verify(subject.digest, subject.blob, TRUE, subject.file)
            text == IF "in_repo" \in seen.flags THEN subject.blob ELSE subject.file
            accepted == seen.flags # {} /\ "mismatched" \notin seen.flags
        IN  /\ accepted => /\ WithoutCR(text) = WithoutCR(subject.digest)
                           /\ seen.lines = LinesIn(subject.digest)
            /\ \A t \in {subject.blob, subject.file} \ {NotGiven} :
                 Converted(t, subject.digest) => accepted
            /\ \A again \in {subject.file, NotGiven, <<"x", "x", LF>>} :
                 LET stored == StoreFile(seen, subject.blob, again)
                 IN  /\ stored.ok /\ ~stored.warned /\ again = subject.file
                          => WithoutCR(stored.text) = WithoutCR(subject.digest)
                     /\ stored.ok /\ stored.text # subject.blob => stored.text = again
                     /\ seen.existing => stored.ok /\ stored.text = subject.blob
=============================================================================

------------------------------- MODULE MCShow -------------------------------
(* What show makes of two small reports: the files it counts and the table   *)
(* it prints; and every small history of reports, with the revisions and     *)
(* ranges in it.                                                             *)
EXTENDS Subject, StatsTable, Revisions

Paths == {<<"x">>, <<"a", "x">>, <<"a", "b", "x">>, <<"a", "b", "y">>, <<"b", "x">>, <<"a", "a", "x">>}

(* Every file counts for something else, so that a sum tells its files. *)
Weight == [p \in Paths |-> CASE p = <<"x">> -> 1 [] p = <<"a", "x">> -> 2 [] p = <<"a", "b", "x">> -> 4
                             [] p = <<"a", "b", "y">> -> 8 [] p = <<"b", "x">> -> 16 [] OTHER -> 32]
FileStats(n) == [lines_total |-> n, lines |-> [relevant |-> n, visited |-> n \div 2],
               functions |-> [relevant |-> 2, visited |-> 2], branches |-> ZeroStats]

(* One function under two names, and none stored. *)
TwoNames == [i \in 1..2 |-> [name |-> i, demangled_name |-> 0, count |-> i - 1,
                             start |-> <<1, 0>>, end |-> <<2, 0>>]]
FilesAt(paths) == [p \in paths |-> [stats |-> FileStats(Weight[p]),
                                    functions |-> IF Len(p) = 2 THEN TwoNames ELSE NotGiven]]

Module(name, prefix) == [name |-> name, prefix |-> prefix]
ModuleSets == {{}, {Module(<<"M">>, <<"a">>)}, {Module(<<"M">>, <<"a">>), Module(<<"M">>, <<"b">>)},
               {Module(<<"M">>, <<"a">>), Module(<<"M", "N">>, <<"a", "b">>)},
               {Module(<<"K">>, <<"a">>), Module(<<"M">>, <<"a", "b">>)},
               {Module(<<"M", "N">>, <<"a", "b">>), Module(<<"M", "O">>, <<"b">>), Module(<<"K">>, <<>>)}}

Delta(status, from, to) == [status |-> status, old_file |-> from, new_file |-> to]
History(older, known, policy, deltas, readable) ==
    [older |-> older, known |-> known, policy |-> policy, git |-> [deltas |-> deltas, readable |-> readable]]
Histories ==
    {History({}, FALSE, policy, {}, TRUE) : policy \in {"initial_add_all", "initial_with_self"}}
    \cup {History({<<"b", "x">>}, TRUE, "", {Delta("copied", <<"b", "x">>, <<"a", "b", "x">>)}, TRUE)}
    \cup {History({<<"a", "x">>, <<"b", "x">>}, TRUE, "", deltas, readable) :
             deltas \in {{Delta("modified", <<"a", "x">>, <<"a", "x">>)},
                         {Delta("renamed", <<"a", "x">>, <<"x">>), Delta("deleted", <<"b", "x">>, <<"b", "x">>)}},
             readable \in BOOLEAN}

InitProjected ==
    \E paths \in kSubset(1, Paths) \cup kSubset(2, Paths) \cup kSubset(3, Paths), h \in Histories,
       mods \in ModuleSets, module \in {<<>>, <<"M">>, <<"M", "N">>},
       fname \in {<<>>, <<"a">>, <<"a", "b">>, <<"a", "x">>, <<"b">>} :
        subject = [part |-> "projected", newer |-> FilesAt(paths), older |-> FilesAt(h.older),
                   known |-> h.known, policy |-> h.policy, git |-> h.git, mods |-> mods, module |-> module,
                   fname |-> fname]

(* Rows with and without functions, changes and anything missing. *)
Measures == {[lines_total |-> 120, lines |-> l, functions |-> f, branches |-> ZeroStats] :
               l \in {[relevant |-> 4, visited |-> 4], [relevant |-> 9, visited |-> 0]},
               f \in {ZeroStats, [relevant |-> 100, visited |-> 99], [relevant |-> 2, visited |-> 2]}}
TableRow(type, current, previous) ==
    [type |-> type, display |-> IF type = "file" THEN <<"d", "/", "f", "~", "f">> ELSE <<"m">>,
     stats |-> [current |-> current, previous |-> previous]]

InitTable ==
    \E current \in Measures, previous \in Measures \cup {NoCoverage}, colored \in BOOLEAN,
       others \in {{}} \cup {{TableRow("module", m, NoCoverage)} : m \in Measures} :
        subject = [part |-> "table", colored |-> colored,
                   rows |-> {TableRow("file", current, previous)} \cup others]

InitSeen == InitProjected \/ InitTable

-----------------------------------------------------------------------------
(* The module a file belongs to is the one with the longest prefix of it. *)
Owners(f, mods) == {m \in mods : /\ m.prefix # <<>> /\ Under(m.prefix, f.filename)
                                 /\ \A n \in mods : Under(n.prefix, f.filename) => Len(n.prefix) <= Len(m.prefix)}

Conserves(s, files, rows) ==
    LET asked == {f \in files : Under(s.fname, f.filename)}
        member(f) == IF Owners(f, s.mods) = {} THEN s.module = <<>>
                     ELSE \E m \in Owners(f, s.mods) : Under(s.module, m.name)
        alone == Cardinality(asked) = 1 /\ \A f \in asked : f.filename = s.fname
        counted == IF alone THEN asked ELSE {f \in asked : member(f)}
        sum == FoldSet(LAMBDA f, t : Extend(t, MakeFile(<<>>, f).stats), NoEntryStats, counted)
    IN  /\ UNION {r.of : r \in rows} = counted
        /\ \A r, t \in rows : r # t => r.of \cap t.of = {} /\ <<r.type, r.display>> # <<t.type, t.display>>
        /\ TotalOf(rows) = sum
        /\ \A r \in rows, f \in counted :
             f \in r.of /\ r.type # "module" /\ (s.fname = <<>> \/ ~Under(s.fname \o s.fname, f.filename)) =>
               IF r.type = "directory" THEN Under(r.expanded, f.filename) ELSE r.expanded = f.filename
        /\ \A p \in DOMAIN s.older :
             \E f \in files : p \in {f.filename, f.previous_name} /\ f.previous = s.older[p].stats
        /\ s.policy = "initial_with_self" => \A f \in files : f.diff_kind = "normal" /\ f.previous = f.current

(* StatsConserved: every file asked for is counted in exactly one row and    *)
(* the rows sum up to those files, whatever modules and directories they     *)
(* are folded into; a row's full name leads back to its files; an old file   *)
(* is compared with a new one or reported as deleted, never forgotten.  Left *)
(* out: a directory that repeats the path asked for (a/a under a), whose     *)
(* name is cleaned twice.                                                    *)
StatsConserved ==
    subject.part = "projected" =>
        LET s == subject
            files == DiffWithParent(s.newer, s.older, s.known, s.git, s.policy)
        IN  Conserves(s, files, Project(files, s.mods, s.module, s.fname))

Marks0 == [c \in {"L", "F", "B"} |-> [incomplete |-> <<3, 4>>, passing |-> <<9, 10>>]]

(* How far apart the bars of a printed line stand on the screen. *)
BarWidths(line) ==
    LET bars == SelectSeq([j \in DOMAIN line |-> j], LAMBDA j : line[j] = IF line[1] = "+" THEN "+" ELSE "|")
    IN  [k \in 1..Len(bars) - 1 |-> Visible(SubSeq(line, bars[k] + 1, bars[k + 1] - 1))]

InColumns(lines) ==
    \A i \in DOMAIN lines : /\ {lines[i][1], Last(lines[i])} \subseteq {"|", "+"}
                             /\ BarWidths(lines[i]) = BarWidths(lines[1])

(* TableAligned: in every line of the table the bars stand at the same       *)
(* places of the screen, although the texts between them hold escape         *)
(* sequences and characters of several bytes, a title may be wider than its  *)
(* columns and columns with nothing to say are left out.                     *)
TableAligned ==
    subject.part = "table" => InColumns(PrintTable(subject.rows, subject.colored, Marks0))

-----------------------------------------------------------------------------
(* Every small history of reports, and the revisions and ranges in it. *)
CONSTANT MaxReports     \* the reports of a history; two more objects are none

(* Every report is younger than its parent; reports without one are roots. *)
HistoriesOf(n) == {p \in [1..n -> 0..n - 1] : \A i \in 1..n : p[i] < i}
BuildId == MaxReports + 1
LinesId == MaxReports + 2

RepoOf(parents, from, to, refs) ==
    [objects |-> [i \in 1..MaxReports + 2 |->
                    IF i = BuildId THEN [kind |-> "build", parent |-> NoOid]
                    ELSE IF i = LinesId THEN [kind |-> "lines", parent |-> NoOid]
                    ELSE [kind |-> "report", parent |-> parents[i]]],
     refs |-> refs @@ (<<"HEAD">> :> Symbolic(<<"refs", "heads", "main">>)
                       @@ <<"refs", "tags", "v">> :> Direct(from)
                       @@ <<"refs", "heads", "v">> :> Direct(to)
                       @@ <<"refs", "heads", "main">> :> Direct(to)),
     partial |-> "b" :> BuildId @@ "l" :> LinesId]

Main(ref) == <<"refs", "heads", "main">> :> ref
Unborn == Main(Symbolic(<<"refs", "heads", "next">>))
Ring == Main(Symbolic(<<"HEAD">>))

(* How far back a suffix leads; Bad ones lead nowhere. *)
Back == <<>> :> 0 @@ <<"~">> :> 1 @@ <<"~", "0">> :> 0 @@ <<"~", "2">> :> 2 @@ <<"^", "^">> :> 2
          @@ <<"^", "0", "~">> :> 1 @@ <<"~", "1", "2">> :> 12
Bad == {<<"^", "2">>, <<"~", "x">>}

(* A range, two names with their suffixes; an empty one stands for HEAD. *)
Ends == {<<<<"v">>, <<"HEAD">>>>, <<<<"v">>, <<>>>>, <<<<>>, <<"main">>>>, <<<<"main">>, <<"v">>>>}
RangeText(s) ==
    LET left == s.left \o s.suffixes[1]
        right == s.right \o s.suffixes[2]
    IN  IF s.single THEN right
        ELSE (IF s.left = <<>> THEN <<>> ELSE left) \o <<".", ".">> \o (IF s.right = <<>> THEN <<>> ELSE right)

InitRange ==
    \E parents \in HistoriesOf(MaxReports), from, to \in 1..MaxReports, refs \in {<<>>, Unborn, Ring} :
      \E one, other \in DOMAIN Back \cup Bad, limit \in {NoLimit, 0, 2}, single \in BOOLEAN,
         ends \in Ends \cup {<<<<>>, <<"b">>>>, <<<<>>, <<"l">>>>, <<<<>>, <<>>>>} :
        /\ one = <<>> \/ (other = <<>> /\ ~single /\ ends[1] # <<>>)
        /\ ends[2] = <<>> => other = <<>> /\ ~single
        /\ limit # NoLimit => one = <<>> /\ other = <<>>
        /\ refs # <<>> => from = 1 /\ to = 1 /\ limit = NoLimit
        /\ subject = [part |-> "range", parents |-> parents, from |-> from, to |-> to, left |-> ends[1],
                      right |-> ends[2], suffixes |-> <<one, other>>, single |-> single, limit |-> limit,
                      headed |-> refs = <<>>, ring |-> refs = Ring, repo |-> RepoOf(parents, from, to, refs)]

(* A message of a known format has at most one mark in a line. *)
InitMarked ==
    \E text \in SeqOf({"a", " ", LF, AlignMark}, 6), rstrip \in BOOLEAN :
        /\ \A line \in Range(SplitBy(text, LF)) : Len(SelectSeq(line, LAMBDA c : c = AlignMark)) < 2
        /\ subject = [part |-> "marked", text |-> text, rstrip |-> rstrip]

InitNames ==
    \E name \in SeqOf({"a", "A", ".", "/", "@", "{", "~", "lock"}, 5) : subject = [part |-> "refname", name |-> name]

InitHistory == InitRange \/ InitMarked \/ InitNames

-----------------------------------------------------------------------------
NthParent(parents, id, n) ==
    LET after[k \in 0..n] == IF k = 0 THEN id ELSE IF after[k - 1] = NoOid THEN NoOid ELSE parents[after[k - 1]]
    IN  after[n]
AndAncestors(parents, id) == {NthParent(parents, id, n) : n \in 0..MaxReports} \ {NoOid}

(* The report a well written end of a range is about. *)
ReportMeant(s, name, suffix) ==
    NthParent(s.parents, IF name = <<"v">> THEN s.from ELSE s.to, Back[IF name = <<>> THEN <<>> ELSE suffix])

Newest(ids) == CHOOSE i \in ids : \A k \in ids : k <= i
Descending(ids) ==
    LET n == Cardinality(ids) IN [k \in 1..n |-> CHOOSE i \in ids : Cardinality({j \in ids : j >= i}) = k]

(* What follows the marks stands in one column, that of the widest label. *)
MarksAligned ==
    subject.part = "marked" =>
        LET in == SplitBy(IF subject.rstrip THEN Rstrip(subject.text) ELSE subject.text, LF)
            out == SplitBy(PrintFacade(subject.text, subject.rstrip, TRUE), LF)
            mark(i) == FirstOf(in[i], 1, {AlignMark})
            marked == {i \in DOMAIN in : mark(i) <= Len(in[i])}
            label(i) == Before(in[i], mark(i))
            value(i) == From(in[i], mark(i) + 1)
        IN  /\ DOMAIN out = DOMAIN in
            /\ \A i \in DOMAIN in \ marked : out[i] = in[i]
            /\ marked # {} => \E w \in marked : \A i \in marked :
                 out[i] = label(i) \o [k \in 1..Len(label(w)) - Len(label(i)) |-> " "] \o value(i)

(* What the comment over is_valid_name says, of branches and of names alone. *)
NamesAsDocumented ==
    subject.part = "refname" =>
        LET name == subject.name
            parts == Range(SplitBy(name, "/"))
            has(a, b) == \E i \in 2..Len(name) : name[i - 1] = a /\ name[i] = b
            good == /\ \A part \in parts : /\ part # <<>>
                                            /\ Head(part) # "." /\ ~IsSuffix(<<".", "lock">>, part)
                    /\ ~has(".", ".") /\ ~has("@", "{") /\ "~" \notin Range(name)
        IN  /\ IsValidBranch(name) <=> good
            /\ "/" \notin Range(name) => (IsValidName(name) <=> name # <<>> /\ Range(name) \subseteq {"A"})

(* What the two commands answer, for a range of whatever form. *)
AnswersRange(s, log, show) ==
    LET named == {s.right} \cup IF s.single THEN {} ELSE {s.left}
        report == /\ named \cap {<<"b">>, <<"l">>} = {} /\ Range(s.suffixes) \cap Bad = {}
                  /\ ~(s.left = <<>> /\ s.right = <<>>)
        to == ReportMeant(s, s.right, s.suffixes[2])
        from == IF s.single THEN NoOid ELSE ReportMeant(s, s.left, s.suffixes[1])
        above(id) == IF id = NoOid THEN {} ELSE AndAncestors(s.parents, id)
        asked == Descending(above(to) \ above(from))
        shared == above(to) \cap above(from)
    IN  /\ s.headed /\ report /\ to # NoOid =>
             /\ log.error = ""
             /\ log.shown = IF s.limit = NoLimit \/ s.limit > Len(asked) THEN asked ELSE SubSeq(asked, 1, s.limit)
             /\ s.single => show.older = IF s.parents[to] = NoOid THEN to ELSE s.parents[to]
             /\ ~s.single => IF shared = {} THEN show.error # "" ELSE show.older = Newest(shared)
             /\ show.error = "" => show.newer = to /\ show.above = <<to>>
        /\ s.headed /\ (~report \/ to = NoOid) => log.error # "" /\ log.shown = <<>>
        /\ log.error = "never" => s.ring

(* LogIsRange: `log a..b` lists the reports b stands on and a does not,      *)
(* newest first and cut at -n, and `show a..b` compares b with the newest    *)
(* report they share, wherever the two histories parted, in whichever order  *)
(* they are given, for every way to write an ancestor; alone, a report is    *)
(* compared with its parent.  A tag goes before a branch of its name.  What  *)
(* is no report, not there or past the first report is refused, and only a   *)
(* ring of references keeps the command from answering.  The lines of a      *)
(* report have their values in one column; and a name is taken for that of a *)
(* branch exactly if it is of the documented form.                           *)
LogIsRange ==
    /\ MarksAligned
    /\ NamesAsDocumented
    /\ subject.part = "range" =>
          AnswersRange(subject, LogCommand(subject.repo, RangeText(subject), subject.limit),
                       ShowCommand(subject.repo, Append(RangeText(subject), ":")))
=============================================================================

------------------------------ MODULE Objects ------------------------------
(* The handlers of the object database: what store() writes for a report, a  *)
(* build, a list of files, the lines and the functions of a file, and what   *)
(* load() makes of a stream, whoever wrote it.  Strings of an object are     *)
(* byte sequences without NUL, times are numbers, the rest is words.         *)
EXTENDS Layout

Kinds == {"report", "build", "files", "lines", "functions"}

Magic == [kind \in Kinds |->
            CASE kind = "report" -> 1 [] kind = "build" -> 2 [] kind = "files" -> 3
              [] kind = "lines" -> 4 [] kind = "functions" -> 5]

Half == Byte * Byte
Version == Half              \* 1.0: the major version is the upper half-word
Major(version) == version \div Half

-----------------------------------------------------------------------------
GitStrings == {"branch", "author_name", "author_email",
               "committer_name", "committer_email", "message"}

StoreReport(obj) ==
    LET stg == StringsBuilder({obj[f] : f \in GitStrings}
                              \cup {obj.builds[i].props : i \in DOMAIN obj.builds})
        hdr == [f \in Fields(ReportHeader) |->
                  CASE f = "strings" -> After(stg, ReportHeader)
                    [] f = "entries" ->
                         AlignArray(stg, ReportHeader, ReportEntry, Len(obj.builds))
                    [] f \in {"added", "committed"} -> TimeStamp(obj[f])
                    [] f \in GitStrings -> <<Locate(stg, obj[f])>>
                    [] OTHER -> obj[f]]
        entry(b) == [build |-> b.build, propset |-> <<Locate(stg, b.props)>>,
                     stats |-> b.stats]
    IN  Pack(ReportHeader, hdr) \o ToWords(stg.bytes)
          \o FlattenSeq([i \in DOMAIN obj.builds |-> Pack(ReportEntry, entry(obj.builds[i]))])

LoadReport(in) ==
    LET h == Unpack(ReportHeader, in)
        strings == LoadStrings(in, h)
        entry(i) == LoadEntry(in, h, ReportEntry, i)
        git(f) == At(strings, h[f][1])
        build(i) == [build |-> entry(i).build, stats |-> entry(i).stats,
                     props |-> At(strings, entry(i).propset[1])]
    IN  IF \/ Len(in) < SizeOf(ReportHeader)
           \/ ~HeaderValid(h, ReportHeader, ReportEntry)
           \/ ~HasStrings(in, h)
           \/ \E f \in GitStrings : ~IsValid(strings, h[f][1])
           \/ ~HasEntries(in, h)
           \/ \E i \in 1..h.entries[3] : ~IsValid(strings, entry(i).propset[1])
        THEN BadSyntax
        ELSE Loaded([parent |-> h.parent, file_list |-> h.file_list,
                     commit_id |-> h.commit_id, branch |-> git("branch"),
                     author_name |-> git("author_name"),
                     author_email |-> git("author_email"),
                     committer_name |-> git("committer_name"),
                     committer_email |-> git("committer_email"),
                     message |-> git("message"),
                     committed |-> ToSeconds(h.committed), added |-> ToSeconds(h.added),
                     stats |-> h.stats, builds |-> [i \in 1..h.entries[3] |-> build(i)]])

-----------------------------------------------------------------------------
StoreBuild(obj) ==
    LET stg == StringsBuilder({obj.props})
    IN  Pack(BuildHeader, [strings |-> After(stg, BuildHeader), file_list |-> obj.file_list,
                           added |-> TimeStamp(obj.added),
                           propset |-> <<Locate(stg, obj.props)>>, stats |-> obj.stats])
          \o ToWords(stg.bytes)

LoadBuild(in) ==
    LET h == Unpack(BuildHeader, in)
        strings == LoadStrings(in, h)
    IN  IF \/ Len(in) < SizeOf(BuildHeader)
           \/ ~BlockValid(h.strings, BuildHeader)
           \/ ~HasStrings(in, h)
           \/ ~IsValid(strings, h.propset[1])
        THEN BadSyntax
        ELSE Loaded([file_list |-> h.file_list, added |-> ToSeconds(h.added),
                     props |-> At(strings, h.propset[1]), stats |-> h.stats])

-----------------------------------------------------------------------------
(* files::builder: one entry for each path, in the order of the paths; of    *)
(* several with one path the last one stays.                                 *)
FilesBuilder(entries) ==
    LET last == {i \in DOMAIN entries :
                   \A j \in DOMAIN entries : j > i => entries[j].path # entries[i].path}
    IN  Sorted({entries[i] : i \in last}, LAMBDA a, b : TupleLess(a.path, b.path))

OnlyLines(files) ==
    \A i \in DOMAIN files : /\ files[i].function_coverage = ZeroOid
                            /\ files[i].branch_coverage = ZeroOid

StoreFiles(files) ==
    LET entry == IF OnlyLines(files) THEN FilesBasic ELSE FilesExt
        stg == StringsBuilder({files[i].path : i \in DOMAIN files})
        init(i) == [files[i] EXCEPT !.path = <<Locate(stg, @)>>]
    IN  Pack(TableHeader, [strings |-> After(stg, TableHeader),
                           entries |-> AlignArray(stg, TableHeader, entry, Len(files))])
          \o ToWords(stg.bytes)
          \o FlattenSeq([i \in DOMAIN files |-> Pack(entry, init(i))])

LoadFiles(in) ==
    LET h == Unpack(TableHeader, in)
        strings == LoadStrings(in, h)
        basic(i) == LoadEntry(in, h, FilesBasic, i)
        path(i) == At(strings, basic(i).path[1])
        ext(i) == [LoadEntry(in, h, FilesExt, i) EXCEPT !.path = path(i)]
        filled(i) == [f \in Fields(FilesExt) |->
                        CASE f = "path" -> path(i)
                          [] f \in {"functions", "branches"} -> NoStats
                          [] f \in {"function_coverage", "branch_coverage"} -> ZeroOid
                          [] OTHER -> basic(i)[f]]
    IN  IF \/ Len(in) < SizeOf(TableHeader)
           \/ ~HeaderValid(h, TableHeader, FilesBasic)
           \/ ~HasStrings(in, h)
           \/ ~HasEntries(in, h)
           \/ \E i \in 1..h.entries[3] : ~IsValid(strings, basic(i).path[1])
        THEN BadSyntax
        ELSE Loaded(FilesBuilder([i \in 1..h.entries[3] |->
                      IF h.entries[2] < SizeOf(FilesExt) THEN filled(i) ELSE ext(i)]))

-----------------------------------------------------------------------------
StoreFunctions(fns) ==
    LET stg == StringsBuilder(UNION {{fns[i].name, fns[i].demangled_name} : i \in DOMAIN fns})
        entry(f) == [f EXCEPT !.name = <<Locate(stg, @)>>,
                              !.demangled_name = <<Locate(stg, @)>>]
    IN  Pack(TableHeader, [strings |-> After(stg, TableHeader),
                           entries |-> AlignArray(stg, TableHeader, FunctionEntry, Len(fns))])
          \o ToWords(stg.bytes)
          \o FlattenSeq([i \in DOMAIN fns |-> Pack(FunctionEntry, entry(fns[i]))])

PosAfter(p, q) == p[1] > q[1] \/ (p[1] = q[1] /\ p[2] > q[2])

LoadFunctions(in) ==
    LET h == Unpack(TableHeader, in)
        strings == LoadStrings(in, h)
        entry(i) == LoadEntry(in, h, FunctionEntry, i)
    IN  IF \/ Len(in) < SizeOf(TableHeader)
           \/ ~HeaderValid(h, TableHeader, FunctionEntry)
           \/ ~HasStrings(in, h)
           \/ ~HasEntries(in, h)
           \/ \E i \in 1..h.entries[3] :
                \/ ~IsValid(strings, entry(i).name[1])
                \/ ~IsValid(strings, entry(i).demangled_name[1])
                \/ PosAfter(entry(i).start, entry(i).end)
        THEN BadSyntax
        ELSE Loaded([i \in 1..h.entries[3] |->
                      [entry(i) EXCEPT !.name = At(strings, @[1]),
                                       !.demangled_name = At(strings, @[1])]])

-----------------------------------------------------------------------------
StoreLines(lines) == <<Len(lines) % Word>> \o lines

LoadLines(in) ==
    IF Len(in) < 1 \/ Len(in) < 1 + in[1] THEN BadSyntax
    ELSE Loaded(SubSeq(in, 2, 1 + in[1]))

-----------------------------------------------------------------------------
(* db_object: the header that names the handler, then what it stores. *)
DbStore(kind, obj) ==
    <<Magic[kind], Version>>
      \o CASE kind = "report"    -> StoreReport(obj)
           [] kind = "build"     -> StoreBuild(obj)
           [] kind = "files"     -> StoreFiles(obj)
           [] kind = "lines"     -> StoreLines(obj)
           [] kind = "functions" -> StoreFunctions(obj)

DbLoad(in) ==
    LET hdr == Unpack(FileHeader, in)
        kinds == {k \in Kinds : Magic[k] = hdr.magic[1]}
        rest == SubSeq(in, 3, Len(in))
    IN  IF Len(in) < 2 THEN BadSyntax
        ELSE IF Major(hdr.version[1]) # Major(Version)
             THEN [ok |-> FALSE, err |-> "unsupported_version"]
        ELSE IF kinds = {} THEN [ok |-> FALSE, err |-> "unknown_magic"]
        ELSE CASE kinds = {"report"}    -> LoadReport(rest)
               [] kinds = {"build"}     -> LoadBuild(rest)
               [] kinds = {"files"}     -> LoadFiles(rest)
               [] kinds = {"lines"}     -> LoadLines(rest)
               [] kinds = {"functions"} -> LoadFunctions(rest)

-----------------------------------------------------------------------------
(* What a later minor version may write: dh more words in the header, de     *)
(* more in each entry.  (Entries of the basic kind are not extended, a       *)
(* longer one is the extended kind; line coverage has no header.)            *)
Newer(kind, stream, dh, de) ==
    LET header == CASE kind = "report" -> ReportHeader [] kind = "build" -> BuildHeader
                    [] OTHER -> TableHeader
        body == SubSeq(stream, 3, Len(stream))
        h == Unpack(header, body)
        more(n) == [i \in 1..n |-> 1]
        table == kind # "build"
        wider == IF table /\ (kind = "files" => h.entries[2] = SizeOf(FilesExt)) THEN de ELSE 0
        grown == [f \in Fields(header) |->
                    CASE f = "strings" -> <<h.strings[1] + dh, h.strings[2]>>
                      [] f = "entries" -> <<h.entries[1] + dh, h.entries[2] + wider, h.entries[3]>>
                      [] OTHER -> h[f]]
        entry(i) == LET from == EntriesAt(h) + h.entries[2] * (i - 1)
                    IN  SubSeq(body, from + 1, from + h.entries[2]) \o more(wider)
    IN  IF kind = "lines" THEN [stream EXCEPT ![2] = @ + 1]
        ELSE <<Magic[kind], Version + 1>> \o Pack(header, grown) \o more(dh)
               \o ToWords(LoadStrings(body, h))
               \o IF table THEN FlattenSeq([i \in 1..h.entries[3] |-> entry(i)]) ELSE <<>>
=============================================================================

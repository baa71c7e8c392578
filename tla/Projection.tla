----------------------------- MODULE Projection -----------------------------
(* From two file lists to the rows `cov show` prints: matching files across  *)
(* renames (repository.cc), then projecting them onto modules, directories   *)
(* and files (projection.cc).  A path or a module name is the sequence of    *)
(* its parts.  The program sorts files and rows by name at the end; here     *)
(* they are sets.                                                            *)
EXTENDS CoverageView

ZeroStats == [relevant |-> 0, visited |-> 0]
NoCoverage == [lines_total |-> 0, lines |-> ZeroStats, functions |-> ZeroStats, branches |-> ZeroStats]

AddCoverage(s, t) ==
    [lines_total |-> AddU32(s.lines_total, t.lines_total), lines |-> AddStats(s.lines, t.lines),
     functions |-> AddStats(s.functions, t.functions), branches |-> AddStats(s.branches, t.branches)]

Extend(s, t) == [current |-> AddCoverage(s.current, t.current),
                 previous |-> AddCoverage(s.previous, t.previous)]
NoEntryStats == [current |-> NoCoverage, previous |-> NoCoverage]

-----------------------------------------------------------------------------
(* diff_betwen_commits: what git says of the two commits, when both can be   *)
(* read; only renames and copies are kept.                                   *)
DiffBetweenCommits(git) ==
    LET kept == IF git.readable THEN {d \in git.deltas : d.status \in {"renamed", "copied"}} ELSE {}
    IN  [path \in {d.new_file : d \in kept} |->
            LET delta == CHOOSE d \in kept : d.new_file = path
            IN  [previous_name |-> delta.old_file, diff_kind |-> delta.status]]

(* diff_betwen_reports.  newer and older map the files of a report to their  *)
(* stats and function coverage; renames maps new names to old ones.  An old  *)
(* file may be the previous one of several; what is left over was deleted.   *)
DiffBetweenReports(newer, older, renames) ==
    LET key(path) == IF path \in DOMAIN renames THEN renames[path].previous_name ELSE path
        match(path) ==
            LET found == key(path) \in DOMAIN older
                renamed == path \in DOMAIN renames
            IN  [filename |-> path, current |-> newer[path].stats,
                 previous |-> IF found THEN older[key(path)].stats ELSE NoCoverage,
                 previous_name |-> IF renamed THEN key(path) ELSE <<>>,
                 diff_kind |-> IF renamed THEN renames[path].diff_kind
                               ELSE IF found THEN "normal" ELSE "added",
                 current_functions |-> newer[path].functions,
                 previous_functions |-> IF found THEN older[key(path)].functions ELSE NotGiven]
        used == {key(path) : path \in DOMAIN newer}
        deleted(path) ==
            [filename |-> path, current |-> NoCoverage, previous |-> older[path].stats,
             previous_name |-> <<>>, diff_kind |-> "deleted",
             current_functions |-> NotGiven, previous_functions |-> NotGiven]
    IN  {match(path) : path \in DOMAIN newer} \cup {deleted(path) : path \in DOMAIN older \ used}

(* diff_with_parent: without a parent to be read, a report is compared with  *)
(* itself, as show does, or has all of its files added.                      *)
DiffWithParent(newer, older, hasParent, git, policy) ==
    IF hasParent THEN DiffBetweenReports(newer, older, DiffBetweenCommits(git))
    ELSE IF policy = "initial_with_self" THEN DiffBetweenReports(newer, newer, <<>>)
    ELSE {[filename |-> path, current |-> newer[path].stats, previous |-> NoCoverage,
           previous_name |-> <<>>, diff_kind |-> "added",
           current_functions |-> NotGiven, previous_functions |-> NotGiven] : path \in DOMAIN newer}

-----------------------------------------------------------------------------
(* prefixed *)
Under(filter, name) == IsPrefix(filter, name)
Clean(filter, name) ==
    IF IsPrefix(filter, name) /\ Len(filter) < Len(name) THEN From(name, Len(filter) + 1) ELSE name
ApplyTo(filter, name) == filter \o name

(* dir_entry; of is a ghost, the files counted in the entry. *)
MakeEntry(type, display) ==
    [type |-> type, display |-> display, stats |-> NoEntryStats, children |-> <<>>, of |-> {}]

RecalcFunctions(functions, fallback) ==
    IF functions = NotGiven THEN fallback ELSE FunctionStats(functions)

MakeFile(display, file) ==
    LET current == RecalcFunctions(file.current_functions, file.current.functions)
        previous == RecalcFunctions(file.previous_functions, file.previous.functions)
    IN  [MakeEntry("file", display) EXCEPT
           !.stats = [current |-> [file.current EXCEPT !.functions = current],
                      previous |-> [file.previous EXCEPT !.functions = previous]],
           !.of = {file}]

(* find_entry, add_level *)
LevelsOf(entry, type, display) ==
    {i \in DOMAIN entry.children : entry.children[i].type = type /\ entry.children[i].display = display}
WithLevel(entry, type, display) ==
    IF LevelsOf(entry, type, display) # {} THEN entry
    ELSE [entry EXCEPT !.children = Append(@, MakeEntry(type, display))]
LevelAt(entry, type, display) == CHOOSE i \in LevelsOf(entry, type, display) : TRUE

RECURSIVE AddFile(_, _, _)
AddFile(entry, name, file) ==
    LET display == <<Head(name)>>
        e == WithLevel(entry, "directory", display)
    IN  IF Len(name) = 1 THEN [entry EXCEPT !.children = Append(@, MakeFile(name, file))]
        ELSE [e EXCEPT !.children[LevelAt(e, "directory", display)] = AddFile(@, Tail(name), file)]

RECURSIVE AddModule(_, _, _, _)
AddModule(entry, module, files, filter) ==
    LET display == <<Head(module)>>
        e == WithLevel(entry, "module", display)
    IN  IF module = <<>>
        THEN FoldSet(LAMBDA file, d : AddFile(d, Clean(filter, file.filename), file), entry, files)
        ELSE [e EXCEPT !.children[LevelAt(e, "module", display)] = AddModule(@, Tail(module), files, filter)]

(* modules_projection: modules outside the filter take their files away;     *)
(* the others are known by their name one part below the filter.  mods is a  *)
(* set of [name, prefix] pairs.                                              *)
Projected(mods, filter) ==
    {[m EXCEPT !.name = SubSeq(@, 1, IF Len(@) > Len(filter) THEN Len(filter) + 1 ELSE Len(@))] :
        m \in {m \in mods : Under(filter, m.name)}}
FilteredOut(mods, filter) == {m.prefix : m \in {m \in mods : ~Under(filter, m.name)}}

(* add_files: a file goes to the module with the longest prefix of it; the   *)
(* filtered out ones win only with a longer one.  An empty prefix holds      *)
(* none.  Files of no module are shown when no module is asked for.          *)
Fits(file, mods) == {m \in mods : m.prefix # <<>> /\ Under(m.prefix, file.filename)}
Outcome(place, name) == [place |-> place, name |-> name]

ModuleOfAny(file, mods, out) ==
    LET fits == Fits(file, mods)
    IN  IF \E dir \in out : Under(dir, file.filename) THEN Outcome("out", <<>>)
        ELSE IF fits = {} THEN Outcome("free", <<>>)
        ELSE Outcome("module", (CHOOSE m \in fits : TRUE).name)

ModuleOf(file, mods, out) ==
    LET fits == Fits(file, mods)
        best == CHOOSE m \in fits : \A n \in fits : Len(n.prefix) <= Len(m.prefix)
        taken == \E dir \in out : /\ Under(dir, file.filename)
                                  /\ Len(dir) > (IF fits = {} THEN 0 ELSE Len(best.prefix))
    IN  IF taken THEN Outcome("out", <<>>)
        ELSE IF fits = {} THEN Outcome("free", <<>>) ELSE Outcome("module", best.name)

AddFiles(root, mods, out, files, wholeTree, filter) ==
    LET of(place) == {f \in files : ModuleOf(f, mods, out) = place}
        places == {ModuleOf(f, mods, out) : f \in files}
        shown == {p \in places : p.place = "module" \/ (p.place = "free" /\ wholeTree)}
    IN  FoldSet(LAMBDA p, e : AddModule(e, p.name, of(p), filter), root, shown)

(* propagate: sums go up; an entry with one child of its own kind becomes    *)
(* that child under both names.                                              *)
RECURSIVE Propagate(_), PropagateTo(_, _)
PropagateTo(entry, children) ==
    LET stats == FoldLeft(LAMBDA s, c : Extend(s, c.stats), entry.stats, children)
        of == entry.of \cup UNION {children[i].of : i \in DOMAIN children}
        only == children[1]
    IN  IF Len(children) = 1 /\ only.type = entry.type
        THEN [entry EXCEPT !.stats = stats, !.of = of, !.display = @ \o only.display,
                           !.children = only.children]
        ELSE [entry EXCEPT !.stats = stats, !.of = of, !.children = children]

Propagate(entry) ==
    PropagateTo(entry, [i \in DOMAIN entry.children |-> Propagate(entry.children[i])])

(* swap_directory_with_children *)
RECURSIVE Descend(_)
Descend(children) ==
    IF Len(children) = 1 /\ children[1].type = "directory"
    THEN Descend([i \in DOMAIN children[1].children |->
                    [children[1].children[i] EXCEPT !.display = children[1].display \o @]])
    ELSE children

Swapped(children, deeper, filter) ==
    IF deeper = children THEN children
    ELSE [i \in DOMAIN deeper |-> [deeper[i] EXCEPT !.display = Clean(filter, @)]]

SwapDirectory(children, filter) == Swapped(children, Descend(children), filter)

FileProjection(files, fname) == {f \in files : Under(fname, f.filename)}

(* report_filter::project *)
Standalone(files, fname) == Cardinality(files) = 1 /\ \A f \in files : f.filename = fname

TreeOf(selected, mods, module, fname) ==
    LET start == MakeEntry("module", <<>>)
    IN  IF Standalone(selected, fname) THEN AddFile(start, fname, CHOOSE f \in selected : TRUE)
        ELSE AddFiles(start, Projected(mods, module), FilteredOut(mods, module), selected, module = <<>>, fname)

RowsOf(children, standalone, module, fname) ==
    LET alone == standalone /\ Len(children) = 1 /\ children[1].type = "file" /\ children[1].display = fname
        filter == IF alone THEN Front(fname) ELSE fname
        row(c) == LET display == IF alone THEN Clean(filter, c.display) ELSE c.display
                  IN  [type |-> IF alone THEN "standalone_file" ELSE c.type, display |-> display,
                       expanded |-> ApplyTo(IF c.type = "module" THEN module ELSE filter, display),
                       stats |-> c.stats, of |-> c.of]
    IN  {row(children[i]) : i \in DOMAIN children}

Project(files, mods, module, fname) ==
    LET selected == FileProjection(files, fname)
    IN  RowsOf(SwapDirectory(Propagate(TreeOf(selected, mods, module, fname)).children, fname),
               Standalone(selected, fname), module, fname)
=============================================================================

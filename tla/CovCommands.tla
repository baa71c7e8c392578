---------------------------- MODULE CovCommands ----------------------------
(***************************************************************************)
(* Concurrent `cov` processes (report, reset, branch, tag, checkout) over  *)
(* one repository: the object database, the reference files and one HEAD   *)
(* per work tree.  A step is one file-system access another process can    *)
(* see: one reference read, one reference replaced or removed, one object  *)
(* stored.  RefStore and ObjectStore justify these grains.                 *)
(***************************************************************************)
EXTENDS Integers, FiniteSets

CONSTANTS
    Procs,          \* processes that run commands
    Worktrees,      \* work trees, each with a HEAD file of its own
    At,             \* [Procs -> Worktrees]: where a process runs
    Names,          \* shorthand names of branches and tags
    StartBranch,    \* [Worktrees -> Names]: the branch each HEAD starts on
    Data,           \* report inputs: git commit, git branch, coverage
    Leaves,         \* [Data -> sets of leaf payloads]: its coverage and blobs
    Zero,           \* the zero oid
    None,           \* no value: absent file, empty optional, empty string
    Commands,       \* the commands a process may be given
    MaxCommands,    \* bound: commands started in one behaviour
    Faults          \* subset of {"crash", "write"}: what may go wrong

Kinds == {"heads", "tags"}

ASSUME ProcsAssumption == At \in [Procs -> Worktrees]
ASSUME NamesAssumption ==
    /\ StartBranch \in [Worktrees -> Names]
    /\ Names \cap {None, "HEAD", "SHA"} = {}
ASSUME ZeroAssumption == Zero # None
ASSUME LeavesAssumption == DOMAIN Leaves = Data
ASSUME BoundAssumption == MaxCommands \in Nat /\ Faults \subseteq {"crash", "write"}

\* A command line.  `name` is what a reference is created, deleted or checked
\* out as; <base>~<up> is the revision; `force` is --force or --amend.
CommandType ==
    [op    : {"report", "reset", "create", "delete", "branch", "checkout",
              "detach", "orphan"},
     kind  : Kinds,
     name  : Names \cup {None},
     base  : Names \cup {"HEAD", "SHA"},
     up    : Nat,
     data  : Data \cup {None},
     force : BOOLEAN]

\* Where a reference will be written, the command line names it.
WellNamed(c) ==
    c.op \in {"create", "delete", "branch", "orphan"}
      \/ (c.op = "checkout" /\ c.base \in Names) => c.name \in Names

ASSUME CommandsAssumption ==
    \A c \in Commands :
        /\ c \in CommandType /\ WellNamed(c)
        /\ c.op = "report" => c.data \in Data

VARIABLES
    db,         \* the objects in the database; an object is its own id
    refs,       \* refs[<<kind, name>>]: the oid in the file, or None
    head,       \* head[w]: the HEAD file of a work tree, see Branch and Oid
    started,    \* number of commands started
    pc, ret,    \* per process: next step; step after reading HEAD
    cmd,        \* per process: the command it runs
    leaves, tree, builds,  \* oids a report has stored so far
    seen,       \* the value current_head() is being read into
    known,      \* the `known` argument of update_current_head
    target,     \* the oid a reference will be set to
    left,       \* parent_count of parse_single
    res         \* how the last command ended

disk == <<db, refs, head>>
made == <<leaves, tree, builds>>
vars == <<db, refs, head, started, pc, ret, cmd, leaves, tree, builds, seen,
          known, target, left, res>>

-----------------------------------------------------------------------------
(* Values.                                                                 *)

\* A HEAD file, and a current_head_type: a branch, a tip, or both.
HeadValue(b, t) == [branch |-> b, tip |-> t]

\* Content addressing: an object is identified with its contents.
Obj(k, d, p, ls) == [kind |-> k, data |-> d, parent |-> p, links |-> ls]
Leaf(l) == Obj("leaf", l, Zero, {})
FileTree(d, ls) == Obj("files", d, Zero, ls)
Build(d, t) == Obj("build", d, Zero, {t})
Report(p, d, t, bs) == Obj("report", d, p, {t} \cup bs)

\* lookup<report>: nothing has the zero oid.
IsReport(o) == o # Zero /\ o \in db /\ o.kind = "report"

\* The parent a lookup of `o` yields; anything but a report ends the walk.
ParentOf(o) == IF IsReport(o) THEN o.parent ELSE Zero

\* Where a freshly started command begins.
FirstStep(c) ==
    CASE c.op = "report"   -> "leaves"
      [] c.op = "delete"   -> "head"
      [] c.op = "checkout" -> "dwim"
      [] c.op = "orphan"   -> "orphan"
      [] OTHER             -> "parse"    \* reset, create, branch, detach

\* Where a command continues with the oid parse_single produced.
AfterParse(c) ==
    CASE c.op = "reset"  -> "head"
      [] c.op = "detach" -> "sethead"
      [] c.force         -> "create"
      [] OTHER           -> "exists"

-----------------------------------------------------------------------------
Init ==
    /\ db = {}
    /\ refs = [k \in Kinds \X Names |-> None]
    /\ head = [w \in Worktrees |-> HeadValue(StartBranch[w], None)]
    /\ started = 0
    /\ pc = [p \in Procs |-> "idle"]
    /\ ret = [p \in Procs |-> "idle"]
    /\ cmd = [p \in Procs |-> None]
    /\ leaves = [p \in Procs |-> {}]
    /\ tree = [p \in Procs |-> Zero]
    /\ builds = [p \in Procs |-> {}]
    /\ seen = [p \in Procs |-> HeadValue(None, None)]
    /\ known = [p \in Procs |-> HeadValue(None, None)]
    /\ target = [p \in Procs |-> Zero]
    /\ left = [p \in Procs |-> 0]
    /\ res = [p \in Procs |-> "none"]

Is(p, s) == pc[p] = s
Goto(p, s) == pc' = [pc EXCEPT ![p] = s]
End(p, r) == Goto(p, "idle") /\ res' = [res EXCEPT ![p] = r]

\* A new process image: every local of the command is fresh.
StartCommand(p, c) ==
    /\ Is(p, "idle")
    /\ started < MaxCommands
    /\ started' = started + 1
    /\ cmd' = [cmd EXCEPT ![p] = c]
    /\ Goto(p, FirstStep(c))
    /\ ret' = [ret EXCEPT ![p] = IF c.op = "delete" THEN "lookup" ELSE "known"]
    /\ leaves' = [leaves EXCEPT ![p] = {}]
    /\ tree' = [tree EXCEPT ![p] = Zero]
    /\ builds' = [builds EXCEPT ![p] = {}]
    /\ seen' = [seen EXCEPT ![p] = HeadValue(None, None)]
    /\ known' = [known EXCEPT ![p] = HeadValue(None, None)]
    /\ target' = [target EXCEPT ![p] = Zero]
    /\ left' = [left EXCEPT ![p] = c.up]
    /\ res' = [res EXCEPT ![p] = "none"]
    /\ UNCHANGED disk

-----------------------------------------------------------------------------
(* cov report: objects first, children before parents.                     *)

\* stored_file::store, one write() of one leaf object.
StoreLeaf(p) ==
    /\ Is(p, "leaves")
    /\ \E l \in Leaves[cmd[p].data] :
        /\ Leaf(l) \notin leaves[p]
        /\ db' = db \cup {Leaf(l)}
        /\ leaves' = [leaves EXCEPT ![p] = @ \cup {Leaf(l)}]
    /\ UNCHANGED <<refs, head, started, pc, ret, cmd, tree, builds, seen,
                   known, target, left, res>>

\* Mutant of StoreTree: the tree is stored before the files it lists.
StoreTreeEarly(p) ==
    /\ Is(p, "leaves")
    /\ LET t == FileTree(cmd[p].data, {Leaf(l) : l \in Leaves[cmd[p].data]})
       IN  /\ db' = db \cup {t}
           /\ tree' = [tree EXCEPT ![p] = t]
    /\ Goto(p, "build")
    /\ UNCHANGED <<refs, head, started, ret, cmd, leaves, builds, seen, known,
                   target, left, res>>

\* stored_file::store_tree, once every file has been stored.
StoreTree(p) ==
    /\ Is(p, "leaves")
    /\ \A l \in Leaves[cmd[p].data] : Leaf(l) \in leaves[p]
    /\ LET t == FileTree(cmd[p].data, leaves[p])
       IN  /\ db' = db \cup {t}
           /\ tree' = [tree EXCEPT ![p] = t]
    /\ Goto(p, "build")
    /\ UNCHANGED <<refs, head, started, ret, cmd, leaves, builds, seen, known,
                   target, left, res>>

\* parser::store_build and builds.add; its result is not looked at, so a
\* failed write leaves the zero oid in the list of builds.
StoreBuild(p) ==
    /\ Is(p, "build")
    /\ LET b == Build(cmd[p].data, tree[p])
       IN  \/ /\ db' = db \cup {b}
              /\ builds' = [builds EXCEPT ![p] = {b}]
           \/ /\ "write" \in Faults
              /\ builds' = [builds EXCEPT ![p] = {Zero}]
              /\ UNCHANGED db
    /\ Goto(p, "head")
    /\ UNCHANGED <<refs, head, started, ret, cmd, leaves, tree, seen, known,
                   target, left, res>>

\* A database write that fails ends the command with data_error.
StoreFails(p) ==
    /\ "write" \in Faults
    /\ pc[p] \in {"leaves", "store"}
    /\ End(p, "error")
    /\ UNCHANGED <<db, refs, head, started, ret, cmd, made, seen, known,
                   target, left>>

-----------------------------------------------------------------------------
(* repository::current_head: HEAD first, then the branch it names.         *)

ReadHead(p) ==
    /\ Is(p, "head")
    /\ seen' = [seen EXCEPT ![p] = head[At[p]]]
    /\ Goto(p, IF head[At[p]].branch = None THEN ret[p] ELSE "tip")
    /\ UNCHANGED <<db, refs, head, started, ret, cmd, made, known, target,
                   left, res>>

ReadTip(p) ==
    /\ Is(p, "tip")
    /\ seen' = [seen EXCEPT ![p] =
                  HeadValue(seen[p].branch, refs[<<"heads", seen[p].branch>>])]
    /\ Goto(p, ret[p])
    /\ UNCHANGED <<db, refs, head, started, ret, cmd, made, known, target,
                   left, res>>

\* The value read becomes the HEAD this attempt builds upon.
TakeKnown(p) ==
    /\ Is(p, "known")
    /\ known' = [known EXCEPT ![p] = seen[p]]
    /\ IF cmd[p].op = "report"
       THEN Goto(p, "prepare") /\ UNCHANGED ret
       ELSE Goto(p, "head") /\ ret' = [ret EXCEPT ![p] = "check"]
    /\ UNCHANGED <<db, refs, head, started, cmd, made, seen, target, left, res>>

\* --amend needs a report at the tip.
NothingToAmend(p) == cmd[p].force /\ ~ (known[p].tip # None /\ IsReport(known[p].tip))

\* Mutant of ParentFor: --amend forgets to step down to the tip's parent.
ParentForTip(p) == IF known[p].tip = None THEN Zero ELSE known[p].tip

\* The parent of the new report: the tip, or with --amend the tip's parent.
ParentFor(p) ==
    IF known[p].tip = None THEN Zero
    ELSE IF cmd[p].force THEN known[p].tip.parent ELSE known[p].tip

\* Mutant of SameReport: compares with the tip, also when that is amended.
SameAsTip(p) ==
    /\ known[p].tip # None /\ IsReport(known[p].tip)
    /\ known[p].tip.data = cmd[p].data

\* Nothing to add: the parent already is a report of the same commit,
\* branch and coverage.
SameReport(p) == IsReport(ParentFor(p)) /\ ParentFor(p).data = cmd[p].data

\* update_current_branch, the part of one loop turn before the write.
PrepareReport(p) ==
    /\ Is(p, "prepare")
    /\ IF NothingToAmend(p) THEN End(p, "error")
       ELSE IF SameReport(p) THEN End(p, "same")
       ELSE Goto(p, "store") /\ UNCHANGED res
    /\ UNCHANGED <<db, refs, head, started, ret, cmd, made, seen, known,
                   target, left>>

\* std::move(builds): a second turn of the loop finds the list empty.
MovedBuilds(p) == {}

\* Mutant of StoreReport: goes on after a write that failed.
StoreReportUnwritten(p) ==
    /\ Is(p, "store")
    /\ target' = [target EXCEPT ![p] =
                    Report(ParentFor(p), cmd[p].data, tree[p], builds[p])]
    /\ builds' = [builds EXCEPT ![p] = {}]
    /\ Goto(p, "head")
    /\ ret' = [ret EXCEPT ![p] = "check"]
    /\ UNCHANGED <<db, refs, head, started, cmd, leaves, tree, seen, known,
                   left, res>>

\* report::create and repository::write; then update_current_head reads HEAD
\* again.
StoreReport(p) ==
    /\ Is(p, "store")
    /\ LET r == Report(ParentFor(p), cmd[p].data, tree[p], builds[p])
       IN  /\ db' = db \cup {r}
           /\ target' = [target EXCEPT ![p] = r]
    /\ builds' = [builds EXCEPT ![p] = MovedBuilds(p)]
    /\ Goto(p, "head")
    /\ ret' = [ret EXCEPT ![p] = "check"]
    /\ UNCHANGED <<refs, head, started, cmd, leaves, tree, seen, known, left, res>>

-----------------------------------------------------------------------------
(* repository::update_current_head, shared by report and reset.            *)

\* Mutant of CompareHead: the retry keeps the HEAD it knew.
CompareHeadStale(p) ==
    /\ Is(p, "check")
    /\ IF seen[p] = known[p] THEN Goto(p, "move") /\ UNCHANGED res
       ELSE IF cmd[p].op = "report" THEN Goto(p, "head") /\ UNCHANGED res
       ELSE End(p, "unmoved")
    /\ UNCHANGED <<db, refs, head, started, ret, cmd, made, seen, known,
                   target, left>>

\* HEAD moved since it was read: report tries again, reset silently ends.
CompareHead(p) ==
    /\ Is(p, "check")
    /\ IF seen[p] = known[p]
       THEN Goto(p, "move") /\ UNCHANGED <<ret, res>>
       ELSE IF cmd[p].op = "report"
       THEN Goto(p, "head") /\ ret' = [ret EXCEPT ![p] = "known"] /\ UNCHANGED res
       ELSE End(p, "unmoved") /\ UNCHANGED ret
    /\ UNCHANGED <<db, refs, head, started, cmd, made, seen, known, target, left>>

\* refs_->create; whether it worked is not looked at, the command goes on to
\* report success.
MoveTip(p) ==
    /\ Is(p, "move")
    /\ \/ /\ known[p].branch = None
          /\ head' = [head EXCEPT ![At[p]] = HeadValue(None, target[p])]
          /\ UNCHANGED refs
       \/ /\ known[p].branch # None
          /\ refs' = [refs EXCEPT ![<<"heads", known[p].branch>>] = target[p]]
          /\ UNCHANGED head
       \/ /\ "write" \in Faults
          /\ UNCHANGED <<refs, head>>
    /\ End(p, "ok")
    /\ UNCHANGED <<db, started, ret, cmd, made, seen, known, target, left>>

-----------------------------------------------------------------------------
(* revs::parse_single on <base>~up; base is HEAD, a shorthand or a sha.    *)

\* The oid `o` was found: walk the parents if asked to.
Found(p, o) ==
    /\ target' = [target EXCEPT ![p] = o]
    /\ IF left[p] = 0 THEN Goto(p, AfterParse(cmd[p])) /\ UNCHANGED res
       ELSE IF IsReport(o) THEN Goto(p, "walk") /\ UNCHANGED res
       ELSE End(p, "error")

\* dwim looks at HEAD, or at refs/tags before refs/heads.
ParseSingle(p) ==
    /\ Is(p, "parse")
    /\ LET base == cmd[p].base
           symbolic(b) == /\ seen' = [seen EXCEPT ![p] = HeadValue(b, None)]
                          /\ Goto(p, "peel")
                          /\ UNCHANGED <<target, res>>
       IN  \/ /\ base = "HEAD"
              /\ IF head[At[p]].branch # None THEN symbolic(head[At[p]].branch)
                 ELSE Found(p, head[At[p]].tip) /\ UNCHANGED seen
           \/ /\ base = "SHA"
              /\ \E o \in db : Found(p, o)
              /\ UNCHANGED seen
           \/ /\ base \in Names
              /\ IF refs[<<"tags", base>>] = None THEN symbolic(base)
                 ELSE Found(p, refs[<<"tags", base>>]) /\ UNCHANGED seen
    /\ UNCHANGED <<db, refs, head, started, ret, cmd, made, known, left>>

\* No object has that sha: find_partial fails.
ParseNotFound(p) ==
    /\ Is(p, "parse") /\ cmd[p].base = "SHA"
    /\ End(p, "error")
    /\ UNCHANGED <<db, refs, head, started, ret, cmd, made, seen, known,
                   target, left>>

\* The branch HEAD names, or refs/heads/<base>; absent: unborn or not found.
PeelTarget(p) ==
    /\ Is(p, "peel")
    /\ LET o == refs[<<"heads", seen[p].branch>>]
       IN  IF o = None THEN End(p, "error") /\ UNCHANGED target ELSE Found(p, o)
    /\ UNCHANGED <<db, refs, head, started, ret, cmd, made, seen, known, left>>

\* One parent per step; past the root the result is the zero oid.
ParentWalk(p) ==
    /\ Is(p, "walk")
    /\ target' = [target EXCEPT ![p] = ParentOf(target[p])]
    /\ left' = [left EXCEPT ![p] = @ - 1]
    /\ IF left[p] = 1 \/ ParentOf(target[p]) = Zero
       THEN Goto(p, AfterParse(cmd[p])) ELSE UNCHANGED pc
    /\ UNCHANGED <<db, refs, head, started, ret, cmd, made, seen, known, res>>

-----------------------------------------------------------------------------
(* cov branch / cov tag: copy_ref and remove_ref; cov checkout.            *)

Ref(c) == <<c.kind, c.name>>

\* copy_ref without --force: the name must be free.
CopyRefExists(p) ==
    /\ Is(p, "exists")
    /\ IF refs[Ref(cmd[p])] # None THEN End(p, "error")
       ELSE Goto(p, "create") /\ UNCHANGED res
    /\ UNCHANGED <<db, refs, head, started, ret, cmd, made, seen, known,
                   target, left>>

\* A failed create is reported as invalidspec.
CopyRefCreate(p) ==
    /\ Is(p, "create")
    /\ \/ /\ refs' = [refs EXCEPT ![Ref(cmd[p])] = target[p]]
          /\ IF cmd[p].op = "branch" THEN Goto(p, "sethead") /\ UNCHANGED res
             ELSE End(p, "ok")
       \/ /\ "write" \in Faults
          /\ End(p, "error")
          /\ UNCHANGED refs
    /\ UNCHANGED <<db, head, started, ret, cmd, made, seen, known, target, left>>

\* Mutant of SetHead: detaching keeps the name of the branch.
SetHeadHalf(p) ==
    /\ Is(p, "sethead")
    /\ head' = [head EXCEPT ![At[p]] =
                  IF cmd[p].op = "detach" THEN HeadValue(@.branch, target[p])
                  ELSE HeadValue(cmd[p].name, None)]
    /\ End(p, "ok")
    /\ UNCHANGED <<db, refs, started, ret, cmd, made, seen, known, target, left>>

\* set_head: a symbolic HEAD for branches, the oid itself when detaching.
SetHead(p) ==
    /\ Is(p, "sethead")
    /\ \/ /\ head' = [head EXCEPT ![At[p]] =
                        IF cmd[p].op = "detach" THEN HeadValue(None, target[p])
                        ELSE HeadValue(cmd[p].name, None)]
          /\ End(p, "ok")
       \/ /\ "write" \in Faults
          /\ End(p, "error")
          /\ UNCHANGED head
    /\ UNCHANGED <<db, refs, started, ret, cmd, made, seen, known, target, left>>

\* checkout_ref: dwim finds a tag before a branch of the same name, and
\* whatever is not a branch is left to detach_ref, which parses it afresh.
Detaching(c) == [c EXCEPT !.op = "detach"]

CheckoutDwim(p) ==
    /\ Is(p, "dwim")
    /\ IF cmd[p].base \in Names /\ refs[<<"tags", cmd[p].base>>] = None
       THEN Goto(p, "dwim2") /\ UNCHANGED cmd
       ELSE Goto(p, "parse") /\ cmd' = [cmd EXCEPT ![p] = Detaching(@)]
    /\ UNCHANGED <<db, refs, head, started, ret, made, seen, known, target,
                   left, res>>

CheckoutDwimHeads(p) ==
    /\ Is(p, "dwim2")
    /\ IF refs[<<"heads", cmd[p].base>>] # None
       THEN Goto(p, "sethead") /\ UNCHANGED cmd
       ELSE Goto(p, "parse") /\ cmd' = [cmd EXCEPT ![p] = Detaching(@)]
    /\ UNCHANGED <<db, refs, head, started, ret, made, seen, known, target,
                   left, res>>

CheckoutOrphaned(p) ==
    /\ Is(p, "orphan")
    /\ IF refs[<<"heads", cmd[p].name>>] # None THEN End(p, "error")
       ELSE Goto(p, "sethead") /\ UNCHANGED res
    /\ UNCHANGED <<db, refs, head, started, ret, cmd, made, seen, known,
                   target, left>>

\* Mutant of RemoveLookup: the current branch is not protected.
RemoveLookupAny(p) ==
    /\ Is(p, "lookup")
    /\ IF refs[Ref(cmd[p])] = None THEN End(p, "error") /\ UNCHANGED target
       ELSE /\ target' = [target EXCEPT ![p] = refs[Ref(cmd[p])]]
            /\ Goto(p, "match") /\ UNCHANGED res
    /\ UNCHANGED <<db, refs, head, started, ret, cmd, made, seen, known, left>>

\* params::remove, after current_head(): find the reference, refuse the
\* current branch.
RemoveLookup(p) ==
    /\ Is(p, "lookup")
    /\ LET o == refs[Ref(cmd[p])]
       IN  IF o = None \/ (cmd[p].kind = "heads" /\ seen[p].branch = cmd[p].name)
           THEN End(p, "error") /\ UNCHANGED target
           ELSE /\ target' = [target EXCEPT ![p] = o]
                /\ Goto(p, "match") /\ UNCHANGED res
    /\ UNCHANGED <<db, refs, head, started, ret, cmd, made, seen, known, left>>

\* remove_ref: look again, the reference must not have changed ...
RemoveMatch(p) ==
    /\ Is(p, "match")
    /\ IF refs[Ref(cmd[p])] = target[p] THEN Goto(p, "unlink") /\ UNCHANGED res
       ELSE End(p, "error")
    /\ UNCHANGED <<db, refs, head, started, ret, cmd, made, seen, known,
                   target, left>>

\* ... and remove the file.
RemoveUnlink(p) ==
    /\ Is(p, "unlink")
    /\ refs' = [refs EXCEPT ![Ref(cmd[p])] = None]
    /\ End(p, "ok")
    /\ UNCHANGED <<db, head, started, ret, cmd, made, seen, known, target, left>>

\* The process dies; what it stored stays.
Crash(p) ==
    /\ "crash" \in Faults
    /\ ~ Is(p, "idle")
    /\ End(p, "crash")
    /\ UNCHANGED <<db, refs, head, started, ret, cmd, made, seen, known,
                   target, left>>

-----------------------------------------------------------------------------
ReportStep(p) ==
    \/ StoreLeaf(p) \/ StoreTree(p) \/ StoreBuild(p) \/ StoreFails(p)
    \/ PrepareReport(p) \/ StoreReport(p)

HeadStep(p) ==
    ReadHead(p) \/ ReadTip(p) \/ TakeKnown(p) \/ CompareHead(p) \/ MoveTip(p)

RevStep(p) ==
    ParseSingle(p) \/ ParseNotFound(p) \/ PeelTarget(p) \/ ParentWalk(p)

RefStep(p) ==
    \/ CopyRefExists(p) \/ CopyRefCreate(p) \/ SetHead(p)
    \/ CheckoutDwim(p) \/ CheckoutDwimHeads(p) \/ CheckoutOrphaned(p)
    \/ RemoveLookup(p) \/ RemoveMatch(p) \/ RemoveUnlink(p)

Step(p) == ReportStep(p) \/ HeadStep(p) \/ RevStep(p) \/ RefStep(p)

\* Every process is idle and no command is left to start.
Finished ==
    /\ started = MaxCommands /\ \A p \in Procs : Is(p, "idle")
    /\ UNCHANGED vars

Next ==
    \/ \E p \in Procs : \/ \E c \in Commands : StartCommand(p, c)
                        \/ Step(p)
                        \/ Crash(p)
    \/ Finished

Spec == Init /\ [][Next]_vars

\* A started process keeps running unless it is killed.
FairSpec == Spec /\ \A p \in Procs : WF_vars(Step(p))

-----------------------------------------------------------------------------
(* Properties.                                                             *)

Steps == {"idle", "leaves", "build", "head", "tip", "known", "prepare",
          "store", "check", "move", "parse", "peel", "walk", "exists",
          "create", "sethead", "dwim", "dwim2", "orphan", "lookup", "match",
          "unlink"}

\* The shape of the state: a HEAD that names a branch holds no oid.
TypeOK ==
    /\ pc \in [Procs -> Steps]
    /\ ret \in [Procs -> {"idle", "known", "check", "lookup"}]
    /\ started \in 0..MaxCommands
    /\ DOMAIN refs = Kinds \X Names
    /\ DOMAIN head = Worktrees
    /\ \A w \in Worktrees :
        /\ head[w] = HeadValue(head[w].branch, head[w].tip)
        /\ head[w].branch \in Names \cup {None}
        /\ head[w].branch # None => head[w].tip = None

\* An oid that can be resolved; the zero oid stands for "no object".
Resolves(o) == o \in db \cup {Zero}

\* No object in the database names an object that is not there: the report,
\* its parent, its file list, its builds, and their leaves.  Holds through
\* crashes and failed writes because cov report stores children first.
DbClosed == \A o \in db : Resolves(o.parent) /\ \A l \in o.links : Resolves(l)

\* No branch, tag or detached HEAD names an object that is not there: a
\* reference is only ever set to an oid that was stored or read before.
RefsClosed ==
    /\ \A k \in Kinds \X Names : refs[k] = None \/ Resolves(refs[k])
    /\ \A w \in Worktrees : head[w].branch = None => Resolves(head[w].tip)

\* No report repeats the commit and the coverage of its own parent: the
\* check in update_current_branch looks at the parent this very attempt uses,
\* also after a lost race and with --amend.
NoEcho == \A r \in db : (r.kind = "report" /\ IsReport(r.parent))
                            => r.parent.data # r.data

\* Every stored report lists the build it was made from (report_command.cc
\* passes the builds on to every attempt to create the report).
BuildListed == \A r \in db : r.kind = "report" =>
                  \E b \in r.links : b # Zero /\ b.kind = "build"

TipParent(o) == IF o = None THEN Zero ELSE ParentOf(o)

\* cov report puts its report on top of the history the branch has at that
\* moment, and with --amend it replaces the tip and nothing below it.
ReportOnTop ==
    [][\A p \in Procs :
         (Is(p, "move") /\ pc'[p] = "idle" /\ cmd[p].op = "report") =>
            \A k \in Kinds \X Names : refs'[k] # refs[k] =>
               refs'[k].parent = IF cmd[p].force THEN TipParent(refs[k])
                                 ELSE IF refs[k] = None THEN Zero ELSE refs[k]]_vars

\* A branch that is checked out, in any work tree, is never deleted: cov
\* branch --delete refuses with BRANCH_NOT_DELETABLE.
NeverDeletesCurrent ==
    [][\A k \in Kinds \X Names : (k[1] = "heads" /\ refs[k] # None /\ refs'[k] = None)
          => \A w \in Worktrees : head[w].branch # k[2]]_vars

\* Every command comes to an end: a report that keeps losing the race for
\* HEAD stops retrying once the others are done.
Finishes == \A p \in Procs : ~ Is(p, "idle") ~> Is(p, "idle")
=============================================================================

------------------------------ MODULE InitRepo ------------------------------
(* `cov init`: building a .covdata directory, alone or as the companion of   *)
(* a git worktree (cov::init_repository), and finding it again               *)
(* (discover_repository).  There is one main repository, and one worktree    *)
(* whose data is kept in main/worktrees/<name>, "linked", with a link file   *)
(* "wt" at the worktree's git directory.  Every call can fail, every process *)
(* can be killed between two calls, and several may run at once.             *)
EXTENDS Integers, Sequences, FiniteSets

CONSTANTS
    Procs,
    MaxInits,       \* how many commands are started
    MaxFaults       \* how many calls fail and processes are killed

ASSUME InitRepoAssumption == MaxInits \in Nat /\ MaxFaults \in Nat

VARIABLES
    fs,             \* the directories and files there are, <<place, name>>
    empty,          \* those of the files without contents
    cmd,            \* the arguments of each process's command
    pc, step,       \* where each process is
    out,            \* what the last command of each process said
    inits, faults,  \* how many there were
    overlapped,     \* ghost: commands that ran while another did
    torn            \* ghost: removing the main directory was cut short or overtaken

vars == <<fs, empty, cmd, pc, step, out, inits, faults, overlapped, torn>>

Commands == [worktree : BOOLEAN, force : BOOLEAN]

MainParts == {"objects/pack", "objects/coverage", "refs/heads", "refs/tags",
              "gitdir", "config", "HEAD"}
LinkedParts == {"dir", "commondir", "covdir", "gitdir", "HEAD"}
Entries == ({"main"} \X MainParts) \cup ({"linked"} \X LinkedParts) \cup {<<"wt", "covdata">>}

CovDir(c) == IF c.worktree THEN "wt" ELSE "main"

(* What is removed with a directory: main has the linked one inside. *)
Inside(place) == {e \in Entries : e[1] = place \/ (place = "main" /\ e[1] = "linked")}

TypeOK ==
    /\ empty \subseteq fs /\ fs \subseteq Entries
    /\ cmd \in [Procs -> Commands]
    /\ pc \in [Procs -> {"idle", "check", "remove", "prepare", "check_linked",
                         "remove_linked", "build", "store", "abort"}]
    /\ step \in [Procs -> 0..7]
    /\ out \in [Procs -> {"none", "ok", "file_exists", "failed", "killed"}]
    /\ inits \in 0..MaxInits /\ faults \in 0..MaxFaults
    /\ overlapped \subseteq Procs /\ torn \in BOOLEAN

Init ==
    /\ fs = {} /\ empty = {}
    /\ cmd = [p \in Procs |-> [worktree |-> FALSE, force |-> FALSE]]
    /\ pc = [p \in Procs |-> "idle"] /\ step = [p \in Procs |-> 0]
    /\ out = [p \in Procs |-> "none"]
    /\ inits = 0 /\ faults = 0 /\ overlapped = {} /\ torn = FALSE

-----------------------------------------------------------------------------
(* is_valid_path and what it reads. *)
Has(place, names) == \A n \in names : <<place, n>> \in fs

TrueBase(place) ==
    IF <<place, "commondir">> \in fs \ empty THEN "main" ELSE place

IsValidPath(place) ==
    /\ place # "wt"                             \* a file, or nothing
    /\ Has(TrueBase(place), {"objects/coverage", "config"})
    /\ Has(place, {"HEAD"})

(* discover_repository from the work tree of each; what is found is a place  *)
(* or an error.  The walk up the directories finds nothing nearer.           *)
ReadCovlink == <<"wt", "covdata">> \in fs \ empty

Discover(place) ==
    IF place = "main" THEN (IF IsValidPath("main") THEN "main" ELSE "notfound")
    ELSE IF ReadCovlink /\ IsValidPath("linked") THEN "linked"
    ELSE IF IsValidPath("main") THEN "uninitialized_worktree"
    ELSE "notfound"

-----------------------------------------------------------------------------
Goto(p, where) == pc' = [pc EXCEPT ![p] = where]

Says(p, what) == Goto(p, "idle") /\ out' = [out EXCEPT ![p] = what]

(* init_transaction: every early return but "exists" removes cov_dir. *)
Fails(p) == faults < MaxFaults /\ faults' = faults + 1 /\ Goto(p, "abort")

Active == {p \in Procs : pc[p] # "idle"}

BeginInit(p, c) ==
    /\ pc[p] = "idle" /\ inits < MaxInits
    /\ inits' = inits + 1
    /\ cmd' = [cmd EXCEPT ![p] = c]
    /\ step' = [step EXCEPT ![p] = 0]
    /\ out' = [out EXCEPT ![p] = "none"]
    /\ overlapped' = IF Active = {} THEN overlapped \ {p} ELSE overlapped \cup Active \cup {p}
    /\ Goto(p, "check")
    /\ UNCHANGED <<fs, empty, faults, torn>>

AfterCheck(p) == IF cmd[p].worktree THEN "prepare" ELSE "build"

CheckRollsBack(p) ==
    /\ pc[p] = "check"
    /\ IF ~IsValidPath(CovDir(cmd[p])) THEN Goto(p, AfterCheck(p))
       ELSE IF cmd[p].force THEN Goto(p, "remove") ELSE Goto(p, "abort")
    /\ UNCHANGED <<fs, empty, cmd, step, out, inits, faults, overlapped, torn>>

Check(p) ==
    /\ pc[p] = "check"
    /\ IF ~IsValidPath(CovDir(cmd[p])) THEN Goto(p, AfterCheck(p)) /\ UNCHANGED out
       ELSE IF cmd[p].force THEN Goto(p, "remove") /\ UNCHANGED out
       ELSE Says(p, "file_exists")
    /\ UNCHANGED <<fs, empty, cmd, step, inits, faults, overlapped, torn>>

(* remove_all: one entry after the other, in no particular order. *)
RemovesOne(place) ==
    \E e \in Inside(place) \cap fs : fs' = fs \ {e} /\ empty' = empty \ {e}

IsTorn(place) == torn' = (torn \/ place = "main") /\ UNCHANGED <<cmd, step, inits, overlapped>>

Remove(p) ==
    LET place == IF pc[p] = "remove" THEN CovDir(cmd[p]) ELSE "linked"
    IN  /\ pc[p] \in {"remove", "remove_linked"}
        /\ \/ /\ RemovesOne(place) /\ IsTorn(place) /\ UNCHANGED <<pc, out, faults>>
           \/ /\ Inside(place) \cap fs = {}
              /\ Goto(p, IF pc[p] = "remove" THEN AfterCheck(p) ELSE "build")
              /\ torn' = (torn /\ ~(place = "main" /\ Active = {p}))
              /\ UNCHANGED <<fs, empty, cmd, step, out, inits, faults, overlapped>>
           \/ Fails(p) /\ UNCHANGED <<fs, empty, cmd, step, out, inits, overlapped, torn>>

(* prepare_worktree: the git directory must be a worktree's, its main        *)
(* repository must have been set up, and the branch must exist: these are    *)
(* the failures.                                                             *)
Prepare(p) ==
    /\ pc[p] = "prepare"
    /\ \/ Discover("main") = "main" /\ Goto(p, "check_linked") /\ UNCHANGED faults
       \/ Discover("main") # "main" /\ Goto(p, "abort") /\ UNCHANGED faults
       \/ Fails(p)
    /\ UNCHANGED <<fs, empty, cmd, step, out, inits, overlapped, torn>>

CheckLinked(p) ==
    /\ pc[p] = "check_linked"
    /\ IF ~IsValidPath("linked") THEN Goto(p, "build") /\ UNCHANGED out
       ELSE IF cmd[p].force THEN Goto(p, "remove_linked") /\ UNCHANGED out
       ELSE Says(p, "file_exists")
    /\ UNCHANGED <<fs, empty, cmd, step, inits, faults, overlapped, torn>>

(* What is made, in this order. *)
StepsHeadFirst(worktree) ==
    IF worktree
    THEN << <<"linked", "dir">>, <<"linked", "commondir">>, <<"linked", "covdir">>,
            <<"linked", "gitdir">>, <<"linked", "HEAD">>, <<"wt", "covdata">> >>
    ELSE << <<"main", "objects/pack">>, <<"main", "objects/coverage">>, <<"main", "gitdir">>,
            <<"main", "config">>, <<"main", "HEAD">>, <<"main", "refs/heads">>,
            <<"main", "refs/tags">> >>

StepsWithoutLink(worktree) ==
    IF worktree
    THEN << <<"linked", "dir">>, <<"linked", "covdir">>,
            <<"linked", "gitdir">>, <<"linked", "HEAD">>, <<"wt", "covdata">> >>
    ELSE << <<"main", "objects/pack">>, <<"main", "objects/coverage">>,
            <<"main", "refs/heads">>, <<"main", "refs/tags">>, <<"main", "gitdir">>,
            <<"main", "config">>, <<"main", "HEAD">> >>

Steps(worktree) ==
    IF worktree
    THEN << <<"linked", "dir">>, <<"linked", "commondir">>, <<"linked", "covdir">>,
            <<"linked", "gitdir">>, <<"linked", "HEAD">>, <<"wt", "covdata">> >>
    ELSE << <<"main", "objects/pack">>, <<"main", "objects/coverage">>,
            <<"main", "refs/heads">>, <<"main", "refs/tags">>, <<"main", "gitdir">>,
            <<"main", "config">>, <<"main", "HEAD">> >>

(* Directories and the configuration (which git writes in one go) appear as  *)
(* they are; touch() opens a file, which empties it, and then stores. A file *)
(* in a directory somebody has removed cannot be opened.                     *)
WrittenLater == {"gitdir", "HEAD", "commondir", "covdir", "covdata"}
CanOpen(place) == CASE place = "main" -> <<"main", "objects/coverage">> \in fs
                    [] place = "linked" -> <<"linked", "dir">> \in fs
                    [] place = "wt" -> TRUE

Advance(p) == step' = [step EXCEPT ![p] = @ + 1]

Build(p) ==
    LET steps == Steps(cmd[p].worktree)
        next == steps[step[p] + 1]
        openable == next[2] \in WrittenLater \cup {"config"} => CanOpen(next[1])
    IN  /\ pc[p] = "build"
        /\ \/ /\ step[p] = Len(steps)
              /\ Says(p, "ok")
              /\ UNCHANGED <<fs, empty, step, faults>>
           \/ /\ step[p] < Len(steps) /\ next[2] \notin WrittenLater /\ openable
              /\ fs' = fs \cup {next} /\ Advance(p)
              /\ UNCHANGED <<pc, empty, out, faults>>
           \/ /\ step[p] < Len(steps) /\ next[2] \in WrittenLater /\ openable
              /\ fs' = fs \cup {next} /\ empty' = empty \cup {next}
              /\ Goto(p, "store")
              /\ UNCHANGED <<step, out, faults>>
           \/ /\ step[p] < Len(steps) /\ ~openable /\ next # <<"main", "gitdir">>
              /\ Goto(p, "abort")
              /\ UNCHANGED <<fs, empty, step, out, faults>>
           \/ /\ step[p] < Len(steps) /\ next # <<"main", "gitdir">>
              /\ Fails(p)
              /\ UNCHANGED <<fs, empty, step, out>>
           \/ /\ step[p] < Len(steps) /\ next = <<"main", "gitdir">>
              /\ (openable => faults < MaxFaults)
              /\ faults' = IF openable THEN faults + 1 ELSE faults
              /\ Advance(p)
              /\ UNCHANGED <<fs, empty, pc, out>>
    /\ UNCHANGED <<cmd, inits, overlapped, torn>>

(* The bytes of an open file go to it wherever it is by now; a short write   *)
(* is not noticed.                                                           *)
Store(p) ==
    /\ pc[p] = "store"
    /\ \/ empty' = empty \ {Steps(cmd[p].worktree)[step[p] + 1]} /\ UNCHANGED faults
       \/ faults < MaxFaults /\ faults' = faults + 1 /\ UNCHANGED empty
    /\ Advance(p) /\ Goto(p, "build")
    /\ UNCHANGED <<fs, cmd, out, inits, overlapped, torn>>

Abort(p) ==
    LET place == CovDir(cmd[p])
    IN  /\ pc[p] = "abort"
        /\ \/ RemovesOne(place) /\ IsTorn(place) /\ UNCHANGED <<pc, out, faults>>
           \/ /\ Inside(place) \cap fs = {} /\ Says(p, "failed")
              /\ torn' = (torn /\ ~(place = "main" /\ Active = {p}))
              /\ UNCHANGED <<fs, empty, cmd, step, inits, faults, overlapped>>
           \/ /\ faults < MaxFaults /\ faults' = faults + 1 /\ Says(p, "failed")
              /\ UNCHANGED <<fs, empty, cmd, step, inits, overlapped, torn>>

Kill(p) ==
    /\ pc[p] # "idle"
    /\ faults < MaxFaults /\ faults' = faults + 1
    /\ Says(p, "killed")
    /\ UNCHANGED <<fs, empty, cmd, step, inits, overlapped, torn>>

Finished == inits = MaxInits /\ Active = {} /\ UNCHANGED vars

Next ==
    \/ \E p \in Procs :
         \/ \E c \in Commands : BeginInit(p, c)
         \/ Check(p) \/ Remove(p) \/ Prepare(p) \/ CheckLinked(p) \/ Build(p) \/ Store(p)
         \/ Abort(p) \/ Kill(p)
    \/ Finished

Spec == Init /\ [][Next]_vars

-----------------------------------------------------------------------------
(* ValidIsWhole: a main directory that is_valid_path accepts has all its     *)
(* parts, whenever the init that made it was killed: HEAD, which is looked   *)
(* for, is made last.  Only a removal that was cut short leaves one that is  *)
(* accepted and not whole.                                                   *)
ValidIsWhole ==
    IsValidPath("main") /\ ~torn => Has("main", MainParts \ {"gitdir"})

(* KeepsRepository: a repository that is set up is lost only to --force, or  *)
(* to an init that ran at the same time as another and failed; an init that  *)
(* finds it, fails elsewhere or is run again never removes it.  (What a      *)
(* removal that was cut short has left is no longer one: an init that is     *)
(* completing it may make it look valid before it fails and removes it.)     *)
KeepsRepository ==
    [][IsValidPath("main") /\ ~torn /\ ~IsValidPath("main")' =>
         \E p \in Active : cmd[p].force \/ (pc[p] = "abort" /\ p \in overlapped)]_vars

(* InitIsFound: what a successful init has made is what discover_repository  *)
(* finds from there, if no other init ran meanwhile: for a worktree this     *)
(* takes the link, the way back to the common directory and its own HEAD.    *)
InitIsFound ==
    [][\A p \in Procs \ overlapped :
         pc[p] = "build" /\ out'[p] = "ok" /\ ~torn /\ faults = 0 =>
            IF cmd[p].worktree THEN Discover("wt")' = "linked"
            ELSE Discover("main")' = "main"]_vars
=============================================================================

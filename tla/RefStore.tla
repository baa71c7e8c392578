------------------------------ MODULE RefStore ------------------------------
(***************************************************************************)
(* The reference store on its file system: references_impl over            *)
(* safe_stream.  A reference is a file below refs/; it is replaced by      *)
(* writing a temporary file next to it and renaming that.  Steps are       *)
(* system calls; files are names for inodes, as an open temporary file     *)
(* stays writable after its name is gone or taken over.                    *)
(***************************************************************************)
EXTENDS Integers, Sequences, FiniteSets

CONSTANTS
    Procs,
    Names,      \* reference names: [dir, stem, ext, tmp], tmp = ""
    Values,     \* lines a reference may hold
    Inodes,     \* a finite set of integers
    None,
    Ops,        \* operations a process may be asked for
    MaxOps,     \* bound: operations begun in one behaviour
    Faults      \* subset of {"crash", "open", "nul"}

OpType == [op   : {"create", "copy", "match", "remove", "list"},
           name : Names, val : Values \cup {None}, exp : Values \cup {None}]

ASSUME RefOpsAssumption ==
    \A o \in Ops : o \in OpType /\ ((o.val = None) <=> (o.op \in {"remove", "list"}))
ASSUME RefNamesAssumption ==
    /\ \A n \in Names : DOMAIN n = {"dir", "stem", "ext", "tmp"} /\ n.tmp = ""
    /\ "" \notin Procs \cup {"nul"} /\ "nul" \notin Procs
    /\ {None, "empty"} \cap Values = {} /\ None \notin Inodes /\ None \notin OpType
ASSUME RefFaultsAssumption ==
    MaxOps \in Nat /\ Faults \subseteq {"crash", "open", "nul"}

VARIABLES
    link,   \* link[path]: the inode a file name stands for, or None
    data,   \* data[inode]: the line in it, or Empty
    dirs,   \* directories below refs/
    begun,  \* operations begun
    crashed,\* processes that were killed at some time
    pc, job, tmp, fd, seen, res,
    todo, listed    \* per process: see Lookup, OpenTmp and ListEntry

fs == <<link, data, dirs>>
vars == <<link, data, dirs, begun, crashed, pc, job, tmp, fd, seen, res,
          todo, listed>>
listing == <<todo, listed>>

Empty == "empty"

\* tmp_fname draws the random part of a temporary name.  The alphabet's
\* terminating NUL can be drawn too: one draw in 37 ends the name right there,
\* extension included, and every process gets the same one.
TmpSuffixes(p) == {p} \cup ({"nul"} \cap Faults)

\* safe_base::alt_filename: <stem>_tmp<random><ext>, next to the reference.
TmpName(n, s) == [n EXCEPT !.tmp = s, !.ext = IF s = "nul" THEN "" ELSE @]
Paths == Names \cup {TmpName(n, s) : n \in Names, s \in Procs \cup {"nul"}}

\* A name as a directory, and the directories that have to exist for a file.
AsDir(n) == Append(n.dir, <<n.stem, n.ext, n.tmp>>)
ParentDirs(n) == {SubSeq(n.dir, 1, i) : i \in 1..Len(n.dir)}

\* No reference is kept below a directory that is named like a temporary file.
ASSUME RefDirsAssumption ==
    \A f \in Paths, n \in Names : f.tmp # "" => AsDir(f) \notin ParentDirs(n)

\* references_impl::lookup: a missing file, a directory or a file without a
\* line in it is no reference.
LookupPath(f) == IF link[f] = None \/ data[link[f]] = Empty THEN None ELSE data[link[f]]

Files == {f \in Paths : link[f] # None}

\* No file where one of the directories above n has to be.
NoFileAbove(n) == \A f \in Files : AsDir(f) \notin ParentDirs(n)

\* Inodes with a name or an open descriptor are in use.
UsedInodes == ({link[f] : f \in Paths} \cup {fd[p] : p \in Procs}) \ {None}
FreeInode == CHOOSE i \in Inodes : i \notin UsedInodes

Init ==
    /\ link = [f \in Paths |-> None]
    /\ data = [i \in Inodes |-> Empty]
    /\ dirs = {}
    /\ begun = 0
    /\ crashed = {}
    /\ pc = [p \in Procs |-> "idle"]
    /\ job = [p \in Procs |-> None]
    /\ tmp = [p \in Procs |-> None]
    /\ fd = [p \in Procs |-> None]
    /\ seen = [p \in Procs |-> None]
    /\ res = [p \in Procs |-> "none"]
    /\ todo = [p \in Procs |-> {}]
    /\ listed = [p \in Procs |-> {}]

Goto(p, s) == pc' = [pc EXCEPT ![p] = s]

\* The call returns, or the process is gone: descriptors are closed.
Return(p, r) ==
    /\ Goto(p, "idle")
    /\ job' = [job EXCEPT ![p] = None]
    /\ tmp' = [tmp EXCEPT ![p] = None]
    /\ fd' = [fd EXCEPT ![p] = None]
    /\ seen' = [seen EXCEPT ![p] = None]
    /\ res' = [res EXCEPT ![p] = r]

BeginOp(p, o) ==
    /\ pc[p] = "idle" /\ begun < MaxOps
    /\ begun' = begun + 1
    /\ job' = [job EXCEPT ![p] = o]
    /\ res' = [res EXCEPT ![p] = "none"]
    /\ listed' = [listed EXCEPT ![p] = {}]
    /\ todo' = [todo EXCEPT ![p] = IF o.op = "list" THEN Files ELSE {}]
    /\ Goto(p, CASE o.op = "create" -> "mkdir" [] o.op = "list" -> "list"
                 [] OTHER -> "lookup")
    /\ UNCHANGED <<fs, crashed, tmp, fd, seen>>

-----------------------------------------------------------------------------
\* create_matching refuses a value other than the expected one, copy_ref any
\* value, remove_ref's caller a missing reference.
Refuses(o, v) ==
    CASE o.op = "match"  -> v # None /\ v # o.exp
      [] o.op = "copy"   -> v # None
      [] o.op = "remove" -> v = None

\* The first look at the reference, before create() or remove_ref().
Lookup(p) ==
    /\ pc[p] = "lookup"
    /\ LET v == LookupPath(job[p].name)
       IN  IF Refuses(job[p], v) THEN Return(p, "error")
           ELSE /\ seen' = [seen EXCEPT ![p] = v]
                /\ Goto(p, IF job[p].op = "remove" THEN "again" ELSE "mkdir")
                /\ UNCHANGED <<job, tmp, fd, res>>
    /\ UNCHANGED <<fs, begun, crashed, listing>>

\* references_impl::print: create_directories.
Mkdir(p) ==
    /\ pc[p] = "mkdir"
    /\ IF NoFileAbove(job[p].name)
       THEN /\ dirs' = dirs \cup ParentDirs(job[p].name)
            /\ Goto(p, "open") /\ UNCHANGED <<job, tmp, fd, seen, res>>
       ELSE Return(p, "error") /\ UNCHANGED dirs
    /\ UNCHANGED <<link, data, begun, crashed, listing>>

\* safe_stream's constructor: create_directories once more, as one may have
\* been removed since, and fopen(tmp, "wb"), which creates or truncates.
OpenTmp(p) ==
    /\ pc[p] = "open" /\ NoFileAbove(job[p].name)
    /\ UsedInodes # Inodes
    /\ \E s \in TmpSuffixes(p) :
        LET t == TmpName(job[p].name, s)
            i == IF link[t] # None THEN link[t] ELSE FreeInode
        IN  /\ tmp' = [tmp EXCEPT ![p] = t]
            /\ fd' = [fd EXCEPT ![p] = i]
            /\ link' = [link EXCEPT ![t] = i]
            /\ data' = [data EXCEPT ![i] = Empty]
    /\ dirs' = dirs \cup ParentDirs(job[p].name)
    /\ Goto(p, "write")
    /\ UNCHANGED <<begun, crashed, job, seen, res, listing>>

OpenFails(p) ==
    /\ pc[p] = "open" /\ ("open" \in Faults \/ ~NoFileAbove(job[p].name))
    /\ Return(p, "error")
    /\ UNCHANGED <<fs, begun, crashed, listing>>

\* safe_stream::commit: the buffered line reaches the file in out_.close().
WriteLine(p) ==
    /\ pc[p] = "write"
    /\ data' = [data EXCEPT ![fd[p]] = job[p].val]
    /\ fd' = [fd EXCEPT ![p] = None]
    /\ Goto(p, "rename")
    /\ UNCHANGED <<link, dirs, begun, crashed, job, tmp, seen, res, listing>>

\* rename() fails on a directory, or when the temporary file is gone; then
\* rollback() removes the temporary file.
CanRename(p) == link[tmp[p]] # None /\ AsDir(job[p].name) \notin dirs

\* Mutant of Commit: the old reference is removed first.
CommitRemovesFirst(p) ==
    /\ pc[p] = "rename"
    /\ IF link[job[p].name] # None
       THEN /\ link' = [link EXCEPT ![job[p].name] = None]
            /\ UNCHANGED <<pc, job, tmp, fd, seen, res>>
       ELSE IF CanRename(p)
       THEN /\ link' = [link EXCEPT ![job[p].name] = link[tmp[p]], ![tmp[p]] = None]
            /\ Return(p, "ok")
       ELSE /\ Goto(p, "rollback")
            /\ UNCHANGED <<link, job, tmp, fd, seen, res>>
    /\ UNCHANGED <<data, dirs, begun, crashed, listing>>

Commit(p) ==
    /\ pc[p] = "rename"
    /\ IF CanRename(p)
       THEN /\ link' = [link EXCEPT ![job[p].name] = link[tmp[p]], ![tmp[p]] = None]
            /\ Return(p, "ok")
       ELSE /\ Goto(p, "rollback")
            /\ UNCHANGED <<link, job, tmp, fd, seen, res>>
    /\ UNCHANGED <<data, dirs, begun, crashed, listing>>

\* Mutant of Rollback: the temporary file stays behind.
RollbackLeaves(p) ==
    /\ pc[p] = "rollback"
    /\ Return(p, "error")
    /\ UNCHANGED <<fs, begun, crashed, listing>>

\* Mutant of Rollback: the rename is tried again.
RollbackRetry(p) ==
    /\ pc[p] = "rollback"
    /\ Goto(p, "rename")
    /\ UNCHANGED <<fs, begun, crashed, job, tmp, fd, seen, res, listing>>

Rollback(p) ==
    /\ pc[p] = "rollback"
    /\ link' = [link EXCEPT ![tmp[p]] = None]
    /\ Return(p, "error")
    /\ UNCHANGED <<data, dirs, begun, crashed, listing>>

\* remove_ref looks again and compares with the reference it was given ...
LookAgain(p) ==
    /\ pc[p] = "again"
    /\ IF LookupPath(job[p].name) = seen[p]
       THEN Goto(p, "unlink") /\ UNCHANGED <<job, tmp, fd, seen, res>>
       ELSE Return(p, "error")
    /\ UNCHANGED <<fs, begun, crashed, listing>>

\* ... and removes what has that name: the file, or an empty directory that
\* took its place.  The directories above are kept.
IsEmptyDir(d) ==
    /\ \A f \in Files : d \notin ParentDirs(f)
    /\ \A e \in dirs : ~(Len(e) > Len(d) /\ SubSeq(e, 1, Len(d)) = d)

Unlink(p) ==
    /\ pc[p] = "unlink"
    /\ LET d == AsDir(job[p].name)
       IN  /\ link' = [link EXCEPT ![job[p].name] = None]
           /\ dirs' = IF d \in dirs /\ IsEmptyDir(d) THEN dirs \ {d} ELSE dirs
           /\ Return(p, IF d \in dirs /\ ~IsEmptyDir(d) THEN "error" ELSE "ok")
    /\ UNCHANGED <<data, begun, crashed, listing>>

\* reference_list_impl::next: the next directory entry, shown if it is still a
\* regular file with a reference in it.
ListEntry(p) ==
    /\ pc[p] = "list"
    /\ \E f \in todo[p] :
        /\ todo' = [todo EXCEPT ![p] = @ \ {f}]
        /\ listed' = [listed EXCEPT ![p] =
                          IF LookupPath(f) # None THEN @ \cup {f} ELSE @]
    /\ UNCHANGED <<fs, begun, crashed, pc, job, tmp, fd, seen, res>>

ListEnd(p) ==
    /\ pc[p] = "list" /\ todo[p] = {}
    /\ Return(p, "ok")
    /\ UNCHANGED <<fs, begun, crashed, listing>>

\* The process is killed: its files stay as they are.
Crash(p) ==
    /\ pc[p] # "idle" /\ "crash" \in Faults
    /\ crashed' = crashed \cup {p}
    /\ Return(p, "error")
    /\ UNCHANGED <<fs, begun, listing>>

Step(p) ==
    \/ Lookup(p) \/ Mkdir(p) \/ OpenTmp(p) \/ OpenFails(p) \/ WriteLine(p)
    \/ Commit(p) \/ Rollback(p) \/ LookAgain(p) \/ Unlink(p)
    \/ ListEntry(p) \/ ListEnd(p)

Finished == begun = MaxOps /\ (\A p \in Procs : pc[p] = "idle") /\ UNCHANGED vars

Next ==
    \/ \E p \in Procs : (\E o \in Ops : BeginOp(p, o)) \/ Step(p) \/ Crash(p)
    \/ Finished

Spec == Init /\ [][Next]_vars
FairSpec == Spec /\ \A p \in Procs : WF_vars(Step(p))
-----------------------------------------------------------------------------
(* Properties.                                                             *)

\* Names, inodes and the descriptors in use have the shapes the code relies
\* on: whoever is about to write has a descriptor, nobody else has.
TypeOK ==
    /\ link \in [Paths -> Inodes \cup {None}]
    /\ data \in [Inodes -> Values \cup {Empty}]
    /\ \A p \in Procs : (fd[p] # None) <=> (pc[p] = "write")
    /\ \A p \in Procs : (job[p] # None) <=> (pc[p] # "idle")

\* The store implements AtomicRefs: a lookup never sees a half-written or
\* empty reference, an operation that returns success has taken effect in one
\* step, one that fails has none.
Abstract == INSTANCE AtomicRefs WITH ref <- [n \in Names |-> LookupPath(n)]
RefinesAtomicRefs == Abstract!ASpec

\* Once all is quiet the only temporary files in refs/ are those of processes
\* that were killed: print() renames its file or rolls back.
NoLitter ==
    (\A p \in Procs : pc[p] = "idle") =>
        \A f \in Files : f.tmp = "" \/ f.tmp \in crashed

\* Every operation returns.
Returns == \A p \in Procs : pc[p] # "idle" ~> pc[p] = "idle"
=============================================================================

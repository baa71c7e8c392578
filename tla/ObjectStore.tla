---------------------------- MODULE ObjectStore ----------------------------
(***************************************************************************)
(* The object database on its file system: loose_backend over              *)
(* safe_z_stream and zstream.  An object is deflated into a temporary file *)
(* and renamed to its hash; reading inflates the file.  Steps are system   *)
(* calls.  An object's hash stands for the object: file content is which   *)
(* object each of the two parts of a deflated stream was written for.      *)
(***************************************************************************)
EXTENDS Integers, FiniteSets

CONSTANTS
    Procs,
    Ids,        \* object ids
    Group,      \* [Ids -> prefixes]: what an abbreviated id has in common
    Inodes,
    None,
    Ops,        \* operations a process may be asked for
    MaxOps,     \* bound: operations begun in one behaviour
    Faults      \* subset of {"crash", "open", "full", "nul"}

OpType == [op : {"write", "read", "find"}, id : Ids]

ASSUME StoreOpsAssumption == Ops \subseteq OpType /\ MaxOps \in Nat
ASSUME StoreFaultsAssumption == Faults \subseteq {"crash", "open", "full", "nul"}
ASSUME StoreNoneAssumption ==
    /\ None \notin Ids /\ None \notin Inodes /\ None \notin OpType
    /\ None \notin [1..2 -> Ids \cup {None}]
ASSUME StoreIdsAssumption == IsFiniteSet(Ids) /\ DOMAIN Group = Ids

VARIABLES
    link,       \* link[path]: the inode a file name stands for, or None
    data,       \* data[inode]: who wrote the first and the second part
    begun,      \* operations begun
    stored,     \* objects some write() returned true for
    pc, job, tmp, fd, flushed, got, res     \* per process

vars == <<link, data, begun, stored, pc, job, tmp, fd, flushed, got, res>>
fs == <<link, data>>

\* tmp_fname("object"): the alphabet holds its terminating NUL, which ends the
\* name early, the same for every process.
TmpFile(s) == <<"object", s>>
TmpNames(p) == {TmpFile(s) : s \in {p} \cup ({"nul"} \cap Faults)}
TmpFiles == {TmpFile(s) : s \in Procs \cup {"nul"}}

\* oid::path below objects/coverage/.
ObjFile(x) == <<"coverage", x>>
Paths == {ObjFile(x) : x \in Ids} \cup TmpFiles

Parts == 1..2
Nothing == [k \in Parts |-> None]
Whole(c, id) == c # None /\ \A k \in Parts : c[k] = id
Truncated(c) == \E k \in Parts : c[k] = None

UsedInodes == ({link[f] : f \in Paths} \cup {fd[p] : p \in Procs}) \ {None}
FreeInode == CHOOSE i \in Inodes : i \notin UsedInodes

Init ==
    /\ link = [f \in Paths |-> None]
    /\ data = [i \in Inodes |-> Nothing]
    /\ begun = 0
    /\ stored = {}
    /\ pc = [p \in Procs |-> "idle"]
    /\ job = [p \in Procs |-> None]
    /\ tmp = [p \in Procs |-> None]
    /\ fd = [p \in Procs |-> None]
    /\ flushed = [p \in Procs |-> 0]
    /\ got = [p \in Procs |-> None]
    /\ res = [p \in Procs |-> "none"]

Goto(p, s) == pc' = [pc EXCEPT ![p] = s]

Return(p, r) ==
    /\ Goto(p, "idle")
    /\ job' = [job EXCEPT ![p] = None]
    /\ tmp' = [tmp EXCEPT ![p] = None]
    /\ fd' = [fd EXCEPT ![p] = None]
    /\ flushed' = [flushed EXCEPT ![p] = 0]
    /\ got' = [got EXCEPT ![p] = None]
    /\ res' = [res EXCEPT ![p] = r]

BeginOp(p, o) ==
    /\ pc[p] = "idle" /\ begun < MaxOps
    /\ begun' = begun + 1
    /\ job' = [job EXCEPT ![p] = o]
    /\ res' = [res EXCEPT ![p] = "none"]
    /\ Goto(p, CASE o.op = "write" -> "open" [] o.op = "read" -> "read"
                 [] o.op = "find" -> "find")
    /\ UNCHANGED <<fs, stored, tmp, fd, flushed, got>>

-----------------------------------------------------------------------------
(* loose_backend::write                                                    *)

\* The stream's constructor: fopen(tmp, "wb") creates or truncates.
OpenTmp(p) ==
    /\ pc[p] = "open" /\ UsedInodes # Inodes
    /\ \E t \in TmpNames(p) :
        LET i == IF link[t] # None THEN link[t] ELSE FreeInode
        IN  /\ tmp' = [tmp EXCEPT ![p] = t]
            /\ fd' = [fd EXCEPT ![p] = i]
            /\ link' = [link EXCEPT ![t] = i]
            /\ data' = [data EXCEPT ![i] = Nothing]
    /\ Goto(p, "store")
    /\ UNCHANGED <<begun, stored, job, flushed, got, res>>

OpenFails(p) ==
    /\ pc[p] = "open" /\ "open" \in Faults
    /\ Return(p, "error")
    /\ UNCHANGED <<fs, begun, stored>>

\* db_object::store: of what it appends some, or nothing, leaves the buffers
\* of zlib and stdio before the stream is closed.
StoreObject(p) ==
    /\ pc[p] = "store"
    /\ \E n \in 0..1 :
        /\ flushed' = [flushed EXCEPT ![p] = n]
        /\ data' = [data EXCEPT ![fd[p]] =
                        [k \in Parts |-> IF k <= n THEN job[p].id ELSE @[k]]]
    /\ Goto(p, "close")
    /\ UNCHANGED <<link, begun, stored, job, tmp, fd, got, res>>

\* A part that cannot be written is noticed here ...
StoreFails(p) ==
    /\ pc[p] = "store" /\ "full" \in Faults
    /\ Goto(p, "rollback")
    /\ UNCHANGED <<fs, begun, stored, job, tmp, fd, flushed, got, res>>

\* ... but not in finish(), which closes the stream: zstream::finish goes on
\* after a failed output, and nobody looks at what fclose returns.
CloseOut(p) ==
    /\ pc[p] = "close"
    /\ \/ data' = [data EXCEPT ![fd[p]] =
                       [k \in Parts |-> IF k > flushed[p] THEN job[p].id ELSE @[k]]]
       \/ "full" \in Faults /\ UNCHANGED data
    /\ fd' = [fd EXCEPT ![p] = None]
    /\ Goto(p, "rename")
    /\ UNCHANGED <<link, begun, stored, job, tmp, flushed, got, res>>

\* Mutant of Publish: the file may be published before it has been closed.
PublishEarly(p) ==
    /\ pc[p] \in {"close", "rename"} /\ link[tmp[p]] # None
    /\ link' = [link EXCEPT ![ObjFile(job[p].id)] = link[tmp[p]], ![tmp[p]] = None]
    /\ fd' = [fd EXCEPT ![p] = None]
    /\ Goto(p, "cleanup")
    /\ UNCHANGED <<data, begun, stored, job, tmp, flushed, got, res>>

\* The rename in finish(): over an earlier copy of the same object, if any.
Publish(p) ==
    /\ pc[p] = "rename" /\ link[tmp[p]] # None
    /\ link' = [link EXCEPT ![ObjFile(job[p].id)] = link[tmp[p]], ![tmp[p]] = None]
    /\ Goto(p, "cleanup")
    /\ UNCHANGED <<data, begun, stored, job, tmp, fd, flushed, got, res>>

\* rename() throws and nobody catches: the process is terminated.
PublishThrows(p) ==
    /\ pc[p] = "rename" /\ link[tmp[p]] = None
    /\ Return(p, "error")
    /\ UNCHANGED <<fs, begun, stored>>

\* Mutant of Cleanup: the destructor removes what was just published.
CleanupObject(p) ==
    /\ pc[p] = "cleanup"
    /\ link' = [link EXCEPT ![ObjFile(job[p].id)] = None]
    /\ stored' = stored \cup {job[p].id}
    /\ Return(p, "ok")
    /\ UNCHANGED <<data, begun>>

\* ~safe_z_stream removes whatever has the temporary name by now.
Cleanup(p) ==
    /\ pc[p] = "cleanup"
    /\ link' = [link EXCEPT ![tmp[p]] = None]
    /\ stored' = stored \cup {job[p].id}
    /\ Return(p, "ok")
    /\ UNCHANGED <<data, begun>>

Rollback(p) ==
    /\ pc[p] = "rollback"
    /\ link' = [link EXCEPT ![tmp[p]] = None]
    /\ Return(p, "error")
    /\ UNCHANGED <<data, begun, stored>>

-----------------------------------------------------------------------------
(* loose_backend::lookup_object                                            *)

Matches(id) == {x \in Ids : link[ObjFile(x)] # None /\ Group[x] = Group[id]}

\* Mutant of FindPartial: the first match is taken, whatever follows.
FindFirst(p) ==
    /\ pc[p] = "find"
    /\ IF Matches(job[p].id) # {}
       THEN /\ job' = [job EXCEPT ![p] =
                   [op |-> "read", id |-> CHOOSE x \in Matches(job[p].id) : TRUE]]
            /\ Goto(p, "read")
            /\ UNCHANGED <<tmp, fd, flushed, got, res>>
       ELSE Return(p, "absent")
    /\ UNCHANGED <<fs, begun, stored>>

\* The overload for an abbreviated id: the only file that starts like it.
FindPartial(p) ==
    /\ pc[p] = "find"
    /\ IF Cardinality(Matches(job[p].id)) = 1
       THEN /\ job' = [job EXCEPT ![p] =
                   [op |-> "read", id |-> CHOOSE x \in Matches(job[p].id) : TRUE]]
            /\ Goto(p, "read")
            /\ UNCHANGED <<tmp, fd, flushed, got, res>>
       ELSE Return(p, "absent")
    /\ UNCHANGED <<fs, begun, stored>>

\* load_zstream: the file's bytes, if there is one.
ReadFile(p) ==
    /\ pc[p] = "read"
    /\ LET i == link[ObjFile(job[p].id)]
       IN  got' = [got EXCEPT ![p] = IF i = None THEN None ELSE data[i]]
    /\ Goto(p, "inflate")
    /\ UNCHANGED <<fs, begun, stored, job, tmp, fd, flushed, res>>

\* Mutant of Spins: a stream that ends early takes another turn of the loop,
\* and so does a missing file.
SpinsOnMissing(c) == c # None => Truncated(c)

\* zstream::finish repeats until Z_STREAM_END, which a truncated stream never
\* reports.
Spins(c) == c # None /\ Truncated(c)

\* What inflate makes of the bytes: the object they were written for, or an
\* error at the checksum of a stream that two writers mixed; that one either
\* fails append() or keeps finish() busy.
Inflate(p) ==
    /\ pc[p] = "inflate" /\ ~ Spins(got[p])
    /\ \/ got[p] = None /\ Return(p, "absent")
       \/ \E x \in Ids : Whole(got[p], x) /\ Return(p, "found")
       \/ got[p] # None /\ (\A x \in Ids : ~ Whole(got[p], x)) /\ Return(p, "absent")
    /\ UNCHANGED <<fs, begun, stored>>

FinishSpins(p) ==
    /\ pc[p] = "inflate"
    /\ Spins(got[p]) \/ (got[p] # None /\ \A x \in Ids : ~ Whole(got[p], x))
    /\ Goto(p, "spin")
    /\ UNCHANGED <<fs, begun, stored, job, tmp, fd, flushed, got, res>>

Spin(p) == pc[p] = "spin" /\ UNCHANGED vars

\* The process is killed: its files stay as they are.
Crash(p) ==
    /\ pc[p] # "idle" /\ "crash" \in Faults
    /\ Return(p, "error")
    /\ UNCHANGED <<fs, begun, stored>>

Step(p) ==
    \/ OpenTmp(p) \/ OpenFails(p) \/ StoreObject(p) \/ StoreFails(p)
    \/ CloseOut(p) \/ Publish(p) \/ PublishThrows(p) \/ Cleanup(p) \/ Rollback(p)
    \/ FindPartial(p) \/ ReadFile(p) \/ Inflate(p) \/ FinishSpins(p) \/ Spin(p)

Finished == begun = MaxOps /\ (\A p \in Procs : pc[p] = "idle") /\ UNCHANGED vars

Next ==
    \/ \E p \in Procs : (\E o \in Ops : BeginOp(p, o)) \/ Step(p) \/ Crash(p)
    \/ Finished

Spec == Init /\ [][Next]_vars
FairSpec == Spec /\ \A p \in Procs : WF_vars(Step(p))
-----------------------------------------------------------------------------
(* Properties.                                                             *)

\* Files and descriptors in use: whoever fills a temporary file has it open.
TypeOK ==
    /\ link \in [Paths -> Inodes \cup {None}]
    /\ data \in [Inodes -> [Parts -> Ids \cup {None}]]
    /\ \A p \in Procs : (fd[p] # None) <=> (pc[p] \in {"store", "close", "rollback"})
    /\ \A p \in Procs : (job[p] # None) <=> (pc[p] # "idle")

Readable(x) == link[ObjFile(x)] # None /\ Whole(data[link[ObjFile(x)]], x)

\* The file named by an object's hash holds that object, all of it, at every
\* moment: finish() renames only what has been closed.
NamedByContent == \A x \in Ids : link[ObjFile(x)] # None => Readable(x)

\* An object for which write() returned true can be read from then on, in any
\* process, whatever happens to the others.
StoredIsReadable == \A x \in stored : Readable(x)

\* A published object is never taken away again, not even by the destructor
\* of a stream whose temporary name was somebody else's too.
ObjectsNeverVanish == [][\A x \in Ids : link[ObjFile(x)] # None => link'[ObjFile(x)] # None]_vars

\* Every lookup and every write returns (unless its process is killed): also
\* a lookup of a file that is no complete stream.
LookupReturns == \A p \in Procs : pc[p] # "idle" ~> pc[p] = "idle"

\* The database implements ContentStore: objects appear at once and for good,
\* a lookup finds what is there, an ambiguous prefix finds nothing.
Answer(p) ==
    CASE pc[p] = "cleanup" -> "ok"
      [] pc[p] \in {"inflate", "spin"} /\ got[p] = None -> "absent"
      [] pc[p] \in {"inflate", "spin"} /\ got[p] # None -> "found"
      [] OTHER -> "open"
Abstract == INSTANCE ContentStore WITH
    objs <- {x \in Ids : Readable(x)},
    ans <- [p \in Procs |-> Answer(p)]
RefinesContentStore == Abstract!CSpec
=============================================================================

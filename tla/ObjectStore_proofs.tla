------------------------- MODULE ObjectStore_proofs -------------------------
(***************************************************************************)
(* What ObjectStore guarantees for every number of processes, objects and  *)
(* operations, however these interleave, fail to open their files or are   *)
(* killed.                                                                 *)
(***************************************************************************)
EXTENDS ObjectStore, FiniteSetTheorems, TLAPS

(***************************************************************************)
(* The shape of the state, under every fault: the values of the variables, *)
(* and which of a process's locals its program counter promises.           *)
(***************************************************************************)
Contents == [Parts -> Ids \cup {None}]
HasOpen == {"store", "close", "rollback"}
HasTmp == HasOpen \cup {"rename", "cleanup"}
Reading == {"read", "inflate", "spin"}
Steps == {"idle", "open", "find"} \cup HasTmp \cup Reading

Values ==
    /\ link \in [Paths -> Inodes \cup {None}]
    /\ data \in [Inodes -> Contents]
    /\ stored \subseteq Ids
    /\ pc \in [Procs -> Steps]
    /\ job \in [Procs -> OpType \cup {None}]
    /\ tmp \in [Procs -> TmpFiles \cup {None}]
    /\ fd \in [Procs -> Inodes \cup {None}]
    /\ flushed \in [Procs -> 0..1]
    /\ got \in [Procs -> Contents \cup {None}]
    /\ res \in [Procs -> {"none", "ok", "error", "absent", "found"}]

Locals ==
    \A p \in Procs :
        /\ (fd[p] # None) <=> (pc[p] \in HasOpen)
        /\ (job[p] # None) <=> (pc[p] # "idle")
        /\ pc[p] \in HasTmp => tmp[p] \in TmpFiles
        /\ pc[p] \in HasTmp \cup {"open"} => job[p].op = "write"
        /\ pc[p] = "find" => job[p].op = "find"
        /\ pc[p] \in Reading => job[p].op = "read"

Shape == Values /\ Locals

(* A free inode is one that no name and no descriptor stands for.           *)
LEMMA FreeInodeIsFree ==
  ASSUME Shape, UsedInodes # Inodes
  PROVE  /\ FreeInode \in Inodes
         /\ \A f \in Paths : link[f] # FreeInode
         /\ \A p \in Procs : fd[p] # FreeInode
<1>1. UsedInodes \subseteq Inodes
  BY DEF Shape, Values, UsedInodes
<1>2. \E i \in Inodes : i \notin UsedInodes
  BY <1>1
<1>3. FreeInode \in Inodes /\ FreeInode \notin UsedInodes
  BY <1>2 DEF FreeInode
<1> QED
  BY <1>3, StoreNoneAssumption DEF UsedInodes

(* Temporary files are paths, and none of them is an object's file.         *)
LEMMA PathFacts ==
  /\ TmpFiles \subseteq Paths
  /\ \A x \in Ids : ObjFile(x) \in Paths /\ ObjFile(x) \notin TmpFiles
  /\ \A x, y \in Ids : ObjFile(x) = ObjFile(y) => x = y
  /\ \A p \in Procs : TmpNames(p) \subseteq TmpFiles
  BY DEF Paths, TmpFiles, TmpFile, ObjFile, TmpNames

LEMMA OneIsNotEmpty ==
  ASSUME NEW S, Cardinality(S) = 1
  PROVE  S # {}
<1> SUFFICES ASSUME S = {} PROVE FALSE
  OBVIOUS
<1>1. Cardinality({}) = 0
  BY FS_EmptySet
<1>2. Cardinality(S) = Cardinality({})
  OBVIOUS
<1> QED
  BY <1>1, <1>2

LEMMA ShapeInit == Init => Shape
  BY StoreNoneAssumption
     DEF Init, Shape, Values, Locals, Contents, Nothing, Steps, HasOpen, HasTmp, Reading

(* Every step keeps the shape.                                              *)
LEMMA ShapeNext == Shape /\ [Next]_vars => Shape'
<1> SUFFICES ASSUME Shape, [Next]_vars PROVE Shape'
  OBVIOUS
<1> USE StoreNoneAssumption DEF Shape, Values, Locals, Steps, HasOpen, HasTmp, Reading, Goto, fs
<1>0. ASSUME NEW p \in Procs, NEW r \in {"none", "ok", "error", "absent", "found"},
             pc[p] # "idle", Return(p, r), stored' \subseteq Ids,
             link' \in [Paths -> Inodes \cup {None}], data' = data
      PROVE  Shape'
  BY <1>0 DEF Return
<1>1. CASE UNCHANGED vars
  BY <1>1 DEF vars
<1>2. ASSUME NEW p \in Procs, NEW o \in Ops, BeginOp(p, o) PROVE Shape'
  BY <1>2, StoreOpsAssumption DEF BeginOp, OpType
<1>3. ASSUME NEW p \in Procs, OpenTmp(p) PROVE Shape'
  <2> DEFINE Inode(t) == IF link[t] # None THEN link[t] ELSE FreeInode
  <2>1. PICK t \in TmpNames(p) :
          /\ tmp' = [tmp EXCEPT ![p] = t] /\ fd' = [fd EXCEPT ![p] = Inode(t)]
          /\ link' = [link EXCEPT ![t] = Inode(t)] /\ data' = [data EXCEPT ![Inode(t)] = Nothing]
    BY <1>3 DEF OpenTmp
  <2> DEFINE i == Inode(t)
  <2>2. t \in TmpFiles /\ t \in Paths /\ i \in Inodes
    BY <1>3, <2>1, PathFacts, FreeInodeIsFree DEF OpenTmp
  <2>3. Nothing \in Contents
    BY DEF Nothing, Contents
  <2> HIDE DEF Inode
  <2> QED
    BY <1>3, <2>1, <2>2, <2>3 DEF OpenTmp
<1>4. ASSUME NEW p \in Procs, OpenFails(p) PROVE Shape'
  BY <1>0, <1>4 DEF OpenFails
<1>5. ASSUME NEW p \in Procs, StoreObject(p) PROVE Shape'
  <2>1. PICK n \in 0..1 :
          /\ flushed' = [flushed EXCEPT ![p] = n]
          /\ data' = [data EXCEPT ![fd[p]] =
                        [k \in Parts |-> IF k <= n THEN job[p].id ELSE @[k]]]
    BY <1>5 DEF StoreObject
  <2>2. fd[p] \in Inodes /\ job[p].id \in Ids
    BY <1>5 DEF StoreObject, OpType
  <2>3. data' \in [Inodes -> Contents]
    BY <2>1, <2>2 DEF Contents
  <2> QED
    BY <1>5, <2>1, <2>3 DEF StoreObject
<1>6. ASSUME NEW p \in Procs, StoreFails(p) PROVE Shape'
  BY <1>6 DEF StoreFails
<1>7. ASSUME NEW p \in Procs, CloseOut(p) PROVE Shape'
  <2>1. fd[p] \in Inodes /\ job[p].id \in Ids
    BY <1>7 DEF CloseOut, OpType
  <2>2. data' \in [Inodes -> Contents]
    <3>1. CASE data' = [data EXCEPT ![fd[p]] =
                          [k \in Parts |-> IF k > flushed[p] THEN job[p].id ELSE @[k]]]
      BY <2>1, <3>1 DEF Contents
    <3> QED
      BY <1>7, <3>1 DEF CloseOut
  <2> QED
    BY <1>7, <2>2 DEF CloseOut
<1>8. ASSUME NEW p \in Procs, Publish(p) PROVE Shape'
  <2>1. job[p].id \in Ids
    BY <1>8 DEF Publish, OpType
  <2>2. link' \in [Paths -> Inodes \cup {None}]
    BY <1>8, <2>1, PathFacts DEF Publish
  <2> QED
    BY <1>8, <2>2 DEF Publish
<1>9. ASSUME NEW p \in Procs, PublishThrows(p) PROVE Shape'
  BY <1>0, <1>9 DEF PublishThrows
<1>10. ASSUME NEW p \in Procs, Cleanup(p) PROVE Shape'
  <2>1. job[p].id \in Ids
    BY <1>10 DEF Cleanup, OpType
  <2>2. link' \in [Paths -> Inodes \cup {None}] /\ stored' \subseteq Ids
    BY <1>10, <2>1 DEF Cleanup
  <2> QED
    BY <1>0, <1>10, <2>2 DEF Cleanup
<1>11. ASSUME NEW p \in Procs, Rollback(p) PROVE Shape'
  <2>1. link' \in [Paths -> Inodes \cup {None}]
    BY <1>11 DEF Rollback
  <2> QED
    BY <1>0, <1>11, <2>1 DEF Rollback
<1>12. ASSUME NEW p \in Procs, FindPartial(p) PROVE Shape'
  <2>1. CASE Cardinality(Matches(job[p].id)) = 1
    <3>1. Matches(job[p].id) # {}
      BY <2>1, OneIsNotEmpty
    <3> DEFINE o == [op |-> "read", id |-> CHOOSE x \in Matches(job[p].id) : TRUE]
    <3>2. (CHOOSE x \in Matches(job[p].id) : TRUE) \in Ids
      BY <3>1 DEF Matches
    <3>3. o \in OpType /\ o.op = "read"
      BY <3>2 DEF OpType
    <3>4. /\ job' = [job EXCEPT ![p] = o] /\ pc' = [pc EXCEPT ![p] = "read"] /\ pc[p] = "find"
          /\ UNCHANGED <<link, data, begun, stored, tmp, fd, flushed, got, res>>
      BY <1>12, <2>1 DEF FindPartial
    <3> HIDE DEF o
    <3> QED
      BY <3>3, <3>4
  <2>2. CASE Cardinality(Matches(job[p].id)) # 1
    BY <1>0, <1>12, <2>2 DEF FindPartial
  <2> QED
    BY <2>1, <2>2
<1>13. ASSUME NEW p \in Procs, ReadFile(p) PROVE Shape'
  <2>1. job[p].id \in Ids
    BY <1>13 DEF ReadFile, OpType
  <2>2. got' \in [Procs -> Contents \cup {None}]
    BY <1>13, <2>1, PathFacts DEF ReadFile
  <2> QED
    BY <1>13, <2>2 DEF ReadFile
<1>14. ASSUME NEW p \in Procs, Inflate(p) PROVE Shape'
  BY <1>0, <1>14 DEF Inflate
<1>15. ASSUME NEW p \in Procs, FinishSpins(p) PROVE Shape'
  BY <1>15 DEF FinishSpins
<1>16. ASSUME NEW p \in Procs, Crash(p) PROVE Shape'
  BY <1>0, <1>16 DEF Crash
<1> QED
  BY <1>1, <1>2, <1>3, <1>4, <1>5, <1>6, <1>7, <1>8, <1>9, <1>10, <1>11, <1>12,
     <1>13, <1>14, <1>15, <1>16
     DEF Next, Step, Spin, Finished

(* TypeOK: whoever fills a temporary file has it open, and nobody else.     *)
THEOREM TypeCorrect == Spec => []TypeOK
<1>1. Shape => TypeOK
  BY DEF Shape, Values, Locals, TypeOK, Contents, HasOpen
<1> QED
  BY <1>1, ShapeInit, ShapeNext, PTL DEF Spec

(* Opening a temporary changes one link, that of a temporary's name.       *)
LEMMA OpensTmp ==
  ASSUME NEW p, OpenTmp(p)
  PROVE  \E t \in TmpNames(p) : \E i : link' = [link EXCEPT ![t] = i]
<1>1. PICK t \in TmpNames(p) :
        link' = [link EXCEPT ![t] = IF link[t] # None THEN link[t] ELSE FreeInode]
  BY Zenon DEF OpenTmp
<1> QED
  BY <1>1, Zenon

(***************************************************************************)
(* loose_backend never takes an object away: under every fault, two        *)
(* processes with the same temporary name and a full disk included, the    *)
(* only names that lose their file are temporary ones.                     *)
(***************************************************************************)
LEMMA NoObjectVanishes ==
  ASSUME Shape, [Next]_vars, NEW x \in Ids, link[ObjFile(x)] # None
  PROVE  link'[ObjFile(x)] # None
<1> USE StoreNoneAssumption DEF Shape, Values, Locals, HasTmp, HasOpen
<1>0. ObjFile(x) \in Paths /\ ObjFile(x) \notin TmpFiles
  BY PathFacts
<1>1. CASE UNCHANGED link
  BY <1>1
<1>2. ASSUME NEW p \in Procs, OpenTmp(p) PROVE link'[ObjFile(x)] # None
  <2>1. PICK t \in TmpNames(p) : \E i : link' = [link EXCEPT ![t] = i]
    BY <1>2, OpensTmp, Zenon
  <2> QED
    BY <1>0, <2>1, PathFacts
<1>3. ASSUME NEW p \in Procs, Publish(p) PROVE link'[ObjFile(x)] # None
  <2>1. tmp[p] \in TmpFiles /\ job[p].id \in Ids
    BY <1>3 DEF Publish, OpType
  <2> QED
    BY <1>0, <1>3, <2>1, PathFacts DEF Publish
<1>4. ASSUME NEW p \in Procs, Cleanup(p) \/ Rollback(p) PROVE link'[ObjFile(x)] # None
  <2>1. tmp[p] \in TmpFiles
    BY <1>4 DEF Cleanup, Rollback
  <2> QED
    BY <1>0, <1>4, <2>1 DEF Cleanup, Rollback
<1> QED
  BY <1>1, <1>2, <1>3, <1>4
     DEF Next, Step, vars, fs, BeginOp, OpenFails, StoreObject, StoreFails, CloseOut,
         PublishThrows, FindPartial, ReadFile, Inflate, FinishSpins, Spin, Crash, Finished

THEOREM PublishedForGood == Spec => ObjectsNeverVanish
<1>1. Shape /\ [Next]_vars
        => [\A x \in Ids : link[ObjFile(x)] # None => link'[ObjFile(x)] # None]_vars
  BY NoObjectVanishes
<1> QED
  BY <1>1, ShapeInit, ShapeNext, PTL DEF Spec, ObjectsNeverVanish

(***************************************************************************)
(* NamedByContent and StoredIsReadable hold while no disk is full and no   *)
(* temporary name is cut short.  They are not inductive: a file that is    *)
(* renamed must be complete, no other name may stand for the same file,    *)
(* and nobody else may have it open.                                       *)
(***************************************************************************)
Reliable == {"full", "nul"} \cap Faults = {}

OneName == \A f, g \in Paths : link[f] # None /\ link[f] = link[g] => f = g

(* The temporary file of p has its own name, is the one p has open, and      *)
(* holds what p has written so far; once renamed, the object is readable.    *)
Tidy(p) ==
    /\ pc[p] \in HasTmp => tmp[p] = TmpFile(p)
    /\ pc[p] \in HasOpen => link[TmpFile(p)] = fd[p]
    /\ pc[p] = "rename" => link[TmpFile(p)] # None
    /\ pc[p] = "close" => \A k \in Parts : k <= flushed[p] => data[fd[p]][k] = job[p].id
    /\ pc[p] = "rename" => Whole(data[link[TmpFile(p)]], job[p].id)
    /\ pc[p] = "cleanup" => Readable(job[p].id)

(* What p has read from an object's file is that object, all of it.          *)
Heard(p) ==
    /\ pc[p] = "inflate" /\ got[p] # None => Whole(got[p], job[p].id)
    /\ pc[p] # "spin"

StoreInv ==
    /\ OneName /\ NamedByContent /\ StoredIsReadable
    /\ \A p \in Procs : Tidy(p) /\ Heard(p)

LEMMA StoreInit == Init => StoreInv
  BY PathFacts
     DEF Init, StoreInv, OneName, Tidy, Heard, NamedByContent, StoredIsReadable,
         HasTmp, HasOpen

(* An object whose name and whose file stay as they are stays readable.     *)
LEMMA SameObjects ==
  ASSUME \A x \in Ids : /\ link'[ObjFile(x)] = link[ObjFile(x)]
                        /\ link[ObjFile(x)] # None =>
                              data'[link[ObjFile(x)]] = data[link[ObjFile(x)]]
  PROVE  /\ \A x \in Ids : Readable(x)' <=> Readable(x)
         /\ NamedByContent => NamedByContent'
         /\ stored \subseteq Ids /\ stored' = stored /\ StoredIsReadable => StoredIsReadable'
<1>1. \A x \in Ids : Readable(x)' <=> Readable(x)
  BY DEF Readable
<1> QED
  BY <1>1 DEF NamedByContent, StoredIsReadable

(* The locals of q and what its temporary name stands for stay as they are. *)
Untouched(q) ==
    /\ pc'[q] = pc[q] /\ job'[q] = job[q] /\ tmp'[q] = tmp[q]
    /\ fd'[q] = fd[q] /\ flushed'[q] = flushed[q] /\ got'[q] = got[q]
    /\ link'[TmpFile(q)] = link[TmpFile(q)]
    /\ link[TmpFile(q)] # None => data'[link[TmpFile(q)]] = data[link[TmpFile(q)]]

LEMMA UntouchedStays ==
  ASSUME Shape, StoreInv, NEW q \in Procs, Untouched(q),
         \A x \in Ids : Readable(x) => Readable(x)'
  PROVE  Tidy(q)' /\ Heard(q)'
<1>1. Tidy(q) /\ Heard(q)
  BY DEF StoreInv
<1>2. Heard(q)'
  BY <1>1 DEF Heard, Untouched, Whole
<1>3. pc[q] \in HasOpen => fd[q] # None
  BY DEF Shape, Locals
<1>4. pc'[q] = "close" =>
         \A k \in Parts : k <= flushed'[q] => data'[fd'[q]][k] = job'[q].id
  BY <1>1, <1>3 DEF Tidy, Untouched, HasOpen
<1>5. pc'[q] = "rename" => Whole(data[link[TmpFile(q)]], job[q].id)'
  BY <1>1 DEF Tidy, Untouched, Whole
<1>6. ASSUME pc'[q] = "cleanup" PROVE Readable(job[q].id)'
  <2>1. job[q].id \in Ids /\ Readable(job[q].id) /\ job'[q] = job[q]
    BY <1>1, <1>6 DEF Tidy, Untouched, Shape, Values, Locals, OpType, HasTmp, HasOpen
  <2> QED
    BY <2>1 DEF Readable
<1> QED
  BY <1>1, <1>2, <1>4, <1>5, <1>6 DEF Tidy, Untouched

(* A step of p that leaves every object's file and the other processes alone *)
(* owes the invariant only what it says of p.                                *)
LEMMA OwnStep ==
  ASSUME Shape, StoreInv, NEW p \in Procs,
         \A q \in Procs \ {p} : Untouched(q),
         \A x \in Ids : /\ link'[ObjFile(x)] = link[ObjFile(x)]
                        /\ link[ObjFile(x)] # None =>
                              data'[link[ObjFile(x)]] = data[link[ObjFile(x)]]
  PROVE  /\ \A x \in Ids : Readable(x)' <=> Readable(x)
         /\ OneName' /\ Tidy(p)' /\ Heard(p)' /\ (stored' = stored \/ StoredIsReadable')
              => StoreInv'
<1>1. /\ \A x \in Ids : Readable(x)' <=> Readable(x)
      /\ NamedByContent' /\ (stored' = stored => StoredIsReadable')
  BY SameObjects DEF Shape, Values, StoreInv
<1>2. \A q \in Procs \ {p} : Tidy(q)' /\ Heard(q)'
  BY <1>1, UntouchedStays
<1> QED
  BY <1>1, <1>2 DEF StoreInv

(* Every step keeps the objects whole.                                      *)
LEMMA StoreNext ==
  ASSUME Reliable, Shape, StoreInv, [Next]_vars
  PROVE  StoreInv'
<1> USE StoreNoneAssumption DEF Goto, fs
<1>0. /\ \A p \in Procs : TmpNames(p) = {TmpFile(p)} /\ TmpFile(p) \in Paths
      /\ \A p, q \in Procs : TmpFile(p) = TmpFile(q) => p = q
      /\ \A x \in Ids, p \in Procs : ObjFile(x) # TmpFile(p)
      /\ \A x, y \in Ids : ObjFile(x) = ObjFile(y) => x = y
      /\ \A x \in Ids : ObjFile(x) \in Paths
  BY DEF Reliable, TmpNames, TmpFile, TmpFiles, ObjFile, Paths
<1>1. CASE UNCHANGED vars
  BY <1>1 DEF vars, StoreInv, OneName, Tidy, Heard, NamedByContent,
              StoredIsReadable, Readable, Whole
(* No file changes, and p is not about to rename one. *)
<1>2. ASSUME NEW p \in Procs, UNCHANGED <<link, data, stored>>,
             \A q \in Procs \ {p} :
                /\ pc'[q] = pc[q] /\ job'[q] = job[q] /\ tmp'[q] = tmp[q]
                /\ fd'[q] = fd[q] /\ flushed'[q] = flushed[q] /\ got'[q] = got[q],
             pc'[p] \notin HasTmp, Heard(p)'
      PROVE  StoreInv'
  <2>1. OneName' /\ Tidy(p)'
    BY <1>2 DEF StoreInv, OneName, Tidy, HasTmp, HasOpen
  <2> QED
    BY <1>2, <2>1, OwnStep DEF Untouched
<1>3. ASSUME NEW p \in Procs, NEW o \in Ops, BeginOp(p, o) PROVE StoreInv'
  <2>1. pc'[p] \in {"open", "read", "find"}
    BY <1>3, StoreOpsAssumption DEF BeginOp, OpType, Shape, Values
  <2>2. pc'[p] \notin HasTmp /\ Heard(p)'
    BY <2>1 DEF HasTmp, HasOpen, Heard
  <2> QED
    BY <1>2, <1>3, <2>2 DEF BeginOp, Shape, Values
<1>4. ASSUME NEW p \in Procs, NEW r, Return(p, r), UNCHANGED <<link, data, stored>>
      PROVE  StoreInv'
  <2>1. pc'[p] = "idle"
    BY <1>4 DEF Return, Shape, Values
  <2>2. pc'[p] \notin HasTmp /\ Heard(p)'
    BY <2>1 DEF HasTmp, HasOpen, Heard
  <2> QED
    BY <1>2, <1>4, <2>2 DEF Return
<1>5. ASSUME NEW p \in Procs, OpenTmp(p) PROVE StoreInv'
  <2> DEFINE t == TmpFile(p)
             i == IF link[t] # None THEN link[t] ELSE FreeInode
  <2>1. /\ pc[p] = "open" /\ UsedInodes # Inodes /\ pc' = [pc EXCEPT ![p] = "store"]
        /\ tmp' = [tmp EXCEPT ![p] = t] /\ fd' = [fd EXCEPT ![p] = i]
        /\ link' = [link EXCEPT ![t] = i] /\ data' = [data EXCEPT ![i] = Nothing]
        /\ UNCHANGED <<stored, job, flushed, got>>
    <3> DEFINE Inode(f) == IF link[f] # None THEN link[f] ELSE FreeInode
    <3>1. PICK f \in TmpNames(p) :
            /\ tmp' = [tmp EXCEPT ![p] = f] /\ fd' = [fd EXCEPT ![p] = Inode(f)]
            /\ link' = [link EXCEPT ![f] = Inode(f)] /\ data' = [data EXCEPT ![Inode(f)] = Nothing]
      BY <1>5 DEF OpenTmp
    <3>2. f = t
      BY <1>0
    <3> QED
      BY <1>5, <3>1, <3>2 DEF OpenTmp
  <2>2. i \in Inodes /\ \A f \in Paths \ {t} : link[f] # i
    BY <1>0, <2>1, FreeInodeIsFree DEF Shape, Values, StoreInv, OneName
  <2> HIDE DEF i
  <2>3. \A f \in Paths \ {t} :
           link'[f] = link[f] /\ (link[f] # None => data'[link[f]] = data[link[f]])
    BY <2>1, <2>2 DEF Shape, Values
  <2>4. pc'[p] = "store" /\ tmp'[p] = t /\ fd'[p] = i /\ link'[t] = i
    BY <1>0, <2>1 DEF Shape, Values
  <2>5. Tidy(p)' /\ Heard(p)'
    BY <2>4 DEF Tidy, Heard
  <2>6. OneName'
    BY <2>2, <2>3, <2>4 DEF StoreInv, OneName
  <2>7. \A q \in Procs \ {p} : TmpFile(q) \in Paths \ {t}
    BY <1>0
  <2>8. \A x \in Ids : ObjFile(x) \in Paths \ {t}
    BY <1>0
  <2> HIDE DEF t
  <2>9. \A q \in Procs \ {p} : Untouched(q)
    BY <2>1, <2>3, <2>7 DEF Untouched
  <2> QED
    BY <2>1, <2>3, <2>5, <2>6, <2>8, <2>9, OwnStep
(* Writing to one's own open file: no object's and nobody else's. *)
<1>6. ASSUME NEW p \in Procs, pc[p] \in HasOpen, NEW c,
             data' = [data EXCEPT ![fd[p]] = c], UNCHANGED <<link, stored>>,
             \A q \in Procs \ {p} :
                /\ pc'[q] = pc[q] /\ job'[q] = job[q] /\ tmp'[q] = tmp[q]
                /\ fd'[q] = fd[q] /\ flushed'[q] = flushed[q] /\ got'[q] = got[q],
             Tidy(p)', Heard(p)'
      PROVE  StoreInv'
  <2>1. fd[p] \in Inodes /\ link[TmpFile(p)] = fd[p]
    BY <1>6 DEF Shape, Values, Locals, StoreInv, Tidy
  <2>2. \A f \in Paths \ {TmpFile(p)} : link[f] # fd[p]
    BY <1>0, <2>1 DEF StoreInv, OneName
  <2>3. \A f \in Paths \ {TmpFile(p)} :
           link'[f] = link[f] /\ (link[f] # None => data'[link[f]] = data[link[f]])
    BY <1>6, <2>1, <2>2 DEF Shape, Values
  <2>4. \A q \in Procs \ {p} : Untouched(q)
    BY <1>0, <1>6, <2>3 DEF Untouched
  <2>5. OneName'
    BY <1>6 DEF StoreInv, OneName
  <2> QED
    BY <1>0, <1>6, <2>3, <2>4, <2>5, OwnStep
<1>7. ASSUME NEW p \in Procs, StoreObject(p) PROVE StoreInv'
  <2>1. PICK n \in 0..1 :
          /\ flushed' = [flushed EXCEPT ![p] = n]
          /\ data' = [data EXCEPT ![fd[p]] =
                        [k \in Parts |-> IF k <= n THEN job[p].id ELSE @[k]]]
    BY <1>7 DEF StoreObject
  <2>2. /\ pc[p] = "store" /\ pc' = [pc EXCEPT ![p] = "close"]
        /\ UNCHANGED <<link, stored, job, tmp, fd, got>>
    BY <1>7 DEF StoreObject
  <2>3. /\ pc[p] \in HasOpen /\ pc[p] \in HasTmp /\ pc'[p] = "close" /\ flushed'[p] = n
        /\ fd[p] \in Inodes
    BY <2>1, <2>2 DEF Shape, Values, Locals, HasOpen, HasTmp
  <2>4. \A k \in Parts : k <= n => data'[fd[p]][k] = job[p].id
    BY <2>1, <2>3 DEF Shape, Values
  <2>5. Tidy(p)' /\ Heard(p)'
    BY <2>2, <2>3, <2>4 DEF StoreInv, Tidy, Heard, HasTmp
  <2> QED
    BY <1>6, <2>1, <2>2, <2>3, <2>5
<1>8. ASSUME NEW p \in Procs, CloseOut(p) PROVE StoreInv'
  <2>1. /\ pc[p] = "close" /\ pc' = [pc EXCEPT ![p] = "rename"]
        /\ data' = [data EXCEPT ![fd[p]] =
                       [k \in Parts |-> IF k > flushed[p] THEN job[p].id ELSE @[k]]]
        /\ fd' = [fd EXCEPT ![p] = None]
        /\ UNCHANGED <<link, stored, job, tmp, flushed, got>>
    BY <1>8 DEF CloseOut, Reliable
  <2>2. /\ pc[p] \in HasOpen /\ pc[p] \in HasTmp /\ pc'[p] = "rename" /\ fd[p] \in Inodes
        /\ flushed[p] \in 0..1 /\ link[TmpFile(p)] = fd[p] /\ tmp[p] = TmpFile(p)
    BY <2>1 DEF Shape, Values, Locals, HasOpen, HasTmp, StoreInv, Tidy
  <2>3. \A k \in Parts : k <= flushed[p] => data[fd[p]][k] = job[p].id
    BY <2>1 DEF StoreInv, Tidy
  <2>4. \A k \in Parts : data'[fd[p]][k] = job[p].id
    BY <2>1, <2>2, <2>3 DEF Shape, Values, Parts
  <2>5. data'[fd[p]] # None
    <3>1. Shape'
      BY <1>8, ShapeNext DEF Next, Step
    <3> QED
      BY <2>2, <3>1 DEF Shape, Values, Contents, Parts
  <2>6. Tidy(p)' /\ Heard(p)'
    BY <2>1, <2>2, <2>4, <2>5 DEF Tidy, Heard, HasOpen, Whole
  <2> QED
    BY <1>6, <2>1, <2>2, <2>6
<1>9. ASSUME NEW p \in Procs, Publish(p) PROVE StoreInv'
  <2>0. PICK x : x = job[p].id
    OBVIOUS
  <2> DEFINE t == TmpFile(p)
             o == ObjFile(x)
  <2>1. /\ pc[p] = "rename" /\ pc' = [pc EXCEPT ![p] = "cleanup"]
        /\ tmp[p] = t /\ link[t] # None /\ x \in Ids /\ Whole(data[link[t]], x)
        /\ link' = [link EXCEPT ![o] = link[t], ![t] = None]
        /\ UNCHANGED <<data, stored, job, tmp, fd, flushed, got>>
    <3>1. pc[p] = "rename" /\ pc[p] \in HasTmp
      BY <1>9 DEF Publish, HasTmp
    <3>2. x \in Ids
      BY <2>0, <3>1 DEF Shape, Values, Locals, OpType
    <3>3. tmp[p] = t /\ Whole(data[link[t]], x)
      BY <2>0, <3>1 DEF StoreInv, Tidy
    <3> QED
      BY <1>9, <2>0, <3>1, <3>2, <3>3 DEF Publish
  <2>2. /\ o \in Paths /\ t \in Paths /\ o # t
        /\ \A q \in Procs \ {p} : TmpFile(q) \in Paths \ {t, o}
        /\ \A y \in Ids \ {x} : ObjFile(y) \in Paths \ {t, o}
    BY <1>0, <2>1
  <2> HIDE DEF t, o
  <2>3. link'[o] = link[t] /\ link'[t] = None /\ \A f \in Paths \ {t, o} : link'[f] = link[f]
    BY <2>1, <2>2 DEF Shape, Values
  <2>4. OneName'
    BY <2>2, <2>3 DEF StoreInv, OneName
  <2>5. Readable(x)'
    <3>1. link'[ObjFile(x)] # None /\ Whole(data'[link'[ObjFile(x)]], x)
      BY <2>1, <2>3 DEF o
    <3> QED
      BY <3>1 DEF Readable, Whole
  <2>6. \A y \in Ids \ {x} : Readable(y)' <=> Readable(y)
    BY <2>1, <2>2, <2>3 DEF Readable
  <2>7. \A y \in Ids : Readable(y) => Readable(y)'
    BY <2>5, <2>6 DEF Readable
  <2>8. NamedByContent'
    <3> SUFFICES ASSUME NEW y \in Ids, link'[ObjFile(y)] # None PROVE Readable(y)'
      BY DEF NamedByContent
    <3>1. CASE y = x
      BY <2>5, <3>1 DEF Readable
    <3>2. CASE y # x
      BY <2>2, <2>3, <2>6, <3>2 DEF StoreInv, NamedByContent
    <3> QED
      BY <3>1, <3>2
  <2>9. StoredIsReadable'
    BY <2>1, <2>7 DEF StoreInv, StoredIsReadable, Shape, Values
  <2>10. \A q \in Procs \ {p} : Untouched(q)
    BY <2>1, <2>2, <2>3 DEF Untouched, Shape, Values
  <2>11. Tidy(p)' /\ Heard(p)'
    <3>1. pc'[p] = "cleanup"
      BY <2>1 DEF Shape, Values
    <3> QED
      BY <2>0, <2>1, <2>5, <3>1 DEF Tidy, Heard, HasTmp, HasOpen, Readable, t
  <2> QED
    BY <2>4, <2>7, <2>8, <2>9, <2>10, <2>11, UntouchedStays DEF StoreInv
(* Whatever has the temporary name of p by now loses it. *)
<1>10. ASSUME NEW p \in Procs, pc[p] \in HasTmp, NEW r, Return(p, r),
              link' = [link EXCEPT ![tmp[p]] = None], data' = data,
              stored' # stored => pc[p] = "cleanup" /\ stored' = stored \cup {job[p].id}
       PROVE  StoreInv'
  <2>1. tmp[p] = TmpFile(p) /\ pc'[p] = "idle"
    BY <1>10 DEF StoreInv, Tidy, Return, Shape, Values
  <2>2. \A f \in Paths \ {TmpFile(p)} : link'[f] = link[f]
    BY <1>10, <2>1 DEF Shape, Values
  <2>3. link'[TmpFile(p)] = None
    BY <1>0, <1>10, <2>1 DEF Shape, Values
  <2>4. OneName'
    BY <2>2, <2>3 DEF StoreInv, OneName
  <2>5. \A q \in Procs \ {p} : Untouched(q)
    BY <1>0, <1>10, <2>2 DEF Untouched, Return
  <2>6. \A y \in Ids : link'[ObjFile(y)] = link[ObjFile(y)]
    BY <1>0, <2>2
  <2>7. Tidy(p)' /\ Heard(p)'
    BY <2>1 DEF Tidy, Heard, HasTmp, HasOpen
  <2>8. \A y \in Ids : Readable(y)' <=> Readable(y)
    BY <1>10, <2>5, <2>6, OwnStep
  <2>9. stored' = stored \/ StoredIsReadable'
    <3>1. ASSUME pc[p] = "cleanup", stored' = stored \cup {job[p].id} PROVE StoredIsReadable'
      <4>1. job[p].id \in Ids /\ Readable(job[p].id)
        BY <3>1 DEF StoreInv, Tidy, Shape, Values, Locals, OpType
      <4> QED
        BY <2>8, <3>1, <4>1 DEF StoreInv, StoredIsReadable, Shape, Values
    <3> QED
      BY <1>10, <3>1
  <2> QED
    BY <1>10, <2>4, <2>5, <2>6, <2>7, <2>9, OwnStep
<1>11. ASSUME NEW p \in Procs, Cleanup(p) \/ Rollback(p) PROVE StoreInv'
  <2>1. CASE Cleanup(p)
    <3>1. pc[p] = "cleanup" /\ pc[p] \in HasTmp
      BY <2>1 DEF Cleanup, HasTmp
    <3> QED
      BY <1>10, <2>1, <3>1 DEF Cleanup
  <2>2. CASE Rollback(p)
    <3>1. pc[p] \in HasTmp
      BY <2>2 DEF Rollback, HasTmp, HasOpen
    <3> QED
      BY <1>10, <2>2, <3>1 DEF Rollback
  <2> QED
    BY <1>11, <2>1, <2>2
<1>12. ASSUME NEW p \in Procs, FindPartial(p) PROVE StoreInv'
  <2>1. CASE Cardinality(Matches(job[p].id)) = 1
    <3>1. pc' = [pc EXCEPT ![p] = "read"] /\ UNCHANGED <<link, data, stored, tmp, fd, flushed, got>>
      BY <1>12, <2>1 DEF FindPartial
    <3>2. \A q \in Procs \ {p} : job'[q] = job[q]
      BY <1>12, <2>1 DEF FindPartial, Shape, Values
    <3>3. pc'[p] \notin HasTmp /\ Heard(p)'
      BY <3>1 DEF Shape, Values, Heard, HasTmp, HasOpen
    <3> QED
      BY <1>2, <3>1, <3>2, <3>3
  <2> QED
    BY <1>4, <1>12, <2>1 DEF FindPartial
<1>13. ASSUME NEW p \in Procs, ReadFile(p) PROVE StoreInv'
  <2> DEFINE i == link[ObjFile(job[p].id)]
  <2>1. /\ pc' = [pc EXCEPT ![p] = "inflate"] /\ pc[p] = "read"
        /\ got' = [got EXCEPT ![p] = IF i = None THEN None ELSE data[i]]
        /\ UNCHANGED <<link, data, stored, job, tmp, fd, flushed>>
    BY <1>13 DEF ReadFile
  <2>2. job[p].id \in Ids /\ pc'[p] = "inflate" /\ got'[p] = IF i = None THEN None ELSE data[i]
    BY <2>1 DEF Shape, Values, Locals, OpType
  <2>3. i # None => Whole(data[i], job[p].id)
    BY <2>2 DEF StoreInv, NamedByContent, Readable
  <2>4. pc'[p] \notin HasTmp /\ Heard(p)'
    BY <2>1, <2>2, <2>3 DEF HasTmp, HasOpen, Heard, Whole
  <2> QED
    BY <1>2, <2>1, <2>4
<1>14. ASSUME NEW p \in Procs, FinishSpins(p) PROVE FALSE
  <2>1. pc[p] = "inflate" /\ got[p] # None
    BY <1>14 DEF FinishSpins, Spins
  <2>2. job[p].id \in Ids /\ Whole(got[p], job[p].id)
    BY <2>1 DEF StoreInv, Heard, Shape, Values, Locals, OpType
  <2> QED
    BY <1>14, <2>2 DEF FinishSpins, Spins, Truncated, Whole
<1>15. ASSUME NEW p \in Procs, OpenFails(p) \/ PublishThrows(p) \/ Inflate(p) \/ Crash(p)
       PROVE  StoreInv'
  BY <1>4, <1>15 DEF OpenFails, PublishThrows, Inflate, Crash
<1>16. ASSUME NEW p \in Procs, StoreFails(p) PROVE FALSE
  BY <1>16 DEF StoreFails, Reliable
<1> QED
  BY <1>1, <1>3, <1>5, <1>7, <1>8, <1>9, <1>11, <1>12, <1>13, <1>14, <1>15, <1>16
     DEF Next, Step, Spin, Finished

(***************************************************************************)
(* Once loose_backend has given a file an object's name, it holds that     *)
(* object, whole; and what write() has returned true for can be read.      *)
(***************************************************************************)
THEOREM NamedCorrect ==
  ASSUME Reliable
  PROVE  Spec => []NamedByContent
<1>1. Shape /\ StoreInv /\ [Next]_vars => (Shape /\ StoreInv)'
  BY ShapeNext, StoreNext
<1>2. StoreInv => NamedByContent
  BY DEF StoreInv
<1> QED
  BY <1>1, <1>2, ShapeInit, StoreInit, PTL DEF Spec

THEOREM StoredCorrect ==
  ASSUME Reliable
  PROVE  Spec => []StoredIsReadable
<1>1. Shape /\ StoreInv /\ [Next]_vars => (Shape /\ StoreInv)'
  BY ShapeNext, StoreNext
<1>2. StoreInv => StoredIsReadable
  BY DEF StoreInv
<1> QED
  BY <1>1, <1>2, ShapeInit, StoreInit, PTL DEF Spec

(***************************************************************************)
(* The database implements ContentStore, one step of it at most per system *)
(* call: the rename is the moment an object is put, the read the moment a  *)
(* lookup is answered.                                                     *)
(***************************************************************************)
Objects == {x \in Ids : Readable(x)}
Answers == [p \in Procs |-> Answer(p)]

LEMMA NamedObjects ==
  ASSUME NamedByContent
  PROVE  Objects = {x \in Ids : link[ObjFile(x)] # None}
  BY DEF Objects, NamedByContent, Readable

LEMMA NamedObjectsNext ==
  ASSUME NamedByContent'
  PROVE  Objects' = {x \in Ids : link'[ObjFile(x)] # None}
  BY DEF Objects, NamedByContent, Readable

(* Only the answer of the process that takes the step changes.              *)
LEMMA AnswersNext ==
  ASSUME NEW p \in Procs,
         \A q \in Procs \ {p} : pc'[q] = pc[q] /\ got'[q] = got[q]
  PROVE  Answers' = [Answers EXCEPT ![p] = Answer(p)']
<1>1. \A q \in Procs \ {p} : Answer(q)' = Answer(q)
  BY DEF Answer
<1> QED
  BY <1>1 DEF Answers

(* A search by prefix settles exactly when there is one object it may mean. *)
LEMMA OnlyMatch ==
  ASSUME NamedByContent, NEW id \in Ids
  PROVE  /\ Abstract!Matches(id) = Matches(id)
         /\ Cardinality(Matches(id)) = 1 <=> \E x \in Objects : Matches(id) = {x}
<1>1. Abstract!Matches(id) = Matches(id)
  BY NamedObjects DEF Abstract!Matches, Matches, Objects
<1>2. Matches(id) \subseteq Ids /\ Matches(id) \subseteq Objects
  BY NamedObjects DEF Matches
<1>3. IsFiniteSet(Matches(id))
  BY <1>2, FS_Subset, StoreIdsAssumption
<1>4. Cardinality(Matches(id)) = 1 <=> \E x : Matches(id) = {x}
  BY <1>3, FS_Singleton
<1> QED
  BY <1>1, <1>2, <1>4

(* The call of p returns.                                                   *)
LEMMA ReturnFinishes ==
  ASSUME Shape, NEW p \in Procs, pc[p] # "idle", NEW r, Return(p, r), Objects' = Objects,
         \/ r = "error"
         \/ r = Answer(p) /\ r # "open"
         \/ r = "absent" /\ job[p].op = "find" /\ \A x \in Objects : Abstract!Matches(job[p].id) # {x}
  PROVE  Abstract!Finish(p)
<1>1. job[p] # None
  BY DEF Shape, Locals
<1>2. pc'[p] = "idle"
  BY DEF Return, Goto, Shape, Values
<1>3. Answer(p)' = "open"
  BY <1>2 DEF Answer
<1>4. Answers' = [Answers EXCEPT ![p] = "open"]
  <2>1. \A q \in Procs \ {p} : pc'[q] = pc[q] /\ got'[q] = got[q]
    BY DEF Return, Goto, Shape, Values
  <2> QED
    BY <1>3, <2>1, AnswersNext
<1>5. Answers[p] = Answer(p)
  BY DEF Answers
<1>6. r \in {"error"} \cup ({Answers[p]} \ {"open"})
              \cup (IF job[p].op = "find" /\ \A x \in Objects : Abstract!Matches(job[p].id) # {x}
                    THEN {"absent"} ELSE {})
  BY <1>5
<1>7. job' = [job EXCEPT ![p] = None] /\ res' = [res EXCEPT ![p] = r]
  BY DEF Return
<1>8. /\ \E a \in {"error"} \cup ({[q \in Procs |-> Answer(q)][p]} \ {"open"})
              \cup (IF job[p].op = "find"
                        /\ \A x \in {y \in Ids : Readable(y)} : Abstract!Matches(job[p].id) # {x}
                    THEN {"absent"} ELSE {}) : res' = [res EXCEPT ![p] = a]
      /\ [q \in Procs |-> Answer(q)]' = [[q \in Procs |-> Answer(q)] EXCEPT ![p] = "open"]
      /\ UNCHANGED {x \in Ids : Readable(x)}
  BY <1>4, <1>6, <1>7 DEF Answers, Objects
<1> QED
  BY <1>1, <1>7, <1>8 DEF Abstract!Finish

(* No object appears or goes while no object's name changes.                *)
LEMMA ObjectsStay ==
  ASSUME StoreInv, StoreInv', \A x \in Ids : link'[ObjFile(x)] = link[ObjFile(x)]
  PROVE  Objects' = Objects
  BY NamedObjects, NamedObjectsNext DEF StoreInv

LEMMA StoreRefinesInit == Init => Abstract!CInit
<1> SUFFICES ASSUME Init PROVE Abstract!CInit
  OBVIOUS
<1>1. {x \in Ids : Readable(x)} = {}
  BY PathFacts DEF Init, Readable
<1>2. [p \in Procs |-> Answer(p)] = [p \in Procs |-> "open"]
  BY DEF Init, Answer
<1> QED
  BY <1>1, <1>2 DEF Init, Abstract!CInit

(* Every step is a step of ContentStore or none.                            *)
LEMMA StoreRefinesNext ==
  ASSUME Reliable, Shape, StoreInv, [Next]_vars
  PROVE  [Abstract!CNext]_(Abstract!cvars)
<1> USE StoreNoneAssumption DEF Goto, fs
<1>0. StoreInv' /\ NamedByContent /\ NamedByContent'
  BY StoreNext DEF StoreInv
<1>1. ASSUME Objects' = Objects, Answers' = Answers, UNCHANGED <<job, res>>
      PROVE  [Abstract!CNext]_(Abstract!cvars)
  BY <1>1 DEF Abstract!cvars, Objects, Answers
<1>2. CASE UNCHANGED vars
  <2>1. Objects' = Objects /\ Answers' = Answers
    BY <1>2 DEF vars, Objects, Answers, Answer, Readable
  <2> QED
    BY <1>1, <1>2, <2>1 DEF vars
<1>3. ASSUME NEW p \in Procs, Abstract!Finish(p) PROVE [Abstract!CNext]_(Abstract!cvars)
  BY <1>3 DEF Abstract!CNext
<1>4. ASSUME NEW p \in Procs, NEW o \in Ops, BeginOp(p, o)
      PROVE  [Abstract!CNext]_(Abstract!cvars)
  <2>1. Objects' = Objects
    BY <1>4 DEF BeginOp, Objects, Readable
  <2>2. Answer(p)' = Answer(p)
    <3>1. pc[p] = "idle" /\ pc'[p] \in {"open", "read", "find"}
      BY <1>4, StoreOpsAssumption DEF BeginOp, OpType, Shape, Values
    <3> QED
      BY <3>1 DEF Answer
  <2>3. Answers' = Answers
    <3>1. \A q \in Procs \ {p} : pc'[q] = pc[q] /\ got'[q] = got[q]
      BY <1>4 DEF BeginOp, Shape, Values
    <3>2. Answers' = [Answers EXCEPT ![p] = Answer(p)]
      BY <2>2, <3>1, AnswersNext
    <3> QED
      BY <3>2 DEF Answers
  <2>4. job[p] = None /\ o \in OpType
    BY <1>4, StoreOpsAssumption DEF BeginOp, Shape, Locals
  <2>5. Abstract!Begin(p, o)
    BY <1>4, <2>1, <2>3, <2>4 DEF BeginOp, Abstract!Begin, Objects, Answers
  <2> QED
    BY <2>4, <2>5 DEF Abstract!CNext, OpType
(* Neither an object's name nor an answer changes. *)
<1>5. ASSUME NEW p \in Procs, OpenTmp(p) \/ StoreObject(p) \/ CloseOut(p)
      PROVE  [Abstract!CNext]_(Abstract!cvars)
  <2>1. /\ pc[p] \in {"open", "store", "close"} /\ pc'[p] \in {"store", "close", "rename"}
        /\ \A q \in Procs \ {p} : pc'[q] = pc[q] /\ got'[q] = got[q]
        /\ UNCHANGED <<job, res>>
    BY <1>5 DEF OpenTmp, StoreObject, CloseOut, Shape, Values
  <2>2. \A x \in Ids : link'[ObjFile(x)] = link[ObjFile(x)]
    <3>1. CASE OpenTmp(p)
      <4>1. PICK t \in TmpNames(p) : \E i : link' = [link EXCEPT ![t] = i]
        BY <3>1, OpensTmp, Zenon
      <4> QED
        BY <4>1, PathFacts DEF Shape, Values
    <3> QED
      BY <1>5, <3>1 DEF StoreObject, CloseOut
  <2>3. Answers' = Answers
    <3>1. Answer(p)' = Answer(p)
      BY <2>1 DEF Answer
    <3>2. Answers' = [Answers EXCEPT ![p] = Answer(p)]
      BY <2>1, <3>1, AnswersNext
    <3> QED
      BY <3>2 DEF Answers
  <2> QED
    BY <1>0, <1>1, <2>1, <2>2, <2>3, ObjectsStay
<1>6. ASSUME NEW p \in Procs, Publish(p) PROVE [Abstract!CNext]_(Abstract!cvars)
  <2>1. /\ pc[p] = "rename" /\ pc'[p] = "cleanup" /\ job[p] # None /\ job[p].op = "write"
        /\ job[p].id \in Ids /\ tmp[p] \in TmpFiles /\ UNCHANGED <<job, res>>
        /\ \A q \in Procs \ {p} : pc'[q] = pc[q] /\ got'[q] = got[q]
    BY <1>6 DEF Publish, Shape, Values, Locals, HasTmp, OpType
  <2>2. Objects' = Objects \cup {job[p].id}
    <3>1. PICK x \in Ids : x = job[p].id
      BY <2>1
    <3>2. link'[ObjFile(x)] # None /\ \A y \in Ids \ {x} : link'[ObjFile(y)] = link[ObjFile(y)]
      BY <1>6, <2>1, <3>1, PathFacts DEF Publish, Shape, Values
    <3> QED
      BY <1>0, <3>1, <3>2, NamedObjects, NamedObjectsNext
  <2>3. Answer(p) = "open" /\ Answer(p)' = "ok" /\ Answers[p] = Answer(p)
    BY <2>1 DEF Answer, Answers
  <2>4. Answers' = [Answers EXCEPT ![p] = "ok"]
    BY <2>1, <2>3, AnswersNext
  <2>5. /\ [q \in Procs |-> Answer(q)][p] = "open"
        /\ [q \in Procs |-> Answer(q)]' = [[q \in Procs |-> Answer(q)] EXCEPT ![p] = "ok"]
        /\ {x \in Ids : Readable(x)}' = {x \in Ids : Readable(x)} \cup {job[p].id}
    BY <2>2, <2>3, <2>4 DEF Objects, Answers
  <2>6. Abstract!Put(p)
    BY <2>1, <2>5 DEF Abstract!Put
  <2> QED
    BY <2>6 DEF Abstract!CNext
<1>7. ASSUME NEW p \in Procs, ReadFile(p) PROVE [Abstract!CNext]_(Abstract!cvars)
  <2>1. /\ pc[p] = "read" /\ pc'[p] = "inflate" /\ job[p] # None /\ job[p].op = "read"
        /\ job[p].id \in Ids /\ UNCHANGED <<link, data, job, res>>
        /\ \A q \in Procs \ {p} : pc'[q] = pc[q] /\ got'[q] = got[q]
    BY <1>7 DEF ReadFile, Shape, Values, Locals, Reading, OpType
  <2>2. PICK x \in Ids : x = job[p].id
    BY <2>1
  <2>3. got'[p] = IF link[ObjFile(x)] = None THEN None ELSE data[link[ObjFile(x)]]
    BY <1>7, <2>2 DEF ReadFile, Shape, Values
  <2>4. got'[p] # None <=> x \in Objects
    BY <1>0, <2>3, NamedObjects, PathFacts DEF Shape, Values, Contents, Parts
  <2>5. /\ Answer(p) = "open" /\ Answers[p] = Answer(p)
        /\ Answer(p)' = IF x \in Objects THEN "found" ELSE "absent"
    BY <2>1, <2>4 DEF Answer, Answers
  <2>6. Answers' = [Answers EXCEPT ![p] = IF x \in Objects THEN "found" ELSE "absent"]
    BY <2>1, <2>5, AnswersNext
  <2>7. Objects' = Objects
    BY <2>1 DEF Objects, Readable
  <2>8. /\ [q \in Procs |-> Answer(q)][p] = "open"
        /\ [q \in Procs |-> Answer(q)]' =
              [[q \in Procs |-> Answer(q)] EXCEPT
                 ![p] = IF job[p].id \in {y \in Ids : Readable(y)} THEN "found" ELSE "absent"]
        /\ {y \in Ids : Readable(y)}' = {y \in Ids : Readable(y)}
    BY <2>2, <2>5, <2>6, <2>7 DEF Objects, Answers
  <2>9. Abstract!Get(p)
    BY <2>1, <2>8 DEF Abstract!Get
  <2> QED
    BY <2>9 DEF Abstract!CNext
<1>8. ASSUME NEW p \in Procs, FindPartial(p) PROVE [Abstract!CNext]_(Abstract!cvars)
  <2>1. /\ pc[p] = "find" /\ job[p] # None /\ job[p].op = "find" /\ job[p].id \in Ids
        /\ UNCHANGED <<link, data>>
    BY <1>8 DEF FindPartial, Shape, Values, Locals, OpType
  <2>2. Objects' = Objects
    BY <2>1 DEF Objects, Readable
  <2>3. CASE Cardinality(Matches(job[p].id)) = 1
    <3>1. PICK x \in Objects : Matches(job[p].id) = {x}
      BY <1>0, <2>1, <2>3, OnlyMatch
    <3>2. Abstract!Matches(job[p].id) = {x}
      BY <1>0, <2>1, <3>1, OnlyMatch
    <3>3. (CHOOSE y \in Matches(job[p].id) : TRUE) = x
      BY <3>1
    <3>4. /\ job' = [job EXCEPT ![p] = [op |-> "read", id |-> x]]
          /\ pc' = [pc EXCEPT ![p] = "read"] /\ UNCHANGED <<got, res>>
      BY <1>8, <2>3, <3>3 DEF FindPartial
    <3>5. Answer(p) = "open" /\ Answer(p)' = "open" /\ Answers[p] = Answer(p)
      BY <2>1, <3>4 DEF Answer, Answers, Shape, Values
    <3>6. Answers' = Answers
      <4>1. \A q \in Procs \ {p} : pc'[q] = pc[q] /\ got'[q] = got[q]
        BY <3>4 DEF Shape, Values
      <4>2. Answers' = [Answers EXCEPT ![p] = Answer(p)]
        BY <3>5, <4>1, AnswersNext
      <4> QED
        BY <4>2 DEF Answers
    <3>7. /\ [q \in Procs |-> Answer(q)][p] = "open"
          /\ [q \in Procs |-> Answer(q)]' = [q \in Procs |-> Answer(q)]
          /\ {y \in Ids : Readable(y)}' = {y \in Ids : Readable(y)}
          /\ x \in {y \in Ids : Readable(y)}
      BY <2>2, <3>1, <3>5, <3>6 DEF Objects, Answers
    <3>8. Abstract!Settle(p)
      BY <2>1, <3>2, <3>4, <3>7 DEF Abstract!Settle
    <3> QED
      BY <3>8 DEF Abstract!CNext
  <2>4. CASE Cardinality(Matches(job[p].id)) # 1
    <3>1. \A x \in Objects : Abstract!Matches(job[p].id) # {x}
      BY <1>0, <2>1, <2>4, OnlyMatch
    <3>2. Return(p, "absent")
      BY <1>8, <2>4 DEF FindPartial
    <3> QED
      BY <1>3, <2>1, <2>2, <3>1, <3>2, ReturnFinishes
  <2> QED
    BY <2>3, <2>4
<1>9. ASSUME NEW p \in Procs, Inflate(p) PROVE [Abstract!CNext]_(Abstract!cvars)
  <2>1. pc[p] = "inflate" /\ Objects' = Objects
    BY <1>9 DEF Inflate, Objects, Readable
  <2>2. got[p] # None => \E x \in Ids : Whole(got[p], x)
    BY <2>1 DEF StoreInv, Heard, Shape, Values, Locals, OpType
  <2>3. \/ got[p] = None /\ Return(p, "absent")
        \/ got[p] # None /\ Return(p, "found")
    BY <1>9, <2>2 DEF Inflate, Whole
  <2>4. (got[p] = None => Answer(p) = "absent") /\ (got[p] # None => Answer(p) = "found")
    <3>1. got[p] = None => Answer(p) = "absent"
      BY <2>1 DEF Answer
    <3>2. got[p] # None => Answer(p) = "found"
      BY <2>1 DEF Answer
    <3> QED
      BY <3>1, <3>2
  <2> QED
    BY <1>3, <2>1, <2>3, <2>4, ReturnFinishes
<1>10. ASSUME NEW p \in Procs, Cleanup(p) \/ Rollback(p)
       PROVE  [Abstract!CNext]_(Abstract!cvars)
  <2>1. pc[p] \in {"cleanup", "rollback"} /\ tmp[p] \in TmpFiles
    BY <1>10 DEF Cleanup, Rollback, Shape, Values, Locals, HasTmp, HasOpen
  <2>2. \A x \in Ids : link'[ObjFile(x)] = link[ObjFile(x)]
    BY <1>10, <2>1, PathFacts DEF Cleanup, Rollback, Shape, Values
  <2>3. Objects' = Objects
    BY <1>0, <2>2, ObjectsStay
  <2>4. pc[p] = "cleanup" => Answer(p) = "ok"
    BY DEF Answer
  <2>5. (pc[p] = "cleanup" /\ Return(p, "ok")) \/ Return(p, "error")
    BY <1>10 DEF Cleanup, Rollback
  <2> QED
    BY <1>3, <2>1, <2>3, <2>4, <2>5, ReturnFinishes
<1>11. ASSUME NEW p \in Procs, OpenFails(p) \/ PublishThrows(p) \/ Crash(p)
       PROVE  [Abstract!CNext]_(Abstract!cvars)
  <2>1. pc[p] # "idle" /\ Return(p, "error") /\ Objects' = Objects
    BY <1>11 DEF OpenFails, PublishThrows, Crash, Objects, Readable
  <2> QED
    BY <1>3, <2>1, ReturnFinishes
(* Only a full disk or a damaged file leads here. *)
<1>12. ASSUME NEW p \in Procs, StoreFails(p) \/ FinishSpins(p) PROVE FALSE
  <2>1. CASE StoreFails(p)
    BY <2>1 DEF StoreFails, Reliable
  <2>2. CASE FinishSpins(p)
    <3>1. pc'[p] = "spin"
      BY <2>2 DEF FinishSpins, Shape, Values
    <3> QED
      BY <1>0, <3>1 DEF StoreInv, Heard
  <2> QED
    BY <1>12, <2>1, <2>2
<1> QED
  BY <1>2, <1>4, <1>5, <1>6, <1>7, <1>8, <1>9, <1>10, <1>11, <1>12
     DEF Next, Step, Spin, Finished

(***************************************************************************)
(* loose_backend, with the file system under it, is a ContentStore.        *)
(***************************************************************************)
THEOREM ImplementsContentStore ==
  ASSUME Reliable
  PROVE  Spec => RefinesContentStore
<1>1. Shape /\ StoreInv /\ [Next]_vars => (Shape /\ StoreInv)'
  BY ShapeNext, StoreNext
<1>2. Shape /\ StoreInv /\ [Next]_vars => [Abstract!CNext]_(Abstract!cvars)
  BY StoreRefinesNext
<1> QED
  BY <1>1, <1>2, ShapeInit, StoreInit, StoreRefinesInit, PTL
     DEF Spec, RefinesContentStore, Abstract!CSpec
=============================================================================

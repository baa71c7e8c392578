-------------------------- MODULE RefStore_proofs ---------------------------
(***************************************************************************)
(* What RefStore guarantees for every number of processes, every set of    *)
(* reference names and every number of operations, however these           *)
(* interleave, fail to open their files or are killed.                     *)
(***************************************************************************)
EXTENDS RefStore, TLAPS

(***************************************************************************)
(* The shape of the state, under every fault.                              *)
(***************************************************************************)
HasTmp == {"write", "rename", "rollback"}
Printing == {"mkdir", "open"} \cup HasTmp
Removing == {"again", "unlink"}
Steps == {"idle", "lookup", "list"} \cup Printing \cup Removing
Results == {"none", "ok", "error"}
AllDirs == UNION {ParentDirs(n) : n \in Names}

Typed ==
    /\ link \in [Paths -> Inodes \cup {None}]
    /\ data \in [Inodes -> Values \cup {Empty}]
    /\ dirs \subseteq AllDirs
    /\ crashed \subseteq Procs
    /\ pc \in [Procs -> Steps]
    /\ job \in [Procs -> Ops \cup {None}]
    /\ tmp \in [Procs -> Paths \cup {None}]
    /\ fd \in [Procs -> Inodes \cup {None}]
    /\ seen \in [Procs -> Values \cup {None}]
    /\ res \in [Procs -> Results]
    /\ todo \in [Procs -> SUBSET Paths]
    /\ listed \in [Procs -> SUBSET Paths]

(* What the program counter of p says of the operation it is in, and of its *)
(* temporary file.                                                          *)
Local(p) ==
    /\ (fd[p] # None) <=> (pc[p] = "write")
    /\ (job[p] # None) <=> (pc[p] # "idle")
    /\ pc[p] \in Printing => job[p].op \notin {"remove", "list"}
    /\ pc[p] = "lookup" => job[p].op # "list"
    /\ pc[p] \in Removing => job[p].op = "remove"
    /\ pc[p] = "list" => job[p].op = "list"
    /\ pc[p] \in HasTmp => \E s \in TmpSuffixes(p) : tmp[p] = TmpName(job[p].name, s)

Shape == Typed /\ \A p \in Procs : Local(p)

(* A free inode is one that no name and no descriptor stands for.           *)
LEMMA FreeInodeIsFree ==
  ASSUME Shape, UsedInodes # Inodes
  PROVE  /\ FreeInode \in Inodes
         /\ \A f \in Paths : link[f] # FreeInode
         /\ \A p \in Procs : fd[p] # FreeInode
<1>1. UsedInodes \subseteq Inodes
  BY DEF Shape, Typed, UsedInodes
<1>2. \E i \in Inodes : i \notin UsedInodes
  BY <1>1
<1>3. FreeInode \in Inodes /\ FreeInode \notin UsedInodes
  BY <1>2 DEF FreeInode
<1> QED
  BY <1>3, RefNamesAssumption DEF UsedInodes

(* A temporary file lies next to its reference and is never taken for one.  *)
LEMMA TmpFacts ==
  ASSUME NEW n \in Names, NEW s \in Procs \cup {"nul"}
  PROVE  /\ TmpName(n, s) \in Paths /\ TmpName(n, s) \notin Names
         /\ TmpName(n, s).tmp = s /\ s # "" /\ n.tmp = ""
         /\ ParentDirs(TmpName(n, s)) = ParentDirs(n)
         /\ AsDir(TmpName(n, s)) \notin AllDirs
<1>1. TmpName(n, s).tmp = s /\ TmpName(n, s).dir = n.dir /\ s # "" /\ n.tmp = ""
  BY RefNamesAssumption DEF TmpName
<1>2. TmpName(n, s) \in Paths /\ TmpName(n, s) \notin Names
  <2>1. TmpName(n, s) \in Paths
    BY DEF Paths
  <2>2. TmpName(n, s) \notin Names
    BY <1>1, RefNamesAssumption
  <2> QED
    BY <2>1, <2>2
<1>3. ParentDirs(TmpName(n, s)) = ParentDirs(n)
  BY <1>1 DEF ParentDirs
<1>4. AsDir(TmpName(n, s)) \notin AllDirs
  BY <1>1, <1>2, RefDirsAssumption DEF AllDirs
<1> QED
  BY <1>1, <1>2, <1>3, <1>4

LEMMA OpFacts ==
  ASSUME NEW o \in Ops
  PROVE  /\ o # None /\ o.name \in Names /\ o.name \in Paths
         /\ o.op \in {"create", "copy", "match", "remove", "list"}
         /\ o.op \notin {"remove", "list"} => o.val \in Values
         /\ o.op \in {"remove", "list"} => o.val = None
<1>1. o \in OpType /\ (o.val = None <=> o.op \in {"remove", "list"})
  BY RefOpsAssumption
<1>2. o # None
  BY <1>1, RefNamesAssumption
<1>3. /\ o.op \in {"create", "copy", "match", "remove", "list"}
      /\ o.name \in Names /\ o.val \in Values \cup {None}
  BY <1>1 DEF OpType
<1>4. o.name \in Paths
  BY <1>3 DEF Paths
<1> QED
  BY <1>1, <1>2, <1>3, <1>4

LEMMA SuffixFacts == \A p \in Procs : TmpSuffixes(p) \subseteq Procs \cup {"nul"}
  BY DEF TmpSuffixes

LEMMA ShapeInit == Init => Shape
<1> SUFFICES ASSUME Init PROVE Shape
  OBVIOUS
<1>1. Typed
  BY DEF Init, Typed, Steps, Results
<1>2. \A p \in Procs : Local(p)
  BY DEF Init, Local, Printing, Removing, HasTmp
<1> QED
  BY <1>1, <1>2 DEF Shape

(* Only the process that takes the step moves.                              *)
LEMMA OthersStay ==
  ASSUME Shape, NEW p \in Procs, Typed', Local(p)',
         \A q \in Procs \ {p} : /\ pc'[q] = pc[q] /\ job'[q] = job[q]
                                /\ tmp'[q] = tmp[q] /\ fd'[q] = fd[q]
  PROVE  Shape'
<1>1. \A q \in Procs \ {p} : Local(q)'
  BY DEF Shape, Local
<1> QED
  BY <1>1 DEF Shape

(* Every step keeps the shape.                                              *)
LEMMA ShapeNext == Shape /\ [Next]_vars => Shape'
<1> SUFFICES ASSUME Shape, [Next]_vars PROVE Shape'
  OBVIOUS
<1> USE DEF Goto, fs, listing
<1>0. ASSUME NEW p \in Procs, NEW r \in Results, Return(p, r),
             link' \in [Paths -> Inodes \cup {None}], data' = data, dirs' \subseteq AllDirs,
             crashed' \subseteq Procs, UNCHANGED listing
      PROVE  Shape'
  <2>1. Typed'
    BY <1>0 DEF Return, Shape, Typed, Steps
  <2>2. Local(p)'
    BY <1>0 DEF Return, Shape, Typed, Local, Printing, Removing, HasTmp
  <2>3. \A q \in Procs \ {p} : /\ pc'[q] = pc[q] /\ job'[q] = job[q]
                               /\ tmp'[q] = tmp[q] /\ fd'[q] = fd[q]
    BY <1>0 DEF Return, Shape, Typed
  <2> QED
    BY <2>1, <2>2, <2>3, OthersStay
<1>1. CASE UNCHANGED vars
  BY <1>1 DEF vars, Shape, Typed, Local
<1>2. ASSUME NEW p \in Procs, NEW o \in Ops, BeginOp(p, o) PROVE Shape'
  <2> DEFINE s == CASE o.op = "create" -> "mkdir" [] o.op = "list" -> "list" [] OTHER -> "lookup"
             T == IF o.op = "list" THEN Files ELSE {}
  <2>1. /\ s \in {"mkdir", "list", "lookup"}
        /\ s = "mkdir" => o.op = "create"
        /\ s = "list" => o.op = "list"
        /\ s = "lookup" => o.op # "list"
        /\ T \subseteq Paths
    <3>1. CASE o.op = "create"
      BY <3>1
    <3>2. CASE o.op = "list"
      BY <3>2 DEF Files
    <3>3. CASE o.op # "create" /\ o.op # "list"
      BY <3>3
    <3> QED
      BY <3>1, <3>2, <3>3
  <2>2. /\ pc[p] = "idle" /\ job' = [job EXCEPT ![p] = o] /\ res' = [res EXCEPT ![p] = "none"]
        /\ listed' = [listed EXCEPT ![p] = {}] /\ todo' = [todo EXCEPT ![p] = T]
        /\ pc' = [pc EXCEPT ![p] = s]
        /\ UNCHANGED <<link, data, dirs, crashed, tmp, fd, seen>>
    BY <1>2 DEF BeginOp
  <2> HIDE DEF s, T
  <2>3. s \in Steps
    BY <2>1 DEF Steps, Printing
  <2>4. Typed'
    BY <2>1, <2>2, <2>3 DEF Shape, Typed, Results
  <2>5. pc'[p] = s /\ job'[p] = o /\ fd'[p] = None
    BY <2>2, RefNamesAssumption DEF Shape, Typed, Local
  <2>6. Local(p)'
    BY <2>1, <2>5, OpFacts DEF Local, Printing, Removing, HasTmp
  <2> QED
    BY <2>2, <2>4, <2>6, OthersStay DEF Shape, Typed
(* A step that moves the program counter of p and looks at its reference. *)
<1>3. ASSUME NEW p \in Procs, NEW s \in Steps, pc' = [pc EXCEPT ![p] = s],
             pc[p] # "idle", s # "idle", pc[p] # "write", s # "write", s \notin HasTmp,
             s \in Printing => job[p].op \notin {"remove", "list"},
             s = "lookup" => job[p].op # "list", s \in Removing => job[p].op = "remove",
             s = "list" => job[p].op = "list",
             seen' \in [Procs -> Values \cup {None}], dirs' \subseteq AllDirs,
             UNCHANGED <<link, data, crashed, job, tmp, fd, res, listing>>
      PROVE  Shape'
  <2>1. Typed'
    BY <1>3 DEF Shape, Typed
  <2>2. pc'[p] = s /\ job'[p] # None /\ fd'[p] = None
    BY <1>3 DEF Shape, Typed, Local
  <2>3. Local(p)'
    BY <1>3, <2>2 DEF Local
  <2> QED
    BY <1>3, <2>1, <2>3, OthersStay DEF Shape, Typed
<1>4. ASSUME NEW p \in Procs, pc[p] # "idle"
      PROVE  /\ job[p] \in Ops /\ job[p].name \in Names /\ job[p].name \in Paths
             /\ job[p].op \in {"create", "copy", "match", "remove", "list"}
  BY <1>4, OpFacts DEF Shape, Typed, Local
<1>5. ASSUME NEW p \in Procs, Lookup(p) PROVE Shape'
  <2>1. LookupPath(job[p].name) \in Values \cup {None}
    BY <1>4, <1>5 DEF Lookup, LookupPath, Shape, Typed
  <2>2. CASE Refuses(job[p], LookupPath(job[p].name))
    BY <1>0, <1>5, <2>2 DEF Lookup, Shape, Typed, Results
  <2>3. CASE ~ Refuses(job[p], LookupPath(job[p].name))
    <3>1. PICK s : /\ pc' = [pc EXCEPT ![p] = s]
                   /\ job[p].op = "remove" => s = "again"
                   /\ job[p].op # "remove" => s = "mkdir"
      BY <1>5, <2>3 DEF Lookup
    <3>2. /\ pc[p] = "lookup" /\ seen' = [seen EXCEPT ![p] = LookupPath(job[p].name)]
          /\ UNCHANGED <<link, data, dirs, crashed, job, tmp, fd, res, listing>>
      BY <1>5, <2>3 DEF Lookup
    <3>3. job[p].op # "list"
      BY <3>2 DEF Shape, Local
    <3>4. seen' \in [Procs -> Values \cup {None}] /\ dirs' \subseteq AllDirs
      BY <2>1, <3>2 DEF Shape, Typed
    <3>5. /\ s \in Steps /\ s \notin HasTmp /\ s \in {"again", "mkdir"}
          /\ s \in Printing => job[p].op # "remove"
          /\ s \in Removing => job[p].op = "remove"
      BY <3>1 DEF Steps, Printing, Removing, HasTmp
    <3> QED
      BY <1>3, <3>1, <3>2, <3>3, <3>4, <3>5
  <2> QED
    BY <2>2, <2>3
<1>6. ASSUME NEW p \in Procs, Mkdir(p) PROVE Shape'
  <2>1. pc[p] = "mkdir" /\ job[p].name \in Names /\ job[p].op \notin {"remove", "list"}
    BY <1>4, <1>6 DEF Mkdir, Shape, Local, Printing
  <2>2. dirs \cup ParentDirs(job[p].name) \subseteq AllDirs /\ dirs \subseteq AllDirs
    BY <2>1 DEF Shape, Typed, AllDirs
  <2>3. CASE NoFileAbove(job[p].name)
    <3>1. /\ pc' = [pc EXCEPT ![p] = "open"] /\ dirs' \subseteq AllDirs
          /\ UNCHANGED <<link, data, crashed, job, tmp, fd, seen, res, listing>>
      BY <1>6, <2>2, <2>3 DEF Mkdir
    <3>2. "open" \in Steps /\ "open" \notin HasTmp /\ "open" \notin Removing
      BY DEF Steps, Printing, HasTmp, Removing
    <3>3. seen' \in [Procs -> Values \cup {None}]
      BY <3>1 DEF Shape, Typed
    <3> QED
      BY <1>3, <2>1, <3>1, <3>2, <3>3
  <2>4. CASE ~ NoFileAbove(job[p].name)
    <3>1. Return(p, "error") /\ UNCHANGED <<link, data, dirs, crashed, listing>>
      BY <1>6, <2>4 DEF Mkdir
    <3> QED
      BY <1>0, <2>2, <3>1 DEF Shape, Typed, Results
  <2> QED
    BY <2>3, <2>4
<1>7. ASSUME NEW p \in Procs, OpenTmp(p) PROVE Shape'
  <2> DEFINE Inode(t) == IF link[t] # None THEN link[t] ELSE FreeInode
  <2>1. PICK s \in TmpSuffixes(p) :
          /\ tmp' = [tmp EXCEPT ![p] = TmpName(job[p].name, s)]
          /\ fd' = [fd EXCEPT ![p] = Inode(TmpName(job[p].name, s))]
          /\ link' = [link EXCEPT ![TmpName(job[p].name, s)] = Inode(TmpName(job[p].name, s))]
          /\ data' = [data EXCEPT ![Inode(TmpName(job[p].name, s))] = Empty]
    BY <1>7 DEF OpenTmp
  <2>2. PICK t, i : t = TmpName(job[p].name, s) /\ i = Inode(t)
    OBVIOUS
  <2>3. /\ pc[p] = "open" /\ UsedInodes # Inodes /\ job[p].op \notin {"remove", "list"}
        /\ job[p].name \in Names /\ dirs' = dirs \cup ParentDirs(job[p].name)
        /\ pc' = [pc EXCEPT ![p] = "write"]
        /\ UNCHANGED <<crashed, job, seen, res, listing>>
    BY <1>4, <1>7 DEF OpenTmp, Shape, Local, Printing
  <2>4. t \in Paths
    BY <2>2, <2>3, SuffixFacts, TmpFacts
  <2>5. i \in Inodes
    BY <2>2, <2>3, <2>4, FreeInodeIsFree DEF Shape, Typed
  <2> HIDE DEF Inode
  <2>6. Typed'
    <3>1. dirs' \subseteq AllDirs
      BY <2>3 DEF AllDirs, Shape, Typed
    <3>2. "write" \in Steps
      BY DEF Steps, Printing, HasTmp
    <3> QED
      BY <2>1, <2>2, <2>3, <2>4, <2>5, <3>1, <3>2 DEF Shape, Typed
  <2>7. pc'[p] = "write" /\ fd'[p] = i /\ tmp'[p] = t /\ job'[p] = job[p] /\ job[p] # None
    BY <2>1, <2>2, <2>3 DEF Shape, Typed, Local
  <2>8. Local(p)'
    BY <2>2, <2>3, <2>5, <2>7, RefNamesAssumption DEF Local, Removing, TmpSuffixes
  <2> QED
    BY <2>1, <2>3, <2>6, <2>8, OthersStay DEF Shape, Typed
<1>8. ASSUME NEW p \in Procs, OpenFails(p) PROVE Shape'
  BY <1>0, <1>8 DEF OpenFails, Shape, Typed, Results
<1>9. ASSUME NEW p \in Procs, WriteLine(p) PROVE Shape'
  <2>1. pc[p] = "write" /\ fd[p] \in Inodes /\ job[p].val \in Values
    BY <1>4, <1>9, OpFacts DEF WriteLine, Shape, Typed, Local, Printing, HasTmp
  <2>2. Typed'
    BY <1>9, <2>1 DEF WriteLine, Shape, Typed, Steps, Printing, HasTmp
  <2>3. pc'[p] = "rename" /\ fd'[p] = None /\ UNCHANGED <<job, tmp>>
    BY <1>9 DEF WriteLine, Shape, Typed
  <2>4. Local(p)'
    BY <2>1, <2>3 DEF Shape, Local, Printing, Removing, HasTmp
  <2> QED
    BY <1>9, <2>2, <2>4, OthersStay DEF WriteLine, Shape, Typed
<1>10. ASSUME NEW p \in Procs, Commit(p) PROVE Shape'
  <2>1. pc[p] = "rename" /\ UNCHANGED <<data, dirs, crashed, listing>>
    BY <1>10 DEF Commit
  <2>2. CASE CanRename(p)
    <3>1. PICK t, n : t = tmp[p] /\ n = job[p].name
      OBVIOUS
    <3>2. t \in Paths /\ n \in Paths /\ link[t] \in Inodes
      <4>1. n \in Names /\ n \in Paths
        BY <1>4, <2>1, <3>1
      <4>2. \E s \in Procs \cup {"nul"} : t = TmpName(n, s)
        BY <2>1, <3>1, SuffixFacts DEF Shape, Local, HasTmp
      <4>3. t \in Paths
        BY <4>1, <4>2, TmpFacts
      <4> QED
        BY <2>2, <3>1, <4>1, <4>3 DEF CanRename, Shape, Typed
    <3>3. link' = [link EXCEPT ![n] = link[t], ![t] = None] /\ Return(p, "ok")
      BY <1>10, <2>2, <3>1 DEF Commit
    <3>4. link' \in [Paths -> Inodes \cup {None}] /\ dirs' \subseteq AllDirs /\ crashed' \subseteq Procs
      BY <2>1, <3>2, <3>3 DEF Shape, Typed
    <3> QED
      BY <1>0, <2>1, <3>3, <3>4 DEF Results
  <2>3. CASE ~ CanRename(p)
    <3>1. pc' = [pc EXCEPT ![p] = "rollback"] /\ UNCHANGED <<link, job, tmp, fd, seen, res>>
      BY <1>10, <2>3 DEF Commit
    <3>2. Typed'
      BY <2>1, <3>1 DEF Shape, Typed, Steps, Printing, HasTmp
    <3>3. pc'[p] = "rollback"
      BY <3>1 DEF Shape, Typed
    <3>4. Local(p)'
      BY <2>1, <3>1, <3>3 DEF Shape, Local, Printing, Removing, HasTmp
    <3> QED
      BY <3>1, <3>2, <3>4, OthersStay DEF Shape, Typed
  <2> QED
    BY <2>2, <2>3
<1>11. ASSUME NEW p \in Procs, Rollback(p) PROVE Shape'
  <2>1. link' \in [Paths -> Inodes \cup {None}]
    BY <1>11 DEF Rollback, Shape, Typed
  <2> QED
    BY <1>0, <1>11, <2>1 DEF Rollback, Shape, Typed, Results
<1>12. ASSUME NEW p \in Procs, LookAgain(p) PROVE Shape'
  <2>1. CASE LookupPath(job[p].name) = seen[p]
    <3>1. /\ pc[p] = "again" /\ pc' = [pc EXCEPT ![p] = "unlink"]
          /\ UNCHANGED <<link, data, dirs, crashed, job, tmp, fd, seen, res, listing>>
      BY <1>12, <2>1 DEF LookAgain
    <3>2. /\ "unlink" \in Steps /\ "unlink" \notin Printing /\ "unlink" \notin HasTmp
          /\ "again" \in Removing /\ job[p].op = "remove"
      BY <3>1 DEF Steps, Printing, HasTmp, Removing, Shape, Local
    <3> QED
      BY <1>3, <3>1, <3>2 DEF Shape, Typed
  <2>2. CASE LookupPath(job[p].name) # seen[p]
    BY <1>0, <1>12, <2>2 DEF LookAgain, Shape, Typed, Results
  <2> QED
    BY <2>1, <2>2
<1>13. ASSUME NEW p \in Procs, Unlink(p) PROVE Shape'
  <2>1. PICK r \in {"ok", "error"} : Return(p, r)
    BY <1>13 DEF Unlink
  <2>2. /\ link' = [link EXCEPT ![job[p].name] = None] /\ dirs' \subseteq dirs
        /\ UNCHANGED <<data, crashed, listing>>
    BY <1>13 DEF Unlink
  <2>3. link' \in [Paths -> Inodes \cup {None}] /\ dirs' \subseteq AllDirs /\ crashed' \subseteq Procs
    BY <2>2 DEF Shape, Typed
  <2> QED
    BY <1>0, <2>1, <2>2, <2>3 DEF Results
<1>14. ASSUME NEW p \in Procs, ListEntry(p) PROVE Shape'
  <2>1. PICK f \in todo[p] :
          /\ todo' = [todo EXCEPT ![p] = @ \ {f}]
          /\ listed' = [listed EXCEPT ![p] = IF LookupPath(f) # None THEN @ \cup {f} ELSE @]
    BY <1>14 DEF ListEntry
  <2>2. f \in Paths
    BY DEF Shape, Typed
  <2>3. listed' \in [Procs -> SUBSET Paths] /\ todo' \in [Procs -> SUBSET Paths]
    BY <2>1, <2>2 DEF Shape, Typed
  <2>4. UNCHANGED <<link, data, dirs, crashed, pc, job, tmp, fd, seen, res>>
    BY <1>14 DEF ListEntry
  <2> QED
    BY <2>3, <2>4 DEF Shape, Typed, Local
<1>15. ASSUME NEW p \in Procs, ListEnd(p) PROVE Shape'
  BY <1>0, <1>15 DEF ListEnd, Shape, Typed, Results
<1>16. ASSUME NEW p \in Procs, Crash(p) PROVE Shape'
  BY <1>0, <1>16 DEF Crash, Shape, Typed, Results
<1> QED
  BY <1>1, <1>2, <1>5, <1>6, <1>7, <1>8, <1>9, <1>10, <1>11, <1>12, <1>13, <1>14,
     <1>15, <1>16
     DEF Next, Step, Finished

(* TypeOK: whoever is about to write has its file open, and nobody else.    *)
THEOREM TypeCorrect == Spec => []TypeOK
<1>1. Shape => TypeOK
  BY DEF Shape, Typed, Local, TypeOK
<1> QED
  BY <1>1, ShapeInit, ShapeNext, PTL DEF Spec

(* What p knows of its operation and its temporary file.                    *)
LEMMA OwnNames ==
  ASSUME Shape, NEW p \in Procs, pc[p] # "idle"
  PROVE  /\ job[p] \in Ops /\ job[p] # None
         /\ job[p].name \in Names /\ job[p].name \in Paths /\ job[p].name.tmp = ""
         /\ pc[p] \in Printing => job[p].val \in Values
         /\ pc[p] \in Removing => job[p].val = None
         /\ pc[p] \in HasTmp =>
               /\ tmp[p] \in Paths \ Names /\ tmp[p].tmp # ""
               /\ ParentDirs(tmp[p]) = ParentDirs(job[p].name)
<1>1. job[p] \in Ops /\ job[p] # None /\ job[p].name \in Names /\ job[p].name \in Paths
  BY OpFacts DEF Shape, Typed, Local
<1>2. job[p].name.tmp = ""
  BY <1>1, RefNamesAssumption
<1>3. /\ pc[p] \in Printing => job[p].val \in Values
      /\ pc[p] \in Removing => job[p].val = None
  BY <1>1, OpFacts DEF Shape, Local
<1>4. ASSUME pc[p] \in HasTmp
      PROVE  /\ tmp[p] \in Paths \ Names /\ tmp[p].tmp # ""
             /\ ParentDirs(tmp[p]) = ParentDirs(job[p].name)
  <2>1. PICK s \in Procs \cup {"nul"} : tmp[p] = TmpName(job[p].name, s)
    BY <1>4, SuffixFacts DEF Shape, Local
  <2>2. PICK n \in Names : n = job[p].name
    BY <1>1
  <2>3. /\ TmpName(n, s) \in Paths \ Names /\ TmpName(n, s).tmp # ""
        /\ ParentDirs(TmpName(n, s)) = ParentDirs(n)
    BY TmpFacts
  <2> QED
    BY <2>1, <2>2, <2>3
<1> QED
  BY <1>1, <1>2, <1>3, <1>4

(***************************************************************************)
(* Part of the invariant of the refinement: names that are files and names *)
(* that are directories stay apart, so that Unlink, which takes whatever   *)
(* has the name, fails on a directory only when there was no reference.    *)
(* What mkdir and rename refuse holds at the step; that it still holds at  *)
(* the rename, when the directory may have been removed since, is because  *)
(* the temporary file keeps the directories of its reference.              *)
(***************************************************************************)
FilesApart == \A f \in Files : AsDir(f) \notin dirs /\ ParentDirs(f) \subseteq dirs

LEMMA ApartNext ==
  ASSUME Shape, FilesApart, [Next]_vars
  PROVE  FilesApart'
<1> USE RefNamesAssumption DEF Goto, fs
<1>1. ASSUME UNCHANGED dirs, \A f \in Paths : link'[f] # None => link[f] # None
      PROVE  FilesApart'
  BY <1>1 DEF FilesApart, Files
<1>2. ASSUME UNCHANGED <<link, dirs>> PROVE FilesApart'
  BY <1>1, <1>2
<1>3. ASSUME NEW p \in Procs, Mkdir(p) PROVE FilesApart'
  <2>1. CASE NoFileAbove(job[p].name)
    <3>1. link' = link /\ dirs' = dirs \cup ParentDirs(job[p].name)
      BY <1>3, <2>1 DEF Mkdir
    <3>2. Files' = Files
      BY <3>1 DEF Files
    <3> QED
      BY <2>1, <3>1, <3>2 DEF FilesApart, NoFileAbove
  <2> QED
    BY <1>2, <1>3, <2>1 DEF Mkdir
<1>4. ASSUME NEW p \in Procs, OpenTmp(p) PROVE FilesApart'
  <2>1. pc[p] = "open" /\ NoFileAbove(job[p].name) /\ dirs' = dirs \cup ParentDirs(job[p].name)
    BY <1>4 DEF OpenTmp
  <2>2. PICK s \in TmpSuffixes(p) : \E i : link' = [link EXCEPT ![TmpName(job[p].name, s)] = i]
    BY <1>4 DEF OpenTmp
  <2>3. PICK n \in Names : n = job[p].name
    BY <2>1, OwnNames
  <2>4. PICK t : t = TmpName(n, s)
    OBVIOUS
  <2>5. t \in Paths /\ ParentDirs(t) = ParentDirs(n) /\ AsDir(t) \notin AllDirs
    BY <2>4, SuffixFacts, TmpFacts
  <2>6. Files' \subseteq Files \cup {t}
    BY <2>2, <2>3, <2>4 DEF Files, Shape, Typed
  <2>7. dirs' \subseteq AllDirs
    <3>1. ParentDirs(n) \subseteq AllDirs /\ dirs \subseteq AllDirs
      BY DEF Shape, Typed, AllDirs
    <3> QED
      BY <2>1, <2>3, <3>1
  <2>8. \A f \in Files : AsDir(f) \notin dirs' /\ ParentDirs(f) \subseteq dirs'
    BY <2>1 DEF FilesApart, NoFileAbove
  <2>9. AsDir(t) \notin dirs' /\ ParentDirs(t) \subseteq dirs'
    BY <2>1, <2>3, <2>5, <2>7
  <2> QED
    BY <2>6, <2>8, <2>9 DEF FilesApart
<1>5. ASSUME NEW p \in Procs, Commit(p) PROVE FilesApart'
  <2>1. CASE CanRename(p)
    <3>1. PICK t, n : t = tmp[p] /\ n = job[p].name
      OBVIOUS
    <3>2. /\ pc[p] = "rename" /\ link' = [link EXCEPT ![n] = link[t], ![t] = None] /\ dirs' = dirs
          /\ link[t] # None /\ AsDir(n) \notin dirs
      BY <1>5, <2>1, <3>1 DEF Commit, CanRename
    <3>3. t \in Paths /\ n \in Paths /\ ParentDirs(t) = ParentDirs(n)
      BY <3>1, <3>2, OwnNames DEF HasTmp
    <3>4. Files' \subseteq Files \cup {n} /\ t \in Files
      BY <3>2, <3>3 DEF Files, Shape, Typed
    <3> QED
      BY <3>2, <3>3, <3>4 DEF FilesApart
  <2> QED
    BY <1>2, <1>5, <2>1 DEF Commit
<1>6. ASSUME NEW p \in Procs, Rollback(p) PROVE FilesApart'
  <2>1. dirs' = dirs /\ link' = [link EXCEPT ![tmp[p]] = None]
    BY <1>6 DEF Rollback
  <2> QED
    BY <1>1, <2>1 DEF Shape, Typed
<1>7. ASSUME NEW p \in Procs, Unlink(p) PROVE FilesApart'
  <2>1. PICK d : d = AsDir(job[p].name)
    OBVIOUS
  <2>2. /\ link' = [link EXCEPT ![job[p].name] = None]
        /\ dirs' = IF d \in dirs /\ IsEmptyDir(d) THEN dirs \ {d} ELSE dirs
    BY <1>7, <2>1 DEF Unlink
  <2>3. Files' \subseteq Files
    BY <2>2 DEF Files, Shape, Typed
  <2>4. IsEmptyDir(d) => \A f \in Files : d \notin ParentDirs(f)
    BY DEF IsEmptyDir
  <2> QED
    BY <2>2, <2>3, <2>4 DEF FilesApart
<1> QED
  BY <1>2, <1>3, <1>4, <1>5, <1>6, <1>7
     DEF Next, Step, vars, BeginOp, Lookup, OpenFails, WriteLine, LookAgain, ListEntry,
         ListEnd, Crash, Finished

(***************************************************************************)
(* What follows needs temporary names of one's own, hence no NUL drawn.    *)
(* NoLitter is about a quiet moment; at every other one, a temporary file  *)
(* belongs to the process whose print() will rename or remove it, or to    *)
(* one that was killed.                                                    *)
(***************************************************************************)
OwnTmpNames == "nul" \notin Faults

Owned(f) == f.tmp \in Procs /\ pc[f.tmp] \in HasTmp /\ tmp[f.tmp] = f
TmpsOwned == \A f \in Files : f.tmp # "" => f.tmp \in crashed \/ Owned(f)

LEMMA OwnTmp ==
  ASSUME OwnTmpNames, Shape, NEW p \in Procs, pc[p] \in HasTmp
  PROVE  /\ tmp[p] = TmpName(job[p].name, p) /\ tmp[p].tmp = p
         /\ tmp[p] \in Paths /\ tmp[p] \notin Names /\ job[p].name \in Names
<1>1. tmp[p] = TmpName(job[p].name, p)
  BY DEF OwnTmpNames, Shape, Local, TmpSuffixes
<1>2. job[p].name \in Names
  BY OwnNames DEF HasTmp
<1>3. PICK n \in Names : n = job[p].name
  BY <1>2
<1>4. TmpName(n, p) \in Paths \ Names /\ TmpName(n, p).tmp = p
  BY TmpFacts
<1> QED
  BY <1>1, <1>3, <1>4

LEMMA OwnedNext ==
  ASSUME OwnTmpNames, Shape, TmpsOwned, [Next]_vars
  PROVE  TmpsOwned'
<1> USE RefNamesAssumption DEF Goto, fs
(* p steps, no file appears but perhaps a reference. *)
<1>1. ASSUME NEW p \in Procs, crashed \subseteq crashed',
             \A f \in Files' : f.tmp = "" \/ f \in Files,
             \A q \in Procs \ {p} : pc'[q] = pc[q] /\ tmp'[q] = tmp[q],
             \/ pc'[p] \in HasTmp /\ tmp'[p] = tmp[p]
             \/ pc[p] \notin HasTmp
             \/ p \in crashed'
             \/ tmp[p] \notin Files'
      PROVE  TmpsOwned'
  <2> SUFFICES ASSUME NEW f \in Files', f.tmp # "", f.tmp \notin crashed'
               PROVE  Owned(f)'
    BY DEF TmpsOwned
  <2>1. f \in Files /\ Owned(f)
    BY <1>1 DEF TmpsOwned
  <2> QED
    BY <1>1, <2>1 DEF Owned
<1>2. ASSUME NEW p \in Procs, NEW r, Return(p, r), UNCHANGED <<link, crashed>>, pc[p] \notin HasTmp
      PROVE  TmpsOwned'
  <2>1. \A q \in Procs \ {p} : pc'[q] = pc[q] /\ tmp'[q] = tmp[q]
    BY <1>2 DEF Return, Shape, Typed
  <2>2. Files' = Files
    BY <1>2 DEF Files
  <2> QED
    BY <1>1, <1>2, <2>1, <2>2
(* No file and no temporary name changes. *)
<1>3. ASSUME NEW p \in Procs, NEW s, pc' = [pc EXCEPT ![p] = s], UNCHANGED <<link, tmp, crashed>>,
             s \in HasTmp \/ pc[p] \notin HasTmp
      PROVE  TmpsOwned'
  <2>1. Files' = Files /\ pc'[p] = s /\ \A q \in Procs \ {p} : pc'[q] = pc[q]
    BY <1>3 DEF Files, Shape, Typed
  <2> QED
    BY <1>1, <1>3, <2>1
<1>4. ASSUME UNCHANGED <<link, tmp, crashed, pc>> PROVE TmpsOwned'
  BY <1>4 DEF TmpsOwned, Owned, Files
<1>5. ASSUME NEW p \in Procs, NEW o \in Ops, BeginOp(p, o) PROVE TmpsOwned'
  BY <1>3, <1>5 DEF BeginOp, HasTmp
<1>6. ASSUME NEW p \in Procs, Lookup(p) PROVE TmpsOwned'
  <2>1. CASE Refuses(job[p], LookupPath(job[p].name))
    BY <1>2, <1>6, <2>1 DEF Lookup, HasTmp
  <2> QED
    BY <1>3, <1>6, <2>1 DEF Lookup, HasTmp
<1>7. ASSUME NEW p \in Procs, Mkdir(p) PROVE TmpsOwned'
  BY <1>2, <1>3, <1>7 DEF Mkdir, HasTmp
<1>8. ASSUME NEW p \in Procs, OpenTmp(p) PROVE TmpsOwned'
  <2>1. PICK s \in TmpSuffixes(p) :
          /\ \E i : link' = [link EXCEPT ![TmpName(job[p].name, s)] = i]
          /\ tmp' = [tmp EXCEPT ![p] = TmpName(job[p].name, s)]
    BY <1>8 DEF OpenTmp
  <2>2. PICK t : t = TmpName(job[p].name, s)
    OBVIOUS
  <2>3. pc[p] = "open" /\ pc'[p] = "write" /\ tmp'[p] = t /\ UNCHANGED crashed
    BY <1>8, <2>1, <2>2 DEF OpenTmp, Shape, Typed
  <2>4. s = p /\ job[p].name \in Names
    BY <2>3, OwnNames DEF OwnTmpNames, TmpSuffixes
  <2>5. t.tmp = p
    BY <2>2, <2>4, TmpFacts
  <2>6. Files' \subseteq Files \cup {t}
    BY <2>1, <2>2 DEF Files, Shape, Typed
  <2>7. \A q \in Procs \ {p} : pc'[q] = pc[q] /\ tmp'[q] = tmp[q]
    BY <1>8, <2>1 DEF OpenTmp, Shape, Typed
  <2> SUFFICES ASSUME NEW f \in Files', f.tmp # "", f.tmp \notin crashed'
               PROVE  Owned(f)'
    BY DEF TmpsOwned
  <2>8. CASE f = t
    BY <2>3, <2>5, <2>8 DEF Owned, HasTmp
  <2>9. CASE f # t
    BY <2>3, <2>6, <2>7, <2>9 DEF TmpsOwned, Owned, HasTmp
  <2> QED
    BY <2>8, <2>9
<1>9. ASSUME NEW p \in Procs, OpenFails(p) PROVE TmpsOwned'
  BY <1>2, <1>9 DEF OpenFails, HasTmp
<1>10. ASSUME NEW p \in Procs, WriteLine(p) PROVE TmpsOwned'
  BY <1>3, <1>10 DEF WriteLine, HasTmp
<1>11. ASSUME NEW p \in Procs, Commit(p) PROVE TmpsOwned'
  <2>1. CASE CanRename(p)
    <3>1. PICK t, n : t = tmp[p] /\ n = job[p].name
      OBVIOUS
    <3>2. /\ pc[p] = "rename" /\ link' = [link EXCEPT ![n] = link[t], ![t] = None]
          /\ Return(p, "ok") /\ crashed' = crashed
      BY <1>11, <2>1, <3>1 DEF Commit
    <3>3. t \in Paths /\ n \in Paths /\ t # n /\ n.tmp = ""
      BY <3>1, <3>2, OwnNames DEF HasTmp
    <3>4. t \notin Files' /\ Files' \subseteq Files \cup {n}
      BY <3>2, <3>3 DEF Files, Shape, Typed
    <3>5. \A q \in Procs \ {p} : pc'[q] = pc[q] /\ tmp'[q] = tmp[q]
      BY <3>2 DEF Return, Shape, Typed
    <3> QED
      BY <1>1, <3>1, <3>2, <3>3, <3>4, <3>5
  <2> QED
    BY <1>3, <1>11, <2>1 DEF Commit, HasTmp
<1>12. ASSUME NEW p \in Procs, Rollback(p) PROVE TmpsOwned'
  <2>1. PICK t : t = tmp[p]
    OBVIOUS
  <2>2. link' = [link EXCEPT ![t] = None] /\ Return(p, "error") /\ crashed' = crashed
    BY <1>12, <2>1 DEF Rollback
  <2>3. t \notin Files' /\ Files' \subseteq Files
    BY <2>2 DEF Files, Shape, Typed
  <2>4. \A q \in Procs \ {p} : pc'[q] = pc[q] /\ tmp'[q] = tmp[q]
    BY <2>2 DEF Return, Shape, Typed
  <2> QED
    BY <1>1, <2>1, <2>2, <2>3, <2>4
<1>13. ASSUME NEW p \in Procs, LookAgain(p) PROVE TmpsOwned'
  BY <1>2, <1>3, <1>13 DEF LookAgain, HasTmp
<1>14. ASSUME NEW p \in Procs, Unlink(p) PROVE TmpsOwned'
  <2>1. PICK r : Return(p, r)
    BY <1>14 DEF Unlink
  <2>2. pc[p] = "unlink" /\ link' = [link EXCEPT ![job[p].name] = None] /\ crashed' = crashed
    BY <1>14 DEF Unlink
  <2>3. Files' \subseteq Files
    BY <2>2 DEF Files, Shape, Typed
  <2>4. \A q \in Procs \ {p} : pc'[q] = pc[q] /\ tmp'[q] = tmp[q]
    BY <2>1 DEF Return, Shape, Typed
  <2> QED
    BY <1>1, <2>2, <2>3, <2>4 DEF HasTmp
<1>15. ASSUME NEW p \in Procs, ListEntry(p) PROVE TmpsOwned'
  BY <1>4, <1>15 DEF ListEntry
<1>16. ASSUME NEW p \in Procs, ListEnd(p) PROVE TmpsOwned'
  BY <1>2, <1>16 DEF ListEnd, HasTmp
<1>17. ASSUME NEW p \in Procs, Crash(p) PROVE TmpsOwned'
  <2>1. p \in crashed' /\ crashed \subseteq crashed' /\ link' = link /\ Return(p, "error")
    BY <1>17 DEF Crash
  <2>2. \A q \in Procs \ {p} : pc'[q] = pc[q] /\ tmp'[q] = tmp[q]
    BY <2>1 DEF Return, Shape, Typed
  <2>3. Files' = Files
    BY <2>1 DEF Files
  <2> QED
    BY <1>1, <2>1, <2>2, <2>3
<1> QED
  BY <1>4, <1>5, <1>6, <1>7, <1>8, <1>9, <1>10, <1>11, <1>12, <1>13, <1>14, <1>15,
     <1>16, <1>17
     DEF Next, Step, vars, Finished

(* Once all is quiet, only killed processes have left temporary files.      *)
THEOREM LitterCorrect ==
  ASSUME OwnTmpNames
  PROVE  Spec => []NoLitter
<1>1. Init => TmpsOwned
  BY DEF Init, TmpsOwned, Files
<1>2. TmpsOwned => NoLitter
  BY DEF TmpsOwned, Owned, NoLitter, HasTmp
<1>3. Shape /\ TmpsOwned /\ [Next]_vars => (Shape /\ TmpsOwned)'
  BY ShapeNext, OwnedNext
<1> QED
  BY <1>1, <1>2, <1>3, ShapeInit, PTL DEF Spec

(***************************************************************************)
(* The store implements AtomicRefs: no name shares its file with another,  *)
(* a process that has a temporary file is the only one to write to it, and *)
(* what it renames holds its line.                                         *)
(***************************************************************************)
OneName == \A f, g \in Paths : link[f] # None /\ link[f] = link[g] => f = g

Kept(p) ==
    /\ pc[p] \in HasTmp => link[tmp[p]] # None
    /\ pc[p] = "write" => link[tmp[p]] = fd[p]
    /\ pc[p] = "rename" => data[link[tmp[p]]] = job[p].val

FileInv == OneName /\ \A p \in Procs : Kept(p)

Refs == [n \in Names |-> LookupPath(n)]

LEMMA FileInit == Init => FileInv
  BY DEF Init, FileInv, OneName, Kept, HasTmp

LEMMA RefsInit == Init => Abstract!AInit
<1> SUFFICES ASSUME Init PROVE Abstract!AInit
  OBVIOUS
<1>1. [n \in Names |-> LookupPath(n)] = [n \in Names |-> None]
  BY DEF Init, LookupPath, Paths
<1> QED
  BY <1>1 DEF Init, Abstract!AInit

(* A name that stands for the same file, with the same line, is the same    *)
(* reference.                                                               *)
Same(f) == link'[f] = link[f] /\ (link[f] # None => data'[link[f]] = data[link[f]])

LEMMA SameRef ==
  ASSUME NEW f, Same(f) PROVE LookupPath(f)' = LookupPath(f)
  BY DEF Same, LookupPath

LEMMA SameRefs ==
  ASSUME \A n \in Names : Same(n) PROVE Refs' = Refs
<1>1. \A n \in Names : LookupPath(n)' = LookupPath(n)
  BY SameRef
<1> QED
  BY <1>1 DEF Refs

(* What others do leaves a temporary file alone.                            *)
LEMMA KeptStays ==
  ASSUME OwnTmpNames, Shape, FileInv, NEW q \in Procs,
         pc'[q] = pc[q], job'[q] = job[q], tmp'[q] = tmp[q], fd'[q] = fd[q],
         pc[q] \in HasTmp => Same(tmp[q])
  PROVE  Kept(q)'
  BY DEF FileInv, Kept, Same, HasTmp

(* A call of p that returns, and what it means for AtomicRefs.              *)
LEMMA ReturnQuits ==
  ASSUME Shape, NEW p \in Procs, pc[p] # "idle", NEW r, Return(p, r), Refs' = Refs,
         r # "error" => r = "ok" /\ job[p].op = "list"
  PROVE  [Abstract!ANext]_(Abstract!avars)
<1>1. job[p] # None /\ job' = [job EXCEPT ![p] = None] /\ res' = [res EXCEPT ![p] = r]
  BY OwnNames DEF Return
<1>2. [n \in Names |-> LookupPath(n)]' = [n \in Names |-> LookupPath(n)]
  BY DEF Refs
<1>3. r \in IF job[p].op = "list" THEN {"ok", "error"} ELSE {"error"}
  OBVIOUS
<1>4. Abstract!Quit(p)
  BY <1>1, <1>2, <1>3 DEF Abstract!Quit
<1> QED
  BY <1>4 DEF Abstract!ANext

LEMMA ReturnApplies ==
  ASSUME Shape, NEW p \in Procs, pc[p] # "idle", job[p].op # "list", Return(p, "ok"),
         Refs' = [Refs EXCEPT ![job[p].name] = job[p].val]
  PROVE  [Abstract!ANext]_(Abstract!avars)
<1>1. job[p] # None /\ job' = [job EXCEPT ![p] = None] /\ res' = [res EXCEPT ![p] = "ok"]
  BY OwnNames DEF Return
<1>2. [n \in Names |-> LookupPath(n)]' =
         [[n \in Names |-> LookupPath(n)] EXCEPT ![job[p].name] = job[p].val]
  BY DEF Refs
<1>3. Abstract!Apply(p)
  BY <1>1, <1>2 DEF Abstract!Apply
<1> QED
  BY <1>3 DEF Abstract!ANext

(* Every step keeps the files in order and is a step of AtomicRefs or none. *)
LEMMA RefsNext ==
  ASSUME OwnTmpNames, Shape, FilesApart, FileInv, [Next]_vars
  PROVE  FileInv' /\ [Abstract!ANext]_(Abstract!avars)
<1> DEFINE Goal == FileInv' /\ [Abstract!ANext]_(Abstract!avars)
           Others(p) == \A q \in Procs \ {p} : /\ pc'[q] = pc[q] /\ job'[q] = job[q]
                                               /\ tmp'[q] = tmp[q] /\ fd'[q] = fd[q]
<1> USE DEF Goto, fs
<1>0. /\ \A n \in Names : n \in Paths /\ n.tmp = ""
      /\ \A q \in Procs : pc[q] \in HasTmp =>
            tmp[q] \in Paths /\ tmp[q] \notin Names /\ tmp[q].tmp = q
  <2>1. \A n \in Names : n \in Paths /\ n.tmp = ""
    <3>1. \A n \in Names : n \in Paths
      BY DEF Paths
    <3> QED
      BY <3>1, RefNamesAssumption
  <2>2. \A q \in Procs : pc[q] \in HasTmp =>
            tmp[q] \in Paths /\ tmp[q] \notin Names /\ tmp[q].tmp = q
    BY OwnTmp
  <2> QED
    BY <2>1, <2>2
<1>one. OneName
  BY DEF FileInv
<1>1. ASSUME Refs' = Refs, UNCHANGED <<job, res>> PROVE [Abstract!ANext]_(Abstract!avars)
  BY <1>1 DEF Abstract!avars, Refs
<1>2. ASSUME NEW p \in Procs, Others(p), UNCHANGED <<link, data>>, pc'[p] \notin HasTmp
      PROVE  FileInv' /\ Refs' = Refs
  <2>1. \A f \in Paths : Same(f)
    BY <1>2 DEF Same
  <2>2. \A q \in Procs \ {p} : Kept(q)'
    BY <1>0, <1>2, <2>1, KeptStays
  <2>3. Kept(p)'
    BY <1>2 DEF Kept, HasTmp
  <2>4. OneName'
    BY <1>2 DEF FileInv, OneName
  <2>5. Refs' = Refs
    BY <1>0, <2>1, SameRefs
  <2> QED
    BY <2>2, <2>3, <2>4, <2>5 DEF FileInv
<1>3. ASSUME NEW p \in Procs, NEW r, Return(p, r), UNCHANGED <<link, data>>, pc[p] # "idle",
             r # "error" => r = "ok" /\ job[p].op = "list"
      PROVE  Goal
  <2>1. Others(p) /\ pc'[p] \notin HasTmp
    BY <1>3 DEF Return, Shape, Typed, HasTmp
  <2> QED
    BY <1>2, <1>3, <2>1, ReturnQuits
<1>4. ASSUME NEW p \in Procs, NEW s, pc' = [pc EXCEPT ![p] = s], s \notin HasTmp,
             UNCHANGED <<link, data, job, tmp, fd, res>>
      PROVE  Goal
  <2>1. Others(p) /\ pc'[p] \notin HasTmp
    BY <1>4 DEF Shape, Typed
  <2> QED
    BY <1>1, <1>2, <1>4, <2>1
<1>5. ASSUME UNCHANGED <<link, data, pc, job, tmp, fd, res>> PROVE Goal
  <2>1. \A f \in Paths : Same(f)
    BY <1>5 DEF Same
  <2>2. Refs' = Refs
    BY <1>0, <2>1, SameRefs
  <2>3. FileInv'
    BY <1>5 DEF FileInv, OneName, Kept
  <2> QED
    BY <1>1, <1>5, <2>2, <2>3
<1>6. ASSUME NEW p \in Procs, NEW o \in Ops, BeginOp(p, o) PROVE Goal
  <2>1. PICK s \in {"mkdir", "list", "lookup"} : pc' = [pc EXCEPT ![p] = s]
    BY <1>6 DEF BeginOp
  <2>2. /\ pc[p] = "idle" /\ job' = [job EXCEPT ![p] = o] /\ res' = [res EXCEPT ![p] = "none"]
        /\ UNCHANGED <<link, data, tmp, fd>>
    BY <1>6 DEF BeginOp
  <2>3. Others(p) /\ pc'[p] \notin HasTmp /\ job[p] = None
    BY <2>1, <2>2 DEF Shape, Typed, Local, HasTmp
  <2>4. FileInv' /\ Refs' = Refs
    BY <1>2, <2>2, <2>3
  <2>5. Abstract!Begin(p)
    BY <2>2, <2>3, <2>4 DEF Abstract!Begin, Refs
  <2> QED
    BY <2>4, <2>5 DEF Abstract!ANext
<1>7. ASSUME NEW p \in Procs, Lookup(p) PROVE Goal
  <2>1. CASE Refuses(job[p], LookupPath(job[p].name))
    BY <1>3, <1>7, <2>1 DEF Lookup
  <2>2. CASE ~ Refuses(job[p], LookupPath(job[p].name))
    <3>1. PICK s \in {"again", "mkdir"} : pc' = [pc EXCEPT ![p] = s]
      BY <1>7, <2>2 DEF Lookup
    <3> QED
      BY <1>4, <1>7, <2>2, <3>1 DEF Lookup, HasTmp
  <2> QED
    BY <2>1, <2>2
<1>8. ASSUME NEW p \in Procs, Mkdir(p) PROVE Goal
  BY <1>3, <1>4, <1>8 DEF Mkdir, HasTmp
<1>9. ASSUME NEW p \in Procs, OpenFails(p) PROVE Goal
  BY <1>3, <1>9 DEF OpenFails
<1>10. ASSUME NEW p \in Procs, LookAgain(p) PROVE Goal
  BY <1>3, <1>4, <1>10 DEF LookAgain, HasTmp
<1>11. ASSUME NEW p \in Procs, ListEntry(p) PROVE Goal
  BY <1>5, <1>11 DEF ListEntry
<1>12. ASSUME NEW p \in Procs, ListEnd(p) PROVE Goal
  BY <1>3, <1>12 DEF ListEnd, Shape, Local
<1>13. ASSUME NEW p \in Procs, Crash(p) PROVE Goal
  BY <1>3, <1>13 DEF Crash
(* A step of p at its temporary file f: nothing else changes. *)
<1>14. ASSUME NEW p \in Procs, NEW f \in Paths, f \notin Names, f.tmp = p, Others(p),
              \A g \in Paths \ {f} : Same(g), OneName', Kept(p)'
       PROVE  FileInv' /\ Refs' = Refs
  <2>1. \A n \in Names : Same(n)
    BY <1>0, <1>14
  <2>2. \A q \in Procs \ {p} : Kept(q)'
    BY <1>0, <1>14, KeptStays
  <2> QED
    BY <1>14, <2>1, <2>2, SameRefs DEF FileInv
<1>15. ASSUME NEW p \in Procs, OpenTmp(p) PROVE Goal
  <2> DEFINE Inode(t) == IF link[t] # None THEN link[t] ELSE FreeInode
  <2>1. PICK s \in TmpSuffixes(p) :
          /\ tmp' = [tmp EXCEPT ![p] = TmpName(job[p].name, s)]
          /\ fd' = [fd EXCEPT ![p] = Inode(TmpName(job[p].name, s))]
          /\ link' = [link EXCEPT ![TmpName(job[p].name, s)] = Inode(TmpName(job[p].name, s))]
          /\ data' = [data EXCEPT ![Inode(TmpName(job[p].name, s))] = Empty]
    BY <1>15 DEF OpenTmp
  <2>2. PICK t, i : t = TmpName(job[p].name, s) /\ i = Inode(t)
    OBVIOUS
  <2>3. /\ pc[p] = "open" /\ pc'[p] = "write" /\ UNCHANGED <<job, res>> /\ UsedInodes # Inodes
        /\ \A q \in Procs \ {p} : pc'[q] = pc[q]
    BY <1>15 DEF OpenTmp, Shape, Typed
  <2>4. t \in Paths /\ t \notin Names /\ t.tmp = p
    <3>1. s = p
      BY DEF OwnTmpNames, TmpSuffixes
    <3>2. PICK n \in Names : n = job[p].name
      BY <2>3, OwnNames
    <3> QED
      BY <2>2, <3>1, <3>2, TmpFacts
  <2>5. i \in Inodes /\ \A g \in Paths \ {t} : link[g] # i
    BY <2>2, <2>3, <2>4, FreeInodeIsFree DEF Shape, Typed, FileInv, OneName
  <2> HIDE DEF Inode
  <2>6. link'[t] = i /\ tmp'[p] = t /\ fd'[p] = i /\ Others(p)
    BY <2>1, <2>2, <2>3, <2>4 DEF Shape, Typed
  <2>7. \A g \in Paths \ {t} : Same(g)
    BY <2>1, <2>2, <2>5 DEF Same, Shape, Typed
  <2>8. OneName'
    <3>1. \A g \in Paths \ {t} : link'[g] = link[g]
      BY <2>7 DEF Same
    <3> QED
      BY <1>one, <2>5, <2>6, <3>1 DEF OneName
  <2>9. Kept(p)'
    BY RefNamesAssumption, <2>3, <2>5, <2>6 DEF Kept
  <2> QED
    BY <1>1, <1>14, <2>3, <2>4, <2>6, <2>7, <2>8, <2>9
<1>16. ASSUME NEW p \in Procs, WriteLine(p) PROVE Goal
  <2>1. /\ pc[p] = "write" /\ pc'[p] = "rename" /\ data' = [data EXCEPT ![fd[p]] = job[p].val]
        /\ UNCHANGED <<link, job, tmp, res>> /\ Others(p)
    BY <1>16 DEF WriteLine, Shape, Typed
  <2>2. PICK t : t = tmp[p]
    OBVIOUS
  <2>3. link[t] = fd[p] /\ fd[p] # None /\ fd[p] \in Inodes
    <3>1. link[t] = fd[p]
      BY <2>1, <2>2 DEF FileInv, Kept
    <3>2. fd[p] # None /\ fd[p] \in Inodes
      BY <2>1 DEF Shape, Typed, Local
    <3> QED
      BY <3>1, <3>2
  <2>4. t \in Paths /\ t \notin Names /\ t.tmp = p
    BY <1>0, <2>1, <2>2 DEF HasTmp
  <2>5. \A g \in Paths \ {t} : Same(g)
    <3>1. \A g \in Paths \ {t} : link[g] # fd[p]
      BY <1>one, <2>3, <2>4 DEF OneName
    <3> QED
      BY <2>1, <2>3, <3>1 DEF Same, Shape, Typed
  <2>6. OneName'
    BY <2>1 DEF FileInv, OneName
  <2>7. Kept(p)'
    BY <2>1, <2>2, <2>3 DEF Kept, Shape, Typed
  <2> QED
    BY <1>1, <1>14, <2>1, <2>4, <2>5, <2>6, <2>7
<1>17. ASSUME NEW p \in Procs, Rollback(p) PROVE Goal
  <2>1. PICK t : t = tmp[p]
    OBVIOUS
  <2>2. pc[p] = "rollback" /\ link' = [link EXCEPT ![t] = None] /\ data' = data /\ Return(p, "error")
    BY <1>17, <2>1 DEF Rollback
  <2>3. t \in Paths /\ t \notin Names /\ t.tmp = p
    BY <1>0, <2>1, <2>2 DEF HasTmp
  <2>4. Others(p) /\ pc'[p] = "idle" /\ link'[t] = None
    BY <2>2, <2>3 DEF Return, Shape, Typed
  <2>5. \A g \in Paths \ {t} : Same(g)
    BY <2>2 DEF Same, Shape, Typed
  <2>6. OneName'
    <3>1. \A g \in Paths \ {t} : link'[g] = link[g]
      BY <2>5 DEF Same
    <3> QED
      BY <1>one, <2>4, <3>1 DEF OneName
  <2>7. Kept(p)'
    BY <2>4 DEF Kept, HasTmp
  <2>8. FileInv' /\ Refs' = Refs
    BY <1>14, <2>3, <2>4, <2>5, <2>6, <2>7
  <2> QED
    BY <2>2, <2>8, ReturnQuits
(* The reference n changes, and with it at most the temporary file of p. *)
<1>18. ASSUME NEW p \in Procs, NEW n \in Names, NEW T, \A t \in T : t \notin Names /\ t.tmp = p,
              Others(p), \A g \in Paths \ ({n} \cup T) : Same(g), OneName', pc'[p] = "idle"
       PROVE  FileInv' /\ Refs' = [Refs EXCEPT ![n] = LookupPath(n)']
  <2>1. \A m \in Names \ {n} : LookupPath(m)' = LookupPath(m)
    BY <1>0, <1>18, SameRef
  <2>2. \A q \in Procs \ {p} : Kept(q)'
    BY <1>0, <1>18, KeptStays
  <2>3. Kept(p)'
    BY <1>18 DEF Kept, HasTmp
  <2> QED
    BY <1>18, <2>1, <2>2, <2>3 DEF FileInv, Refs
<1>19. ASSUME NEW p \in Procs, Commit(p), CanRename(p) PROVE Goal
  <2>1. PICK t, n : t = tmp[p] /\ n = job[p].name
    OBVIOUS
  <2>2. /\ pc[p] = "rename" /\ link' = [link EXCEPT ![n] = link[t], ![t] = None] /\ data' = data
        /\ Return(p, "ok")
    BY <1>19, <2>1 DEF Commit
  <2>3. t \in Paths /\ t \notin Names /\ t.tmp = p /\ n \in Names /\ n \in Paths
    BY <1>0, <2>1, <2>2, OwnNames DEF HasTmp
  <2>4. Others(p) /\ pc'[p] = "idle" /\ link'[t] = None /\ link'[n] = link[t]
    BY <2>2, <2>3 DEF Return, Shape, Typed
  <2>5. \A g \in Paths \ {n, t} : Same(g)
    BY <2>2 DEF Same, Shape, Typed
  <2>6. OneName'
    <3>1. \A g \in Paths \ {n, t} : link'[g] = link[g]
      BY <2>5 DEF Same
    <3> QED
      BY <1>one, <2>3, <2>4, <3>1 DEF OneName
  <2>7. job[p].val \in Values /\ job[p].op # "list"
    BY <2>2, OwnNames DEF Printing, HasTmp, Shape, Local
  <2>8. link[t] # None /\ data[link[t]] = job[p].val
    BY <2>1, <2>2 DEF FileInv, Kept, HasTmp
  <2>9. LookupPath(n)' = job[p].val
    <3>1. job[p].val # None /\ job[p].val # Empty
      BY <2>7, RefNamesAssumption DEF Empty
    <3>2. link'[n] # None /\ data'[link'[n]] = job[p].val
      BY <2>2, <2>4, <2>8
    <3> QED
      BY <3>1, <3>2 DEF LookupPath
  <2>10. FileInv' /\ Refs' = [Refs EXCEPT ![n] = job[p].val]
    <3>1. PICK T : T = {t}
      OBVIOUS
    <3>2. (\A f \in T : f \notin Names /\ f.tmp = p) /\ \A g \in Paths \ ({n} \cup T) : Same(g)
      BY <2>3, <2>5, <3>1
    <3> QED
      BY <1>18, <2>3, <2>4, <2>6, <2>9, <3>2
  <2> QED
    BY <2>1, <2>2, <2>7, <2>10, ReturnApplies
<1>20. ASSUME NEW p \in Procs, Commit(p), ~ CanRename(p) PROVE Goal
  <2>1. /\ pc[p] = "rename" /\ pc' = [pc EXCEPT ![p] = "rollback"]
        /\ UNCHANGED <<link, data, job, tmp, fd, res>>
    BY <1>20 DEF Commit
  <2>2. pc'[p] = "rollback" /\ Others(p) /\ \A f \in Paths : Same(f)
    BY <2>1 DEF Same, Shape, Typed
  <2>3. OneName' /\ Kept(p)'
    BY <2>1, <2>2 DEF FileInv, OneName, Kept, HasTmp
  <2>4. PICK t \in Paths : t \notin Names /\ t.tmp = p
    BY <1>0, <2>1 DEF HasTmp
  <2> QED
    BY <1>1, <1>14, <2>1, <2>2, <2>3, <2>4
<1>21. ASSUME NEW p \in Procs, Unlink(p) PROVE Goal
  <2>1. PICK n, d : n = job[p].name /\ d = AsDir(n)
    OBVIOUS
  <2>2. /\ pc[p] = "unlink" /\ link' = [link EXCEPT ![n] = None] /\ data' = data
        /\ Return(p, IF d \in dirs /\ ~IsEmptyDir(d) THEN "error" ELSE "ok")
    BY <1>21, <2>1 DEF Unlink
  <2>3. n \in Names /\ n \in Paths /\ job[p].val = None /\ job[p].op # "list"
    BY <2>1, <2>2, OwnNames DEF Removing, Shape, Local
  <2>4. Others(p) /\ pc'[p] = "idle" /\ link'[n] = None
    BY <2>2, <2>3 DEF Return, Shape, Typed
  <2>5. \A g \in Paths \ {n} : Same(g)
    BY <2>2 DEF Same, Shape, Typed
  <2>6. OneName'
    <3>1. \A g \in Paths \ {n} : link'[g] = link[g]
      BY <2>5 DEF Same
    <3> QED
      BY <1>one, <2>4, <3>1 DEF OneName
  <2>7. LookupPath(n)' = None
    BY <2>4 DEF LookupPath
  <2>8. FileInv' /\ Refs' = [Refs EXCEPT ![n] = None]
    <3>1. PICK T : T = {}
      OBVIOUS
    <3>2. (\A f \in T : f \notin Names /\ f.tmp = p) /\ \A g \in Paths \ ({n} \cup T) : Same(g)
      BY <2>5, <3>1
    <3> QED
      BY <1>18, <2>3, <2>4, <2>6, <2>7, <3>2
  (* A directory that is not empty: there was no reference to remove. *)
  <2>9. CASE d \in dirs /\ ~IsEmptyDir(d)
    <3>1. link[n] = None
      BY <2>1, <2>3, <2>9 DEF FilesApart, Files
    <3>2. Refs[n] = None
      BY <2>3, <3>1 DEF Refs, LookupPath
    <3>3. Refs' = Refs
      BY <2>8, <3>2 DEF Refs
    <3> QED
      BY <2>2, <2>8, <2>9, <3>3, ReturnQuits
  <2>10. CASE ~ (d \in dirs /\ ~IsEmptyDir(d))
    BY <2>1, <2>2, <2>3, <2>8, <2>10, ReturnApplies
  <2> QED
    BY <2>9, <2>10
<1> QED
  BY <1>5, <1>6, <1>7, <1>8, <1>9, <1>10, <1>11, <1>12, <1>13, <1>15, <1>16, <1>17,
     <1>19, <1>20, <1>21
     DEF Next, Step, vars, Finished

(***************************************************************************)
(* references_impl over safe_stream implements AtomicRefs, whatever other  *)
(* processes do between two of its system calls.                           *)
(***************************************************************************)
THEOREM ImplementsAtomicRefs ==
  ASSUME OwnTmpNames
  PROVE  Spec => RefinesAtomicRefs
<1> DEFINE Inv == Shape /\ FilesApart /\ FileInv
<1>1. Init => Inv
  <2>1. Init => FilesApart
    BY DEF Init, FilesApart, Files
  <2> QED
    BY <2>1, ShapeInit, FileInit
<1>2. Inv /\ [Next]_vars => Inv' /\ [Abstract!ANext]_(Abstract!avars)
  BY ShapeNext, ApartNext, RefsNext
<1> HIDE DEF Inv
<1> QED
  BY <1>1, <1>2, RefsInit, PTL DEF Spec, RefinesAtomicRefs, Abstract!ASpec
=============================================================================

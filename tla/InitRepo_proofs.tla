-------------------------- MODULE InitRepo_proofs ---------------------------
(***************************************************************************)
(* What `cov init` guarantees for any number of processes, commands, calls *)
(* that fail and processes that are killed.                                *)
(***************************************************************************)
EXTENDS InitRepo, TLAPS

Early == {"check", "remove", "prepare", "check_linked", "remove_linked"}
Making == {"build", "store"}
Where == {"idle", "abort"} \cup Early \cup Making

Head0 == <<"main", "HEAD">>
Common == {<<"main", "objects/coverage">>, <<"main", "config">>}
GitDir == <<"main", "gitdir">>
Whole == {"main"} \X (MainParts \ {"gitdir"})

(***************************************************************************)
(* What is made, and in which order: HEAD last, in both layouts.           *)
(***************************************************************************)
LEMMA MainSteps ==
  /\ Len(Steps(FALSE)) = 7
  /\ Steps(FALSE)[7] = Head0
  /\ \A i \in 1..7 : Steps(FALSE)[i] \in {"main"} \X MainParts
  /\ \A i \in 1..6 : Steps(FALSE)[i] # Head0
  /\ \A e \in Whole : \E i \in 1..7 : Steps(FALSE)[i] = e
<1>1. PICK s : s = << <<"main", "objects/pack">>, <<"main", "objects/coverage">>,
            <<"main", "refs/heads">>, <<"main", "refs/tags">>, <<"main", "gitdir">>,
            <<"main", "config">>, <<"main", "HEAD">> >>
  OBVIOUS
<1>2. /\ Len(s) = 7 /\ s[1] = <<"main", "objects/pack">> /\ s[2] = <<"main", "objects/coverage">>
      /\ s[3] = <<"main", "refs/heads">> /\ s[4] = <<"main", "refs/tags">> /\ s[5] = GitDir
      /\ s[6] = <<"main", "config">> /\ s[7] = Head0
  BY <1>1 DEF GitDir, Head0
<1>3. \A i \in 1..7 : i \in {1, 2, 3, 4, 5, 6, 7}
  OBVIOUS
<1>4. Steps(FALSE) = s
  BY <1>1 DEF Steps
<1>5. \A i \in 1..7 : s[i] \in {"main"} \X MainParts
  BY <1>2, <1>3 DEF MainParts, GitDir, Head0
<1>6. \A i \in 1..6 : s[i] # Head0
  BY <1>2, <1>3 DEF GitDir, Head0
<1>7. \A e \in Whole : e \in {s[1], s[2], s[3], s[4], s[6], s[7]}
  BY <1>2 DEF Whole, MainParts, Head0
<1>8. \A e \in Whole : \E i \in 1..7 : s[i] = e
  <2>1. 1 \in 1..7 /\ 2 \in 1..7 /\ 3 \in 1..7 /\ 4 \in 1..7 /\ 6 \in 1..7 /\ 7 \in 1..7
    OBVIOUS
  <2> QED
    BY <1>7, <2>1
<1> QED
  BY <1>2, <1>4, <1>5, <1>6, <1>8

LEMMA LinkedSteps ==
  /\ Len(Steps(TRUE)) = 6
  /\ Steps(TRUE)[1] = <<"linked", "dir">> /\ Steps(TRUE)[2] = <<"linked", "commondir">>
  /\ Steps(TRUE)[5] = <<"linked", "HEAD">> /\ Steps(TRUE)[6] = <<"wt", "covdata">>
  /\ \A i \in 1..6 : Steps(TRUE)[i] \in ({"linked"} \X LinkedParts) \cup {<<"wt", "covdata">>}
  /\ \A i \in 1..6 : Steps(TRUE)[i][2] \in WrittenLater <=> i # 1
  /\ \A i, j \in 1..6 : Steps(TRUE)[i] = Steps(TRUE)[j] => i = j
<1>1. PICK s : s = << <<"linked", "dir">>, <<"linked", "commondir">>, <<"linked", "covdir">>,
            <<"linked", "gitdir">>, <<"linked", "HEAD">>, <<"wt", "covdata">> >>
  OBVIOUS
<1>2. /\ Len(s) = 6 /\ s[1] = <<"linked", "dir">> /\ s[2] = <<"linked", "commondir">>
      /\ s[3] = <<"linked", "covdir">> /\ s[4] = <<"linked", "gitdir">>
      /\ s[5] = <<"linked", "HEAD">> /\ s[6] = <<"wt", "covdata">>
  BY <1>1
<1>3. \A i \in 1..6 : i \in {1, 2, 3, 4, 5, 6}
  OBVIOUS
<1>4. Steps(TRUE) = s
  BY <1>1 DEF Steps
<1>5. \A i \in 1..6 : s[i] \in ({"linked"} \X LinkedParts) \cup {<<"wt", "covdata">>}
  BY <1>2, <1>3 DEF LinkedParts
<1>6. \A i \in 1..6 : s[i][2] \in WrittenLater <=> i # 1
  BY <1>2, <1>3 DEF WrittenLater
<1>7. \A i, j \in 1..6 : s[i] = s[j] => i = j
  BY <1>2, <1>3
<1> QED
  BY <1>2, <1>4, <1>5, <1>6, <1>7

(* Either way, the steps are entries.                                       *)
LEMMA StepEntries ==
  ASSUME NEW w \in BOOLEAN, NEW k \in Nat, k < Len(Steps(w))
  PROVE  Steps(w)[k + 1] \in Entries /\ Len(Steps(w)) \in 0..7
<1>1. CASE w = TRUE
  <2>1. Len(Steps(w)) = 6
    BY <1>1, LinkedSteps
  <2>2. Steps(w)[k + 1] \in ({"linked"} \X LinkedParts) \cup {<<"wt", "covdata">>}
    <3>1. k + 1 \in 1..6
      BY <2>1
    <3> QED
      BY <1>1, <3>1, LinkedSteps
  <2> QED
    BY <2>1, <2>2 DEF Entries
<1>2. CASE w = FALSE
  <2>1. Len(Steps(w)) = 7
    BY <1>2, MainSteps
  <2>2. Steps(w)[k + 1] \in {"main"} \X MainParts
    <3>1. k + 1 \in 1..7
      BY <2>1
    <3> QED
      BY <1>2, <3>1, MainSteps
  <2> QED
    BY <2>1, <2>2 DEF Entries
<1> QED
  BY <1>1, <1>2

(***************************************************************************)
(* The shape of the state, and what the program counter of p says.         *)
(***************************************************************************)
Typed ==
    /\ empty \subseteq fs /\ fs \subseteq Entries
    /\ cmd \in [Procs -> Commands]
    /\ pc \in [Procs -> Where]
    /\ step \in [Procs -> 0..7]
    /\ out \in [Procs -> {"none", "ok", "file_exists", "failed", "killed"}]
    /\ inits \in 0..MaxInits /\ faults \in 0..MaxFaults
    /\ overlapped \subseteq Procs /\ torn \in BOOLEAN

Local(p) ==
    /\ pc[p] # "idle" => out[p] = "none"
    /\ pc[p] \in Early => step[p] = 0
    /\ pc[p] \in {"remove", "remove_linked"} => cmd[p].force
    /\ pc[p] \in {"prepare", "check_linked", "remove_linked"} => cmd[p].worktree
    /\ pc[p] = "remove" => ~ cmd[p].worktree
    /\ pc[p] \in Making => step[p] <= Len(Steps(cmd[p].worktree))
    /\ pc[p] = "store" => step[p] < Len(Steps(cmd[p].worktree))

Shape == Typed /\ \A p \in Procs : Local(p)

(* A command that did not run with another is alone.                        *)
Alone == \A p, q \in Procs :
            pc[p] # "idle" /\ pc[q] # "idle" /\ p \notin overlapped => p = q

(* The other processes stay where they are.                                 *)
Others(p) == \A q \in Procs \ {p} : /\ pc'[q] = pc[q] /\ cmd'[q] = cmd[q]
                                    /\ step'[q] = step[q] /\ out'[q] = out[q]

(***************************************************************************)
(* The steps, taken apart.                                                 *)
(***************************************************************************)
Next0(p) == Steps(cmd[p].worktree)[step[p] + 1]
Last(p) == Len(Steps(cmd[p].worktree))
Place(p) == IF pc[p] = "remove_linked" THEN "linked" ELSE CovDir(cmd[p])
To(p, s) == pc' = [pc EXCEPT ![p] = s]
Fault == faults' \in {faults, faults + 1}

MovesOn(p) ==      \* looks at the files and goes on
    /\ \E s \in Where \ {"store"} : To(p, s)
    /\ UNCHANGED <<fs, empty, cmd, step, out, inits, overlapped>>
Ends(p) ==         \* the command is over
    /\ To(p, "idle") /\ \E o \in {"ok", "file_exists", "failed", "killed"} :
                             out' = [out EXCEPT ![p] = o]
    /\ UNCHANGED <<fs, empty, cmd, step, inits, overlapped>>
Removes(p) ==      \* one entry goes
    /\ \E e \in Inside(Place(p)) \cap fs : fs' = fs \ {e} /\ empty' = empty \ {e}
    /\ torn' = (torn \/ Place(p) = "main")
    /\ UNCHANGED <<cmd, pc, step, out, inits, faults, overlapped>>
Makes(p) ==        \* a directory or the configuration
    /\ pc[p] = "build" /\ step[p] < Last(p) /\ Next0(p)[2] \notin WrittenLater
    /\ fs' = fs \cup {Next0(p)} /\ step' = [step EXCEPT ![p] = @ + 1]
    /\ UNCHANGED <<empty, cmd, pc, out, inits, faults, overlapped, torn>>
Opens(p) ==        \* a file that is still empty
    /\ pc[p] = "build" /\ step[p] < Last(p) /\ Next0(p)[2] \in WrittenLater
    /\ fs' = fs \cup {Next0(p)} /\ empty' = empty \cup {Next0(p)} /\ To(p, "store")
    /\ UNCHANGED <<cmd, step, out, inits, faults, overlapped, torn>>
Skips(p) ==        \* "gitdir", if it cannot be made
    /\ pc[p] = "build" /\ step[p] < Last(p) /\ Next0(p) = GitDir
    /\ step' = [step EXCEPT ![p] = @ + 1]
    /\ UNCHANGED <<fs, empty, cmd, pc, out, inits, overlapped, torn>>
Reset(p) ==        \* forgets a removal cut short only when nothing is left
    \/ torn' = torn
    \/ /\ torn' = FALSE /\ pc[p] \in {"remove", "abort"}
       /\ Place(p) = "main" /\ Active = {p} /\ Inside("main") \cap fs = {}

LEMMA RemoveCases ==
  ASSUME NEW p \in Procs, Remove(p), Shape
  PROVE  /\ pc[p] \in {"remove", "remove_linked"}
         /\ \/ Removes(p)
            \/ To(p, IF pc[p] = "remove" THEN AfterCheck(p) ELSE "build") /\ MovesOn(p)
                 /\ Reset(p) /\ faults' = faults
            \/ To(p, "abort") /\ MovesOn(p) /\ torn' = torn /\ faults < MaxFaults /\ faults' = faults + 1
<1>1. PICK place : place = IF pc[p] = "remove" THEN CovDir(cmd[p]) ELSE "linked"
  OBVIOUS
<1>2. pc[p] \in {"remove", "remove_linked"} /\ place = Place(p)
  BY <1>1 DEF Remove, Place
<1>3. \/ RemovesOne(place) /\ IsTorn(place) /\ UNCHANGED <<pc, out, faults>>
      \/ /\ Inside(place) \cap fs = {}
         /\ Goto(p, IF pc[p] = "remove" THEN AfterCheck(p) ELSE "build")
         /\ torn' = (torn /\ ~(place = "main" /\ Active = {p}))
         /\ UNCHANGED <<fs, empty, cmd, step, out, inits, faults, overlapped>>
      \/ Fails(p) /\ UNCHANGED <<fs, empty, cmd, step, out, inits, overlapped, torn>>
  BY <1>1 DEF Remove
<1>4. CASE RemovesOne(place) /\ IsTorn(place) /\ UNCHANGED <<pc, out, faults>>
  BY <1>2, <1>4 DEF RemovesOne, IsTorn, Removes
<1>5. CASE /\ Inside(place) \cap fs = {}
           /\ Goto(p, IF pc[p] = "remove" THEN AfterCheck(p) ELSE "build")
           /\ torn' = (torn /\ ~(place = "main" /\ Active = {p}))
           /\ UNCHANGED <<fs, empty, cmd, step, out, inits, faults, overlapped>>
  <2>1. PICK s \in {"prepare", "build"} : s = IF pc[p] = "remove" THEN AfterCheck(p) ELSE "build"
    BY DEF AfterCheck
  <2>2. To(p, s) /\ MovesOn(p)
    BY <1>5, <2>1 DEF Goto, To, MovesOn, Where, Early, Making
  <2>3. Reset(p)
    <3>1. CASE place = "main" /\ Active = {p}
      BY <1>1, <1>2, <1>5, <3>1 DEF Reset
    <3>2. CASE ~ (place = "main" /\ Active = {p})
      <4>1. torn \in BOOLEAN
        BY DEF Shape, Typed
      <4>2. torn' = torn
        BY <1>5, <3>2, <4>1
      <4> QED
        BY <4>2 DEF Reset
    <3> QED
      BY <3>1, <3>2
  <2> QED
    BY <1>2, <1>5, <2>1, <2>2, <2>3
<1>6. CASE Fails(p) /\ UNCHANGED <<fs, empty, cmd, step, out, inits, overlapped, torn>>
  BY <1>2, <1>6 DEF Fails, Goto, To, MovesOn, Where
<1> QED
  BY <1>3, <1>4, <1>5, <1>6

LEMMA AbortCases ==
  ASSUME NEW p \in Procs, Abort(p), Shape
  PROVE  /\ pc[p] = "abort"
         /\ \/ Removes(p)
            \/ Ends(p) /\ out'[p] # "ok" /\ Reset(p) /\ faults' = faults
            \/ Ends(p) /\ out'[p] # "ok" /\ torn' = torn /\ faults < MaxFaults /\ faults' = faults + 1
<1>1. pc[p] = "abort" /\ CovDir(cmd[p]) = Place(p)
  BY DEF Abort, Place
<1>2. \/ RemovesOne(Place(p)) /\ IsTorn(Place(p)) /\ UNCHANGED <<pc, out, faults>>
      \/ /\ Inside(Place(p)) \cap fs = {} /\ Says(p, "failed")
         /\ torn' = (torn /\ ~(Place(p) = "main" /\ Active = {p}))
         /\ UNCHANGED <<fs, empty, cmd, step, inits, faults, overlapped>>
      \/ /\ faults < MaxFaults /\ faults' = faults + 1 /\ Says(p, "failed")
         /\ UNCHANGED <<fs, empty, cmd, step, inits, overlapped, torn>>
  BY <1>1 DEF Abort
<1>3. CASE RemovesOne(Place(p)) /\ IsTorn(Place(p)) /\ UNCHANGED <<pc, out, faults>>
  BY <1>1, <1>3 DEF RemovesOne, IsTorn, Removes
<1>4. CASE /\ Inside(Place(p)) \cap fs = {} /\ Says(p, "failed")
           /\ torn' = (torn /\ ~(Place(p) = "main" /\ Active = {p}))
           /\ UNCHANGED <<fs, empty, cmd, step, inits, faults, overlapped>>
  <2>1. Ends(p) /\ out'[p] # "ok"
    BY <1>4 DEF Says, Goto, To, Ends, Shape, Typed
  <2>2. Reset(p)
    <3>1. CASE Place(p) = "main" /\ Active = {p}
      BY <1>1, <1>4, <3>1 DEF Reset
    <3>2. CASE ~ (Place(p) = "main" /\ Active = {p})
      <4>1. torn \in BOOLEAN
        BY DEF Shape, Typed
      <4>2. torn' = torn
        BY <1>4, <3>2, <4>1
      <4> QED
        BY <4>2 DEF Reset
    <3> QED
      BY <3>1, <3>2
  <2> QED
    BY <1>1, <1>4, <2>1, <2>2
<1>5. CASE /\ faults < MaxFaults /\ faults' = faults + 1 /\ Says(p, "failed")
           /\ UNCHANGED <<fs, empty, cmd, step, inits, overlapped, torn>>
  BY <1>1, <1>5 DEF Says, Goto, To, Ends, Shape, Typed
<1> QED
  BY <1>2, <1>3, <1>4, <1>5

LEMMA BuildCases ==
  ASSUME NEW p \in Procs, Build(p), Shape
  PROVE  /\ pc[p] = "build"
         /\ \/ Ends(p) /\ step[p] = Last(p) /\ out'[p] = "ok" /\ UNCHANGED <<torn, faults>>
            \/ Makes(p) \/ Opens(p)
            \/ step[p] < Last(p) /\ To(p, "abort") /\ MovesOn(p) /\ torn' = torn /\ Fault
                 /\ faults' <= MaxFaults
            \/ Skips(p) /\ Fault /\ faults' <= MaxFaults
<1> DEFINE openable == Next0(p)[2] \in WrittenLater \cup {"config"} => CanOpen(Next0(p)[1])
<1> HIDE DEF openable
<1>0. faults \in Nat /\ faults <= MaxFaults /\ MaxFaults \in Nat
  BY InitRepoAssumption DEF Shape, Typed
<1>1. /\ pc[p] = "build" /\ UNCHANGED <<cmd, inits, overlapped, torn>>
      /\ \/ /\ step[p] = Last(p) /\ Says(p, "ok") /\ UNCHANGED <<fs, empty, step, faults>>
         \/ /\ step[p] < Last(p) /\ Next0(p)[2] \notin WrittenLater
            /\ fs' = fs \cup {Next0(p)} /\ Advance(p)
            /\ UNCHANGED <<pc, empty, out, faults>>
         \/ /\ step[p] < Last(p) /\ Next0(p)[2] \in WrittenLater
            /\ fs' = fs \cup {Next0(p)} /\ empty' = empty \cup {Next0(p)}
            /\ Goto(p, "store")
            /\ UNCHANGED <<step, out, faults>>
         \/ /\ step[p] < Last(p) /\ Goto(p, "abort")
            /\ UNCHANGED <<fs, empty, step, out, faults>>
         \/ /\ step[p] < Last(p) /\ Fails(p)
            /\ UNCHANGED <<fs, empty, step, out>>
         \/ /\ step[p] < Last(p) /\ Next0(p) = GitDir
            /\ (openable => faults < MaxFaults)
            /\ faults' = IF openable THEN faults + 1 ELSE faults
            /\ Advance(p)
            /\ UNCHANGED <<fs, empty, pc, out>>
  BY DEF Build, Next0, Last, GitDir, openable
<1>2. CASE step[p] = Last(p) /\ Says(p, "ok") /\ UNCHANGED <<fs, empty, step, faults>>
  BY <1>1, <1>2 DEF Says, Goto, To, Ends, Shape, Typed
<1>3. CASE /\ step[p] < Last(p) /\ Next0(p)[2] \notin WrittenLater
           /\ fs' = fs \cup {Next0(p)} /\ Advance(p)
           /\ UNCHANGED <<pc, empty, out, faults>>
  BY <1>1, <1>3 DEF Makes, Advance
<1>4. CASE /\ step[p] < Last(p) /\ Next0(p)[2] \in WrittenLater
           /\ fs' = fs \cup {Next0(p)} /\ empty' = empty \cup {Next0(p)}
           /\ Goto(p, "store")
           /\ UNCHANGED <<step, out, faults>>
  BY <1>1, <1>4 DEF Opens, Goto, To
<1>5. CASE /\ step[p] < Last(p) /\ Goto(p, "abort")
           /\ UNCHANGED <<fs, empty, step, out, faults>>
  BY <1>0, <1>1, <1>5 DEF Goto, To, MovesOn, Where, Fault
<1>6. CASE /\ step[p] < Last(p) /\ Fails(p)
           /\ UNCHANGED <<fs, empty, step, out>>
  <2>1. To(p, "abort") /\ MovesOn(p) /\ torn' = torn
    BY <1>1, <1>6 DEF Fails, Goto, To, MovesOn, Where
  <2>2. Fault /\ faults' <= MaxFaults
    BY <1>0, <1>6 DEF Fails, Fault
  <2> QED
    BY <1>1, <1>6, <2>1, <2>2
<1>7. CASE /\ step[p] < Last(p) /\ Next0(p) = GitDir
           /\ (openable => faults < MaxFaults)
           /\ faults' = IF openable THEN faults + 1 ELSE faults
           /\ Advance(p)
           /\ UNCHANGED <<fs, empty, pc, out>>
  <2>1. Skips(p)
    BY <1>1, <1>7 DEF Skips, Advance
  <2>2. Fault /\ faults' <= MaxFaults
    BY <1>0, <1>7 DEF Fault
  <2> QED
    BY <1>1, <2>1, <2>2
<1> QED
  BY <1>1, <1>2, <1>3, <1>4, <1>5, <1>6, <1>7

Stores(p) ==       \* the bytes of the open file, or not all of them
    /\ pc[p] = "store" /\ To(p, "build") /\ step' = [step EXCEPT ![p] = @ + 1]
    /\ \/ empty' = empty \ {Next0(p)} /\ faults' = faults
       \/ empty' = empty /\ faults < MaxFaults /\ faults' = faults + 1
    /\ UNCHANGED <<fs, cmd, out, inits, overlapped, torn>>

(* Where a command goes that neither makes nor removes anything.            *)
Path(p, s) ==
    \/ pc[p] = "check" /\ s = "build" /\ ~ cmd[p].worktree /\ ~ IsValidPath("main") /\ torn' = torn
    \/ pc[p] = "check" /\ s = "prepare" /\ cmd[p].worktree /\ torn' = torn
    \/ pc[p] = "check" /\ s = "remove" /\ cmd[p].force /\ ~ cmd[p].worktree /\ torn' = torn
    \/ pc[p] = "remove" /\ s = "build" /\ cmd[p].force /\ ~ cmd[p].worktree
    \/ pc[p] = "prepare" /\ s = "check_linked" /\ IsValidPath("main") /\ torn' = torn
    \/ pc[p] = "check_linked" /\ s = "build" /\ torn' = torn
    \/ pc[p] = "check_linked" /\ s = "remove_linked" /\ cmd[p].force /\ torn' = torn
    \/ pc[p] = "remove_linked" /\ s = "build" /\ torn' = torn
    \/ pc[p] \in {"remove", "remove_linked", "prepare"} /\ s = "abort" /\ torn' = torn
    \/ pc[p] = "build" /\ step[p] < Last(p) /\ s = "abort" /\ torn' = torn

GoesOn(p) == /\ MovesOn(p) /\ Reset(p) /\ Fault /\ faults' <= MaxFaults
             /\ \E s \in Where : To(p, s) /\ Path(p, s)

Stops(p) ==
    /\ Ends(p) /\ Reset(p) /\ Fault /\ faults' <= MaxFaults /\ pc[p] # "idle"
    /\ out'[p] = "ok" => pc[p] = "build" /\ step[p] = Last(p)

StepOf(p) ==
    \/ \E c \in Commands : BeginInit(p, c)
    \/ GoesOn(p) \/ Stops(p)
    \/ Removes(p) /\ pc[p] \in {"remove", "remove_linked", "abort"}
    \/ Makes(p) \/ Opens(p)
    \/ Skips(p) /\ Fault /\ faults' <= MaxFaults
    \/ Stores(p)

(* The arguments, and how many things there are to make.                    *)
LEMMA Arguments ==
  ASSUME Shape, NEW p \in Procs
  PROVE  /\ cmd[p].worktree \in BOOLEAN /\ cmd[p].force \in BOOLEAN
         /\ cmd[p].worktree => Last(p) = 6 /\ Steps(cmd[p].worktree) = Steps(TRUE)
         /\ ~ cmd[p].worktree => Last(p) = 7 /\ Steps(cmd[p].worktree) = Steps(FALSE)
<1>1. cmd[p].worktree \in BOOLEAN /\ cmd[p].force \in BOOLEAN
  BY DEF Shape, Typed, Commands
<1>2. CASE cmd[p].worktree = TRUE
  BY <1>1, <1>2, LinkedSteps DEF Last
<1>3. CASE cmd[p].worktree = FALSE
  BY <1>1, <1>3, MainSteps DEF Last
<1> QED
  BY <1>1, <1>2, <1>3

LEMMA WtIsNoPath == ~ IsValidPath("wt")
  BY DEF IsValidPath

LEMMA CheckCases ==
  ASSUME NEW p \in Procs, Check(p), Shape
  PROVE  GoesOn(p) \/ Stops(p)
<1>1. /\ pc[p] = "check" /\ faults \in Nat /\ faults <= MaxFaults
      /\ UNCHANGED <<fs, empty, cmd, step, inits, faults, overlapped, torn>>
  BY InitRepoAssumption DEF Check, Shape, Typed
<1>2. Reset(p) /\ Fault /\ faults' <= MaxFaults
  BY <1>1 DEF Reset, Fault
<1>3. CASE ~ IsValidPath(CovDir(cmd[p]))
  <2>1. To(p, AfterCheck(p)) /\ out' = out
    BY <1>1, <1>3 DEF Check, Goto, To
  <2>2. CASE cmd[p].worktree
    <3>1. AfterCheck(p) = "prepare"
      BY <2>2 DEF AfterCheck
    <3>2. Path(p, "prepare")
      BY <1>1, <2>2 DEF Path
    <3> QED
      BY <1>1, <1>2, <2>1, <3>1, <3>2 DEF GoesOn, MovesOn, Where, Early
  <2>3. CASE ~ cmd[p].worktree
    <3>1. AfterCheck(p) = "build" /\ CovDir(cmd[p]) = "main"
      BY <2>3 DEF AfterCheck, CovDir
    <3>2. Path(p, "build")
      BY <1>1, <1>3, <2>3, <3>1 DEF Path
    <3> QED
      BY <1>1, <1>2, <2>1, <3>1, <3>2 DEF GoesOn, MovesOn, Where, Making
  <2> QED
    BY <2>2, <2>3
<1>4. CASE IsValidPath(CovDir(cmd[p])) /\ cmd[p].force
  <2>1. To(p, "remove") /\ out' = out
    BY <1>1, <1>4 DEF Check, Goto, To
  <2>2. ~ cmd[p].worktree
    BY <1>4, WtIsNoPath DEF CovDir
  <2>3. Path(p, "remove")
    BY <1>1, <1>4, <2>2 DEF Path
  <2> QED
    BY <1>1, <1>2, <2>1, <2>3 DEF GoesOn, MovesOn, Where, Early
<1>5. CASE IsValidPath(CovDir(cmd[p])) /\ ~ cmd[p].force
  <2>1. To(p, "idle") /\ out' = [out EXCEPT ![p] = "file_exists"]
    BY <1>1, <1>5 DEF Check, Says, Goto, To
  <2>2. Ends(p)
    BY <1>1, <2>1 DEF Ends
  <2>3. out'[p] # "ok"
    BY <2>1 DEF Shape, Typed
  <2> QED
    BY <1>1, <1>2, <2>2, <2>3 DEF Stops
<1> QED
  BY <1>3, <1>4, <1>5

LEMMA PrepareCases ==
  ASSUME NEW p \in Procs, Prepare(p), Shape
  PROVE  GoesOn(p)
<1>1. /\ pc[p] = "prepare" /\ faults \in Nat /\ faults <= MaxFaults /\ MaxFaults \in Nat
      /\ UNCHANGED <<fs, empty, cmd, step, out, inits, overlapped, torn>>
  BY InitRepoAssumption DEF Prepare, Shape, Typed
<1>2. Reset(p)
  BY <1>1 DEF Reset
<1>3. CASE Discover("main") = "main" /\ Goto(p, "check_linked") /\ UNCHANGED faults
  <2>1. IsValidPath("main")
    BY <1>3 DEF Discover
  <2>2. Path(p, "check_linked")
    BY <1>1, <2>1 DEF Path
  <2> QED
    BY <1>1, <1>2, <1>3, <2>2 DEF GoesOn, MovesOn, Goto, To, Fault, Where, Early
<1>4. CASE Goto(p, "abort") /\ Fault /\ faults' <= MaxFaults
  <2>1. Path(p, "abort")
    BY <1>1 DEF Path
  <2> QED
    BY <1>1, <1>2, <1>4, <2>1 DEF GoesOn, MovesOn, Goto, To, Where
<1>5. CASE Goto(p, "abort") /\ UNCHANGED faults
  BY <1>1, <1>4, <1>5 DEF Fault
<1>6. CASE Fails(p)
  BY <1>1, <1>4, <1>6 DEF Fails, Fault
<1> QED
  BY <1>3, <1>5, <1>6 DEF Prepare

LEMMA CheckLinkedCases ==
  ASSUME NEW p \in Procs, CheckLinked(p), Shape
  PROVE  GoesOn(p) \/ Stops(p)
<1>1. /\ pc[p] = "check_linked" /\ faults \in Nat /\ faults <= MaxFaults
      /\ UNCHANGED <<fs, empty, cmd, step, inits, faults, overlapped, torn>>
  BY InitRepoAssumption DEF CheckLinked, Shape, Typed
<1>2. Reset(p) /\ Fault /\ faults' <= MaxFaults
  BY <1>1 DEF Reset, Fault
<1>3. CASE ~ IsValidPath("linked")
  <2>1. To(p, "build") /\ out' = out
    BY <1>1, <1>3 DEF CheckLinked, Goto, To
  <2>2. Path(p, "build")
    BY <1>1 DEF Path
  <2> QED
    BY <1>1, <1>2, <2>1, <2>2 DEF GoesOn, MovesOn, Where, Making
<1>4. CASE IsValidPath("linked") /\ cmd[p].force
  <2>1. To(p, "remove_linked") /\ out' = out
    BY <1>1, <1>4 DEF CheckLinked, Goto, To
  <2>2. Path(p, "remove_linked")
    BY <1>1, <1>4 DEF Path
  <2> QED
    BY <1>1, <1>2, <2>1, <2>2 DEF GoesOn, MovesOn, Where, Early
<1>5. CASE IsValidPath("linked") /\ ~ cmd[p].force
  <2>1. To(p, "idle") /\ out' = [out EXCEPT ![p] = "file_exists"]
    BY <1>1, <1>5 DEF CheckLinked, Says, Goto, To
  <2>2. Ends(p)
    BY <1>1, <2>1 DEF Ends
  <2>3. out'[p] # "ok"
    BY <2>1 DEF Shape, Typed
  <2> QED
    BY <1>1, <1>2, <2>2, <2>3 DEF Stops
<1> QED
  BY <1>3, <1>4, <1>5

LEMMA RemoveSteps ==
  ASSUME NEW p \in Procs, Remove(p), Shape
  PROVE  GoesOn(p) \/ (Removes(p) /\ pc[p] \in {"remove", "remove_linked", "abort"})
<1>1. /\ pc[p] \in {"remove", "remove_linked"} /\ faults \in Nat /\ faults <= MaxFaults
      /\ MaxFaults \in Nat /\ Local(p)
  BY RemoveCases, InitRepoAssumption DEF Shape, Typed
<1>2. CASE Removes(p)
  BY <1>1, <1>2
<1>3. CASE /\ To(p, IF pc[p] = "remove" THEN AfterCheck(p) ELSE "build") /\ MovesOn(p)
           /\ Reset(p) /\ faults' = faults
  <2>1. To(p, "build")
    BY <1>1, <1>3 DEF Local, AfterCheck
  <2>2. Path(p, "build")
    BY <1>1, <1>3 DEF Local, Path, Reset
  <2> QED
    BY <1>1, <1>3, <2>1, <2>2 DEF GoesOn, Fault, Where, Making
<1>4. CASE To(p, "abort") /\ MovesOn(p) /\ torn' = torn /\ faults < MaxFaults /\ faults' = faults + 1
  <2>1. Path(p, "abort") /\ Reset(p)
    BY <1>1, <1>4 DEF Path, Reset
  <2> QED
    BY <1>1, <1>4, <2>1 DEF GoesOn, Fault, Where
<1> QED
  BY <1>2, <1>3, <1>4, RemoveCases

LEMMA AbortSteps ==
  ASSUME NEW p \in Procs, Abort(p), Shape
  PROVE  Stops(p) \/ (Removes(p) /\ pc[p] \in {"remove", "remove_linked", "abort"})
<1>1. /\ pc[p] = "abort" /\ faults \in Nat /\ faults <= MaxFaults /\ MaxFaults \in Nat
  BY AbortCases, InitRepoAssumption DEF Shape, Typed
<1>2. CASE Removes(p)
  BY <1>1, <1>2
<1>3. CASE Ends(p) /\ out'[p] # "ok" /\ Reset(p) /\ faults' = faults
  BY <1>1, <1>3 DEF Stops, Fault
<1>4. CASE Ends(p) /\ out'[p] # "ok" /\ torn' = torn /\ faults < MaxFaults /\ faults' = faults + 1
  BY <1>1, <1>4 DEF Stops, Fault, Reset
<1> QED
  BY <1>2, <1>3, <1>4, AbortCases

LEMMA BuildSteps ==
  ASSUME NEW p \in Procs, Build(p), Shape
  PROVE  \/ Stops(p) \/ GoesOn(p) \/ Makes(p) \/ Opens(p)
         \/ Skips(p) /\ Fault /\ faults' <= MaxFaults
<1>1. /\ pc[p] = "build" /\ faults \in Nat /\ faults <= MaxFaults /\ MaxFaults \in Nat
  BY BuildCases, InitRepoAssumption DEF Shape, Typed
<1>2. CASE Ends(p) /\ step[p] = Last(p) /\ out'[p] = "ok" /\ UNCHANGED <<torn, faults>>
  BY <1>1, <1>2 DEF Stops, Fault, Reset
<1>3. CASE step[p] < Last(p) /\ To(p, "abort") /\ MovesOn(p) /\ torn' = torn /\ Fault
             /\ faults' <= MaxFaults
  <2>1. Path(p, "abort") /\ Reset(p)
    BY <1>1, <1>3 DEF Path, Reset
  <2> QED
    BY <1>3, <2>1 DEF GoesOn, Where
<1> QED
  BY <1>2, <1>3, BuildCases

(* Every step is one of these, or a command's last after all were given.    *)
LEMMA StepCases ==
  ASSUME Shape, [Next]_vars
  PROVE  (\E p \in Procs : StepOf(p)) \/ UNCHANGED vars
<1>1. CASE \E p \in Procs : \E c \in Commands : BeginInit(p, c)
  BY <1>1 DEF StepOf
<1>2. ASSUME NEW p \in Procs, Check(p) PROVE StepOf(p)
  BY <1>2, CheckCases DEF StepOf
<1>3. ASSUME NEW p \in Procs, Remove(p) PROVE StepOf(p)
  BY <1>3, RemoveSteps DEF StepOf
<1>4. ASSUME NEW p \in Procs, Prepare(p) PROVE StepOf(p)
  BY <1>4, PrepareCases DEF StepOf
<1>5. ASSUME NEW p \in Procs, CheckLinked(p) PROVE StepOf(p)
  BY <1>5, CheckLinkedCases DEF StepOf
<1>6. ASSUME NEW p \in Procs, Build(p) PROVE StepOf(p)
  BY <1>6, BuildSteps DEF StepOf
<1>7. ASSUME NEW p \in Procs, Store(p) PROVE StepOf(p)
  BY <1>7 DEF StepOf, Stores, Store, Advance, Goto, To, Next0
<1>8. ASSUME NEW p \in Procs, Abort(p) PROVE StepOf(p)
  BY <1>8, AbortSteps DEF StepOf
<1>9. ASSUME NEW p \in Procs, Kill(p) PROVE StepOf(p)
  <2>1. Ends(p) /\ torn' = torn /\ pc[p] # "idle"
    BY <1>9 DEF Kill, Says, Goto, To, Ends
  <2>2. out'[p] # "ok"
    BY <1>9 DEF Kill, Says, Shape, Typed
  <2>3. Fault /\ faults' <= MaxFaults
    BY <1>9, InitRepoAssumption DEF Kill, Fault, Shape, Typed
  <2> QED
    BY <2>1, <2>2, <2>3 DEF StepOf, Stops, Reset
<1>10. CASE Finished \/ UNCHANGED vars
  BY <1>10 DEF Finished
<1> QED
  BY <1>1, <1>2, <1>3, <1>4, <1>5, <1>6, <1>7, <1>8, <1>9, <1>10 DEF Next

-----------------------------------------------------------------------------
(***************************************************************************)
(* The shape is kept.                                                      *)
(***************************************************************************)
LEMMA KeepsOthers ==
  ASSUME Shape, NEW p \in Procs, StepOf(p)
  PROVE  Others(p)
<1> USE DEF Shape, Typed
<1>1. CASE \E c \in Commands : BeginInit(p, c)
  BY <1>1 DEF BeginInit, Goto, Others
<1>2. CASE GoesOn(p)
  BY <1>2 DEF GoesOn, MovesOn, To, Others
<1>3. CASE Stops(p)
  BY <1>3 DEF Stops, Ends, To, Others
<1>4. CASE Removes(p)
  BY <1>4 DEF Removes, Others
<1>5. CASE Makes(p)
  BY <1>5 DEF Makes, Others
<1>6. CASE Opens(p)
  BY <1>6 DEF Opens, To, Others
<1>7. CASE Skips(p)
  BY <1>7 DEF Skips, Others
<1>8. CASE Stores(p)
  BY <1>8 DEF Stores, To, Others
<1> QED
  BY <1>1, <1>2, <1>3, <1>4, <1>5, <1>6, <1>7, <1>8 DEF StepOf

LEMMA ShapeStep ==
  ASSUME Shape, NEW p \in Procs, StepOf(p)
  PROVE  Shape'
<1>1. SUFFICES Typed' /\ Local(p)'
  <2>1. ASSUME NEW q \in Procs \ {p} PROVE Local(q)'
    <3>1. pc'[q] = pc[q] /\ cmd'[q] = cmd[q] /\ step'[q] = step[q] /\ out'[q] = out[q] /\ Local(q)
      BY KeepsOthers DEF Others, Shape
    <3> QED
      BY <3>1 DEF Local
  <2> QED
    BY <2>1 DEF Shape
<1>2. Typed /\ Local(p) /\ MaxInits \in Nat /\ MaxFaults \in Nat
  BY InitRepoAssumption DEF Shape
<1>3. Last(p) \in 0..7 /\ (step[p] < Last(p) => Next0(p) \in Entries)
  <2>1. cmd[p].worktree \in BOOLEAN /\ step[p] \in Nat
    BY <1>2 DEF Typed, Commands
  <2>2. Last(p) \in 0..7
    <3>1. Last(p) = 6 \/ Last(p) = 7
      BY Arguments, Zenon
    <3> QED
      BY <3>1
  <2> QED
    BY <2>1, <2>2, StepEntries DEF Last, Next0
<1>4. ASSUME NEW c \in Commands, BeginInit(p, c) PROVE Typed' /\ Local(p)'
  <2>1. Typed'
    <3>1. overlapped' \subseteq Procs
      <4>1. CASE Active = {}
        BY <1>2, <1>4, <4>1 DEF BeginInit, Typed
      <4>2. CASE Active # {}
        BY <1>2, <1>4, <4>2 DEF BeginInit, Typed, Active
      <4> QED
        BY <4>1, <4>2
    <3> QED
      BY <1>2, <1>4, <3>1 DEF BeginInit, Goto, Typed, Where, Early
  <2>2. pc'[p] = "check" /\ step'[p] = 0 /\ out'[p] = "none"
    BY <1>2, <1>4 DEF BeginInit, Goto, Typed
  <2> QED
    BY <2>1, <2>2 DEF Local, Early, Making
<1>5. CASE GoesOn(p)
  <2>1. PICK s \in Where : To(p, s) /\ Path(p, s)
    BY <1>5 DEF GoesOn
  <2>2. torn' \in BOOLEAN /\ faults' \in 0..MaxFaults
    <3>1. faults' \in 0..MaxFaults
      BY <1>2, <1>5 DEF GoesOn, Fault, Typed
    <3>2. torn' \in BOOLEAN
      BY <1>2, <1>5 DEF GoesOn, Reset, Typed
    <3> QED
      BY <3>1, <3>2
  <2>3. Typed'
    BY <1>2, <1>5, <2>1, <2>2 DEF GoesOn, MovesOn, To, Typed
  <2>4. pc'[p] = s /\ cmd'[p] = cmd[p] /\ step'[p] = step[p] /\ out'[p] = out[p]
    BY <1>2, <1>5, <2>1 DEF GoesOn, MovesOn, To, Typed
  <2>5. pc[p] # "idle" /\ s # "store" /\ s # "check" /\ s # "idle"
    BY <2>1 DEF Path
  <2>6. Local(p)'
    BY <1>2, <1>3, <2>1, <2>4, <2>5 DEF Local, Path, Early, Making, Last, Typed
  <2> QED
    BY <2>3, <2>6
<1>6. CASE Stops(p)
  <2>1. torn' \in BOOLEAN
    BY <1>2, <1>6 DEF Stops, Reset, Typed
  <2>2. faults' \in 0..MaxFaults
    BY <1>2, <1>6 DEF Stops, Fault, Typed
  <2>3. Typed'
    BY <1>2, <1>6, <2>1, <2>2 DEF Stops, Ends, To, Typed, Where
  <2>4. pc'[p] = "idle"
    BY <1>2, <1>6 DEF Stops, Ends, To, Typed
  <2> QED
    BY <2>3, <2>4 DEF Local, Early, Making
<1>7. CASE Removes(p)
  <2>1. torn' \in BOOLEAN
    BY <1>7 DEF Removes
  <2>2. Typed'
    BY <1>2, <1>7, <2>1 DEF Removes, Typed
  <2> QED
    BY <1>2, <1>7, <2>2 DEF Removes, Local
<1>8. CASE Makes(p)
  <2>1. step'[p] = step[p] + 1 /\ step[p] \in 0..7
    BY <1>2, <1>8 DEF Makes, Typed
  <2>2. Typed'
    BY <1>2, <1>3, <1>8, <2>1 DEF Makes, Typed
  <2> QED
    BY <1>2, <1>3, <1>8, <2>1, <2>2 DEF Makes, Local, Last, Early, Making
<1>9. CASE Opens(p)
  <2>1. Typed'
    BY <1>2, <1>3, <1>9 DEF Opens, To, Typed, Where, Making
  <2>2. pc'[p] = "store"
    BY <1>2, <1>9 DEF Opens, To, Typed
  <2> QED
    BY <1>2, <1>3, <1>9, <2>1, <2>2 DEF Opens, Local, Last, Early, Making
<1>10. CASE Skips(p) /\ Fault /\ faults' <= MaxFaults
  <2>1. step'[p] = step[p] + 1 /\ step[p] \in 0..7 /\ faults' \in 0..MaxFaults
    BY <1>2, <1>10 DEF Skips, Fault, Typed
  <2>2. Typed'
    BY <1>2, <1>3, <1>10, <2>1 DEF Skips, Typed
  <2> QED
    BY <1>2, <1>3, <1>10, <2>1, <2>2 DEF Skips, Local, Last, Early, Making
<1>11. CASE Stores(p)
  <2>1. step'[p] = step[p] + 1 /\ step[p] \in 0..7 /\ faults' \in 0..MaxFaults /\ pc'[p] = "build"
    BY <1>2, <1>11 DEF Stores, To, Typed
  <2>2. step[p] < Last(p)
    BY <1>2, <1>11 DEF Stores, Local, Last
  <2>3. Typed'
    BY <1>2, <1>3, <1>11, <2>1, <2>2 DEF Stores, To, Typed, Where, Making
  <2> QED
    BY <1>2, <1>3, <1>11, <2>1, <2>2, <2>3 DEF Stores, Local, Last, Early, Making
<1> QED
  BY <1>4, <1>5, <1>6, <1>7, <1>8, <1>9, <1>10, <1>11 DEF StepOf

LEMMA AloneStep ==
  ASSUME Shape, Alone, NEW p \in Procs, StepOf(p)
  PROVE  Alone'
<1>1. CASE \E c \in Commands : BeginInit(p, c)
  <2>1. PICK c \in Commands : BeginInit(p, c)
    BY <1>1
  <2>2. pc' = [pc EXCEPT ![p] = "check"] /\ pc \in [Procs -> Where]
    BY <2>1 DEF BeginInit, Goto, Shape, Typed
  <2>3. CASE Active = {}
    BY <2>2, <2>3 DEF Active, Alone
  <2>4. CASE Active # {}
    <3>1. overlapped' = overlapped \cup Active \cup {p}
      BY <2>1, <2>4 DEF BeginInit
    <3> QED
      BY <2>2, <3>1 DEF Active, Alone
  <2> QED
    BY <2>3, <2>4
<1>2. CASE ~ \E c \in Commands : BeginInit(p, c)
  <2>1. pc[p] # "idle" /\ overlapped' = overlapped
    <3>1. CASE GoesOn(p)
      BY <3>1 DEF GoesOn, MovesOn, Path
    <3>2. CASE Stops(p)
      BY <3>2 DEF Stops, Ends
    <3>3. CASE Removes(p) /\ pc[p] \in {"remove", "remove_linked", "abort"}
      BY <3>3 DEF Removes
    <3>4. CASE Makes(p) \/ Opens(p) \/ Skips(p) \/ Stores(p)
      BY <3>4 DEF Makes, Opens, Skips, Stores
    <3> QED
      BY <1>2, <3>1, <3>2, <3>3, <3>4 DEF StepOf
  <2>2. \A q \in Procs : pc'[q] # "idle" => pc[q] # "idle"
    BY <2>1, KeepsOthers DEF Others
  <2> QED
    BY <2>1, <2>2 DEF Alone
<1> QED
  BY <1>1, <1>2

LEMMA ShapeInit == Init => Shape /\ Alone
<1> SUFFICES ASSUME Init PROVE Shape /\ Alone
  OBVIOUS
<1>1. Typed
  <2>1. [worktree |-> FALSE, force |-> FALSE] \in Commands
    BY DEF Commands
  <2>2. cmd \in [Procs -> Commands]
    BY <2>1 DEF Init
  <2>3. torn \in BOOLEAN
    BY DEF Init
  <2> QED
    BY <2>2, <2>3, InitRepoAssumption DEF Init, Typed, Where
<1>2. \A p \in Procs : Local(p)
  BY DEF Init, Local, Early, Making
<1>3. Alone
  BY DEF Init, Alone
<1> QED
  BY <1>1, <1>2, <1>3 DEF Shape

LEMMA ShapeNext ==
  ASSUME Shape, Alone, [Next]_vars
  PROVE  Shape' /\ Alone'
<1>1. CASE UNCHANGED vars
  BY <1>1 DEF vars, Shape, Typed, Local, Alone
<1>2. ASSUME NEW p \in Procs, StepOf(p) PROVE Shape' /\ Alone'
  BY <1>2, ShapeStep, AloneStep
<1> QED
  BY <1>1, <1>2, StepCases

(* TypeCorrect: the state of every process stays within its type.           *)
THEOREM TypeCorrect == Spec => []TypeOK
<1>1. Init => Shape /\ Alone
  BY ShapeInit
<1>2. Shape /\ Alone /\ [Next]_vars => (Shape /\ Alone)'
  BY ShapeNext
<1>3. Shape => TypeOK
  <2>1. Where = {"idle", "check", "remove", "prepare", "check_linked",
                 "remove_linked", "build", "store", "abort"}
    BY DEF Where, Early, Making
  <2> QED
    BY <2>1 DEF Shape, Typed, TypeOK
<1> QED
  BY <1>1, <1>2, <1>3, PTL DEF Spec

-----------------------------------------------------------------------------
(***************************************************************************)
(* The main directory.  What an init has reached, and that only the last   *)
(* step makes HEAD: so a directory with a HEAD is whole, as long as no     *)
(* removal was cut short, and an init that is alone and fails has found no *)
(* HEAD and made none.                                                     *)
(***************************************************************************)
Reach(p) == IF pc[p] = "store" THEN step[p] + 1 ELSE step[p]
Unmade(p) == \/ pc[p] = "abort"
             \/ pc[p] = "build" /\ step[p] < 7
             \/ pc[p] = "store" /\ step[p] < 6

HeadLast == Head0 \in fs => Whole \subseteq fs
Reached(p) == pc[p] \in Making /\ ~ cmd[p].worktree =>
                \A i \in 1..7 : i <= Reach(p) => Steps(FALSE)[i] \in fs \cup {GitDir}
NoHeadYet(p) == p \notin overlapped /\ ~ cmd[p].worktree /\ ~ cmd[p].force /\ Unmade(p) =>
                  Head0 \notin fs
MainInv == ~ torn => HeadLast /\ \A p \in Procs : Reached(p) /\ NoHeadYet(p)

(* What is_valid_path looks at in the main directory.                       *)
LEMMA ValidMain == IsValidPath("main") <=> Common \subseteq fs /\ Head0 \in fs
<1>1. TrueBase("main") = "main"
  BY DEF TrueBase
<1> QED
  BY <1>1 DEF IsValidPath, Has, Common, Head0

LEMMA ValidMainNext == IsValidPath("main")' <=> Common \subseteq fs' /\ Head0 \in fs'
<1>1. TrueBase("main")' = "main"
  BY DEF TrueBase
<1> QED
  BY <1>1 DEF IsValidPath, Has, Common, Head0

LEMMA CommonIsPart == Common \subseteq Whole /\ Head0 \in Whole /\ GitDir \notin Whole
                      /\ Whole \subseteq Inside("main")
  BY DEF Common, Whole, Head0, GitDir, MainParts, Inside, Entries

(* Removing what belongs to the worktree leaves the main directory alone.   *)
LEMMA OtherPlaces ==
  ASSUME NEW place, place # "main"
  PROVE  Inside(place) \cap ({"main"} \X MainParts) = {}
  BY DEF Inside

(* What p does to the main directory when it makes something.               *)
LEMMA MadeInMain ==
  ASSUME Shape, NEW p \in Procs, step[p] < Last(p), pc[p] \in Making
  PROVE  /\ cmd[p].worktree => Next0(p) \notin {"main"} \X MainParts
         /\ ~ cmd[p].worktree => Next0(p) = Steps(FALSE)[step[p] + 1] /\ Last(p) = 7
         /\ Next0(p) = Head0 => ~ cmd[p].worktree /\ step[p] = 6
<1>1. step[p] \in Nat
  BY DEF Shape, Typed
<1>2. CASE cmd[p].worktree
  <2>1. Last(p) = 6 /\ Next0(p) = Steps(TRUE)[step[p] + 1]
    BY <1>2, Arguments DEF Next0
  <2>2. step[p] + 1 \in 1..6
    BY <1>1, <2>1
  <2>3. Next0(p) \in ({"linked"} \X LinkedParts) \cup {<<"wt", "covdata">>}
    BY <2>1, <2>2, LinkedSteps
  <2>4. Next0(p)[1] # "main"
    BY <2>3
  <2> QED
    BY <1>2, <2>4 DEF Head0
<1>3. CASE ~ cmd[p].worktree
  <2>1. Last(p) = 7 /\ Next0(p) = Steps(FALSE)[step[p] + 1]
    BY <1>3, Arguments DEF Next0
  <2>2. step[p] # 6 => step[p] + 1 \in 1..6
    BY <1>1, <2>1
  <2>3. Next0(p) = Head0 => step[p] = 6
    BY <2>1, <2>2, MainSteps
  <2> QED
    BY <1>3, <2>1, <2>3
<1> QED
  BY <1>2, <1>3

(* The processes that stay where they are, while files are only added.      *)
LEMMA MainOthers ==
  ASSUME Shape, Alone, NEW p \in Procs, NEW q \in Procs \ {p}, Others(p),
         Reached(q), NoHeadYet(q), fs \subseteq fs', pc[p] # "idle", overlapped' = overlapped
  PROVE  Reached(q)' /\ NoHeadYet(q)'
<1>1. pc'[q] = pc[q] /\ cmd'[q] = cmd[q] /\ step'[q] = step[q]
  BY DEF Others
<1>2. Reached(q)'
  BY <1>1 DEF Reached, Reach
<1>3. Unmade(q)' => q \in overlapped
  BY <1>1 DEF Unmade, Alone
<1> QED
  BY <1>2, <1>3 DEF NoHeadYet

LEMMA MainStep ==
  ASSUME Shape, Alone, MainInv, NEW p \in Procs, StepOf(p)
  PROVE  MainInv'
<1> SUFFICES ASSUME torn' = FALSE
             PROVE  HeadLast' /\ \A q \in Procs : Reached(q)' /\ NoHeadYet(q)'
  <2>1. Shape'
    BY ShapeStep
  <2>2. torn' \in BOOLEAN
    BY <2>1 DEF Shape, Typed
  <2> QED
    BY <2>2 DEF MainInv
<1>1. /\ Typed /\ Local(p) /\ Others(p)
      /\ torn = FALSE => HeadLast /\ \A q \in Procs : Reached(q) /\ NoHeadYet(q)
  BY KeepsOthers DEF Shape, MainInv
<1>2. ASSUME Reset(p), torn' # torn, UNCHANGED fs, pc'[p] # "store",
             pc'[p] = "build" => step'[p] = 0
      PROVE  HeadLast' /\ \A q \in Procs : Reached(q)' /\ NoHeadYet(q)'
  <2>1. Active = {p} /\ Head0 \notin fs'
    BY <1>2, CommonIsPart DEF Reset
  <2>2. HeadLast' /\ \A q \in Procs : NoHeadYet(q)'
    BY <2>1 DEF HeadLast, NoHeadYet
  <2>3. ASSUME NEW q \in Procs PROVE Reached(q)'
    <3>1. CASE q = p
      BY <1>2, <3>1 DEF Reached, Reach, Making
    <3>2. CASE q # p
      BY <1>1, <2>1, <3>2 DEF Others, Active, Reached, Making
    <3> QED
      BY <3>1, <3>2
  <2> QED
    BY <2>2, <2>3
<1>3. ASSUME NEW c \in Commands, BeginInit(p, c)
      PROVE  HeadLast' /\ \A q \in Procs : Reached(q)' /\ NoHeadYet(q)'
  <2>1. /\ UNCHANGED <<fs, torn>> /\ pc'[p] = "check" /\ pc[p] = "idle"
        /\ overlapped' = IF Active = {} THEN overlapped \ {p} ELSE overlapped \cup Active \cup {p}
    BY <1>1, <1>3 DEF BeginInit, Goto, Typed
  <2>2. HeadLast /\ \A q \in Procs : Reached(q) /\ NoHeadYet(q)
    BY <1>1, <2>1
  <2>3. ASSUME NEW q \in Procs PROVE Reached(q)' /\ NoHeadYet(q)'
    <3>1. CASE q = p
      BY <2>1, <3>1 DEF Reached, NoHeadYet, Unmade, Making
    <3>2. CASE q # p
      <4>1. pc'[q] = pc[q] /\ cmd'[q] = cmd[q] /\ step'[q] = step[q]
        BY <1>1, <3>2 DEF Others
      <4>2. Reached(q)'
        BY <2>1, <2>2, <4>1 DEF Reached, Reach
      <4>3. Unmade(q)' => q \in Active
        BY <4>1 DEF Unmade, Active
      <4>4. Unmade(q)' => q \in overlapped'
        BY <2>1, <4>3
      <4> QED
        BY <4>2, <4>4 DEF NoHeadYet
    <3> QED
      BY <3>1, <3>2
  <2> QED
    BY <2>1, <2>2, <2>3 DEF HeadLast
<1>4. CASE GoesOn(p)
  <2>1. PICK s \in Where : To(p, s) /\ Path(p, s)
    BY <1>4 DEF GoesOn
  <2>2. /\ UNCHANGED <<fs, overlapped>> /\ pc[p] # "idle" /\ Reset(p)
        /\ pc'[p] = s /\ cmd'[p] = cmd[p] /\ step'[p] = step[p] /\ s # "store"
        /\ s = "build" => step[p] = 0
    BY <1>1, <1>4, <2>1 DEF GoesOn, MovesOn, To, Typed, Path, Local, Early
  <2>3. CASE torn' # torn
    BY <1>2, <2>2, <2>3 DEF Making
  <2>4. CASE torn' = torn
    <3>1. HeadLast /\ \A q \in Procs : Reached(q) /\ NoHeadYet(q)
      BY <1>1, <2>4
    <3>2. HeadLast'
      BY <2>2, <3>1 DEF HeadLast
    <3>3. Reached(p)'
      BY <2>2 DEF Reached, Reach, Making
    <3>4. NoHeadYet(p)'
      <4>1. CASE s = "build" /\ pc[p] = "check" /\ ~ IsValidPath("main")
        <5>1. Head0 \notin fs
          BY <3>1, <4>1, ValidMain, CommonIsPart DEF HeadLast
        <5> QED
          BY <2>2, <5>1 DEF NoHeadYet
      <4>2. CASE cmd[p].force \/ cmd[p].worktree
        BY <2>2, <4>2 DEF NoHeadYet
      <4>3. CASE s \notin {"build", "abort"}
        BY <2>2, <4>3 DEF NoHeadYet, Unmade
      <4>4. CASE s = "abort" /\ pc[p] = "build" /\ step[p] < Last(p) /\ ~ cmd[p].worktree
        <5>1. Unmade(p)
          BY <4>4, Arguments DEF Unmade
        <5> QED
          BY <2>2, <3>1, <5>1 DEF NoHeadYet
      <4> QED
        BY <1>1, <2>1, <4>1, <4>2, <4>3, <4>4 DEF Path, Local
    <3> QED
      BY <1>1, <2>2, <3>1, <3>2, <3>3, <3>4, MainOthers
  <2> QED
    BY <2>3, <2>4
<1>5. CASE Stops(p)
  <2>1. /\ UNCHANGED <<fs, overlapped>> /\ pc[p] # "idle" /\ Reset(p) /\ pc'[p] = "idle"
    BY <1>1, <1>5 DEF Stops, Ends, To, Typed
  <2>2. CASE torn' # torn
    BY <1>2, <2>1, <2>2 DEF Making
  <2>3. CASE torn' = torn
    <3>1. HeadLast /\ \A q \in Procs : Reached(q) /\ NoHeadYet(q)
      BY <1>1, <2>3
    <3>2. HeadLast' /\ Reached(p)' /\ NoHeadYet(p)'
      BY <2>1, <3>1 DEF HeadLast, Reached, NoHeadYet, Unmade, Making
    <3> QED
      BY <1>1, <2>1, <3>1, <3>2, MainOthers
  <2> QED
    BY <2>2, <2>3
<1>6. CASE Removes(p)
  <2>1. /\ Place(p) # "main" /\ torn = FALSE
        /\ UNCHANGED <<cmd, pc, step, overlapped>>
    <3>1. torn \in BOOLEAN /\ torn' = (torn \/ Place(p) = "main")
      BY <1>1, <1>6 DEF Removes, Typed
    <3>2. Place(p) # "main" /\ torn = FALSE
      BY <3>1
    <3> QED
      BY <1>6, <3>2 DEF Removes
  <2>2. \A e \in {"main"} \X MainParts : e \in fs' <=> e \in fs
    BY <1>6, <2>1, OtherPlaces DEF Removes
  <2>3. HeadLast /\ \A q \in Procs : Reached(q) /\ NoHeadYet(q)
    BY <1>1, <2>1
  <2>4. Whole \subseteq {"main"} \X MainParts /\ Head0 \in {"main"} \X MainParts
    BY DEF Whole, Head0, MainParts
  <2>5. HeadLast'
    BY <2>2, <2>3, <2>4 DEF HeadLast
  <2>6. ASSUME NEW q \in Procs PROVE Reached(q)' /\ NoHeadYet(q)'
    <3>1. NoHeadYet(q)'
      BY <2>1, <2>2, <2>3, <2>4 DEF NoHeadYet, Unmade
    <3>2. Reached(q)'
      BY <2>1, <2>2, <2>3, MainSteps DEF Reached, Reach
    <3> QED
      BY <3>1, <3>2
  <2> QED
    BY <2>5, <2>6
<1>7. CASE Makes(p) \/ Opens(p)
  <2>1. /\ pc[p] = "build" /\ step[p] < Last(p) /\ torn = FALSE
        /\ fs' = fs \cup {Next0(p)} /\ UNCHANGED <<cmd, overlapped>>
    BY <1>7 DEF Makes, Opens
  <2>2. /\ step[p] \in Nat /\ Reach(p)' = step[p] + 1 /\ Reach(p) = step[p]
        /\ \/ pc'[p] = "build" /\ step'[p] = step[p] + 1
           \/ pc'[p] = "store" /\ step'[p] = step[p]
    <3>1. step[p] \in Nat
      BY <1>1 DEF Typed
    <3>2. CASE Makes(p)
      BY <1>1, <2>1, <3>1, <3>2 DEF Makes, Typed, Reach
    <3>3. CASE Opens(p)
      BY <1>1, <2>1, <3>1, <3>3 DEF Opens, To, Typed, Reach
    <3> QED
      BY <1>7, <3>1, <3>2, <3>3
  <2>3. HeadLast /\ \A q \in Procs : Reached(q) /\ NoHeadYet(q)
    BY <1>1, <2>1
  <2>4. /\ ~ cmd[p].worktree => Next0(p) = Steps(FALSE)[step[p] + 1] /\ Last(p) = 7
        /\ Next0(p) = Head0 => ~ cmd[p].worktree /\ step[p] = 6
    BY <2>1, MadeInMain DEF Making
  <2>5. ~ cmd[p].worktree => \A i \in 1..7 : i <= step[p] => Steps(FALSE)[i] \in fs \cup {GitDir}
    BY <2>1, <2>2, <2>3 DEF Reached, Making
  <2>6. ~ cmd[p].worktree => \A i \in 1..7 : i <= step[p] + 1 => Steps(FALSE)[i] \in fs' \cup {GitDir}
    <3> SUFFICES ASSUME ~ cmd[p].worktree, NEW i \in 1..7, i <= step[p] + 1
                 PROVE  Steps(FALSE)[i] \in fs' \cup {GitDir}
      OBVIOUS
    <3>1. CASE i = step[p] + 1
      BY <2>1, <2>4, <3>1
    <3>2. CASE i <= step[p]
      BY <2>1, <2>5, <3>2
    <3>3. i = step[p] + 1 \/ i <= step[p]
      <4>1. PICK k \in Nat : k = step[p]
        BY <2>2
      <4> QED
        BY <4>1
    <3> QED
      BY <3>1, <3>2, <3>3
  <2>7. Reached(p)'
    BY <2>1, <2>2, <2>6 DEF Reached
  <2>8. HeadLast'
    <3>1. CASE Head0 \in fs
      BY <2>1, <2>3, <3>1 DEF HeadLast
    <3>2. CASE Head0 = Next0(p)
      <4>1. ~ cmd[p].worktree /\ step[p] = 6
        BY <2>4, <3>2
      <4>2. ASSUME NEW e \in Whole PROVE e \in fs'
        <5>1. PICK i \in 1..7 : Steps(FALSE)[i] = e
          BY MainSteps
        <5>2. i <= step[p] + 1
          BY <4>1
        <5>3. Steps(FALSE)[i] \in fs' \cup {GitDir}
          BY <2>6, <4>1, <5>2
        <5> QED
          BY <5>1, <5>3, CommonIsPart
      <4> QED
        BY <4>2 DEF HeadLast
    <3> QED
      BY <2>1, <3>1, <3>2 DEF HeadLast
  <2>9. NoHeadYet(p)'
    <3> SUFFICES ASSUME ~ cmd'[p].worktree, ~ cmd'[p].force, p \notin overlapped', Unmade(p)'
                 PROVE  Head0 \notin fs'
      BY DEF NoHeadYet
    <3>1. ~ cmd[p].worktree /\ ~ cmd[p].force /\ p \notin overlapped
      BY <2>1
    <3>2. step[p] < 6 /\ Unmade(p)
      BY <2>1, <2>2 DEF Unmade
    <3>3. Head0 \notin fs
      BY <2>3, <3>1, <3>2 DEF NoHeadYet
    <3> QED
      BY <2>1, <2>2, <2>4, <3>2, <3>3
  <2> QED
    BY <1>1, <2>1, <2>3, <2>7, <2>8, <2>9, MainOthers
<1>8. CASE Skips(p)
  <2>1. /\ pc[p] = "build" /\ step[p] < Last(p) /\ torn = FALSE /\ Next0(p) = GitDir
        /\ UNCHANGED <<fs, cmd, overlapped>> /\ pc'[p] = "build" /\ step'[p] = step[p] + 1
        /\ step[p] \in Nat
    BY <1>1, <1>8 DEF Skips, Typed
  <2>2. HeadLast /\ \A q \in Procs : Reached(q) /\ NoHeadYet(q)
    BY <1>1, <2>1
  <2>3. ~ cmd[p].worktree => Next0(p) = Steps(FALSE)[step[p] + 1] /\ Last(p) = 7
    BY <2>1, MadeInMain DEF Making
  <2>4. Reached(p)'
    <3> SUFFICES ASSUME ~ cmd[p].worktree, NEW i \in 1..7, i <= step[p] + 1
                 PROVE  Steps(FALSE)[i] \in fs \cup {GitDir}
      BY <2>1 DEF Reached, Reach
    <3>1. CASE i = step[p] + 1
      BY <2>1, <2>3, <3>1
    <3>2. CASE i <= step[p]
      BY <2>1, <2>2, <3>2 DEF Reached, Reach, Making
    <3>3. i = step[p] + 1 \/ i <= step[p]
      <4>1. PICK k \in Nat : k = step[p]
        BY <2>1
      <4> QED
        BY <4>1
    <3> QED
      BY <3>1, <3>2, <3>3
  <2>5. NoHeadYet(p)'
    <3>1. Unmade(p)' => Unmade(p)
      BY <2>1 DEF Unmade
    <3> QED
      BY <2>1, <2>2, <3>1 DEF NoHeadYet
  <2>6. HeadLast'
    BY <2>1, <2>2 DEF HeadLast
  <2> QED
    BY <1>1, <2>1, <2>2, <2>4, <2>5, <2>6, MainOthers
<1>9. CASE Stores(p)
  <2>1. /\ pc[p] = "store" /\ torn = FALSE
        /\ UNCHANGED <<fs, cmd, overlapped>> /\ pc'[p] = "build" /\ step'[p] = step[p] + 1
        /\ step[p] \in Nat
    BY <1>1, <1>9 DEF Stores, To, Typed
  <2>2. HeadLast /\ \A q \in Procs : Reached(q) /\ NoHeadYet(q)
    BY <1>1, <2>1
  <2>3. Reached(p)'
    BY <2>1, <2>2 DEF Reached, Reach, Making
  <2>4. NoHeadYet(p)'
    <3>1. Unmade(p)' => Unmade(p)
      BY <2>1 DEF Unmade
    <3> QED
      BY <2>1, <2>2, <3>1 DEF NoHeadYet
  <2>5. HeadLast'
    BY <2>1, <2>2 DEF HeadLast
  <2> QED
    BY <1>1, <2>1, <2>2, <2>3, <2>4, <2>5, MainOthers
<1> QED
  BY <1>3, <1>4, <1>5, <1>6, <1>7, <1>8, <1>9 DEF StepOf

LEMMA MainNext ==
  ASSUME Shape, Alone, MainInv, [Next]_vars
  PROVE  MainInv'
<1>1. CASE UNCHANGED vars
  BY <1>1 DEF vars, MainInv, HeadLast, Reached, NoHeadYet, Reach, Unmade
<1>2. ASSUME NEW p \in Procs, StepOf(p) PROVE MainInv'
  BY <1>2, MainStep
<1> QED
  BY <1>1, <1>2, StepCases

LEMMA MainInit == Init => MainInv
  BY DEF Init, MainInv, HeadLast, Reached, NoHeadYet, Unmade, Making

(* WholeCorrect: a main directory that is_valid_path accepts has all its    *)
(* parts, however many inits run, fail and are killed, unless a removal was *)
(* cut short.                                                               *)
THEOREM WholeCorrect == Spec => []ValidIsWhole
<1>1. Init => Shape /\ Alone /\ MainInv
  BY ShapeInit, MainInit
<1>2. Shape /\ Alone /\ MainInv /\ [Next]_vars => (Shape /\ Alone /\ MainInv)'
  BY ShapeNext, MainNext
<1>3. Shape /\ Alone /\ MainInv => ValidIsWhole
  <2> SUFFICES ASSUME MainInv, IsValidPath("main"), ~ torn
               PROVE  Has("main", MainParts \ {"gitdir"})
    BY DEF ValidIsWhole
  <2>1. Whole \subseteq fs
    BY ValidMain DEF MainInv, HeadLast
  <2> QED
    BY <2>1 DEF Whole, Has
<1> QED
  BY <1>1, <1>2, <1>3, PTL DEF Spec

(* What a step that ends a valid repository is part of.                     *)
LEMMA KeepsStep ==
  ASSUME Shape, Alone, MainInv, [Next]_vars,
         IsValidPath("main"), ~ torn, ~ IsValidPath("main")'
  PROVE  \E p \in Active : cmd[p].force \/ (pc[p] = "abort" /\ p \in overlapped)
<1>1. Common \subseteq fs /\ Head0 \in fs /\ ~ (Common \subseteq fs' /\ Head0 \in fs')
  BY ValidMain, ValidMainNext
<1>2. ~ (fs \subseteq fs')
  BY <1>1
<1>3. PICK p \in Procs : StepOf(p)
  BY <1>2, StepCases DEF vars
<1>4. Removes(p) /\ pc[p] \in {"remove", "remove_linked", "abort"}
  <2>1. CASE \E c \in Commands : BeginInit(p, c)
    BY <1>2, <2>1 DEF BeginInit
  <2>2. CASE GoesOn(p) \/ Stops(p)
    BY <1>2, <2>2 DEF GoesOn, MovesOn, Stops, Ends
  <2>3. CASE Makes(p) \/ Opens(p) \/ Skips(p) \/ Stores(p)
    BY <1>2, <2>3 DEF Makes, Opens, Skips, Stores
  <2> QED
    BY <1>3, <2>1, <2>2, <2>3 DEF StepOf
<1>5. Place(p) = "main"
  <2> SUFFICES ASSUME Place(p) # "main" PROVE FALSE
    OBVIOUS
  <2>1. \A e \in {"main"} \X MainParts : e \in fs => e \in fs'
    BY <1>4, OtherPlaces DEF Removes
  <2>2. Common \subseteq {"main"} \X MainParts /\ Head0 \in {"main"} \X MainParts
    BY DEF Common, Head0, MainParts
  <2> QED
    BY <1>1, <2>1, <2>2
<1>6. p \in Active /\ Local(p)
  BY <1>4 DEF Active, Shape
<1>7. CASE pc[p] \in {"remove", "remove_linked"}
  BY <1>6, <1>7 DEF Local
<1>8. CASE pc[p] = "abort"
  <2>1. ~ cmd[p].worktree
    BY <1>5, <1>8 DEF Place, CovDir
  <2>2. NoHeadYet(p) /\ Unmade(p)
    BY <1>8 DEF MainInv, Unmade
  <2>3. cmd[p].force \/ p \in overlapped
    BY <1>1, <2>1, <2>2 DEF NoHeadYet
  <2> QED
    BY <1>6, <1>8, <2>3
<1> QED
  BY <1>4, <1>7, <1>8

(* RepositoryKept: init_transaction's clean-up never removes a repository   *)
(* it did not make itself; only --force, or the failure of an init that ran *)
(* while another did, ends one.                                             *)
THEOREM RepositoryKept == Spec => KeepsRepository
<1>1. Init => Shape /\ Alone /\ MainInv
  BY ShapeInit, MainInit
<1>2. Shape /\ Alone /\ MainInv /\ [Next]_vars => (Shape /\ Alone /\ MainInv)'
  BY ShapeNext, MainNext
<1>3. Shape /\ Alone /\ MainInv /\ [Next]_vars =>
        [IsValidPath("main") /\ ~torn /\ ~IsValidPath("main")' =>
           \E p \in Active : cmd[p].force \/ (pc[p] = "abort" /\ p \in overlapped)]_vars
  BY KeepsStep
<1> QED
  BY <1>1, <1>2, <1>3, PTL DEF Spec, KeepsRepository

-----------------------------------------------------------------------------
(***************************************************************************)
(* A worktree's directory, made by an init that is alone and whose calls   *)
(* all succeed: the common directory is there throughout, and what was     *)
(* made is there and, but for the directory itself, written.               *)
(***************************************************************************)
Linked(p) ==
    p \notin overlapped /\ cmd[p].worktree /\ faults = 0 =>
      /\ pc[p] \in {"check_linked", "remove_linked"} \cup Making => Common \subseteq fs
      /\ pc[p] \in Making => \A i \in 1..6 : i <= step[p] =>
            Steps(TRUE)[i] \in fs /\ (i # 1 => Steps(TRUE)[i] \notin empty)
      /\ pc[p] = "store" => Steps(TRUE)[step[p] + 1] \in fs
WtInv == \A p \in Procs : Linked(p)

LEMMA LinkedOthers ==
  ASSUME Shape, Alone, NEW p \in Procs, StepOf(p), NEW q \in Procs \ {p}
  PROVE  Linked(q)'
<1>1. pc'[q] = pc[q]
  BY KeepsOthers DEF Others
<1>2. pc[q] # "idle" => q \in overlapped'
  <2>1. CASE \E c \in Commands : BeginInit(p, c)
    BY <2>1 DEF BeginInit, Active
  <2>2. CASE pc[p] # "idle" /\ overlapped' = overlapped
    BY <2>2 DEF Alone
  <2>3. CASE GoesOn(p)
    BY <2>2, <2>3 DEF GoesOn, MovesOn, Path
  <2>4. CASE Stops(p)
    BY <2>2, <2>4 DEF Stops, Ends
  <2>5. CASE Removes(p) /\ pc[p] \in {"remove", "remove_linked", "abort"}
    BY <2>2, <2>5 DEF Removes
  <2>6. CASE Makes(p) \/ Opens(p) \/ Skips(p) \/ Stores(p)
    BY <2>2, <2>6 DEF Makes, Opens, Skips, Stores
  <2> QED
    BY <2>1, <2>3, <2>4, <2>5, <2>6 DEF StepOf
<1> QED
  BY <1>1, <1>2 DEF Linked, Making

LEMMA LinkedStep ==
  ASSUME Shape, Alone, WtInv, NEW p \in Procs, StepOf(p)
  PROVE  WtInv'
<1>1. SUFFICES Linked(p)'
  BY LinkedOthers DEF WtInv
<1>2. /\ Typed /\ Local(p) /\ Linked(p) /\ faults \in Nat /\ MaxFaults \in Nat
      /\ step[p] \in Nat
  BY InitRepoAssumption DEF Shape, Typed, WtInv
<1>3. ASSUME NEW c \in Commands, BeginInit(p, c) PROVE Linked(p)'
  <2>1. pc'[p] = "check"
    BY <1>2, <1>3 DEF BeginInit, Goto, Typed
  <2> QED
    BY <2>1 DEF Linked, Making
<1>4. CASE Stops(p)
  <2>1. pc'[p] = "idle"
    BY <1>2, <1>4 DEF Stops, Ends, To, Typed
  <2> QED
    BY <2>1 DEF Linked, Making
<1>5. SUFFICES ASSUME ~ \E c \in Commands : BeginInit(p, c), ~ Stops(p),
                      p \notin overlapped', cmd'[p].worktree, faults' = 0
               PROVE  Linked(p)'
  BY <1>3, <1>4 DEF Linked
<1>6. ASSUME faults = 0, UNCHANGED <<cmd, overlapped>>
      PROVE  /\ pc[p] \in {"check_linked", "remove_linked"} \cup Making => Common \subseteq fs
             /\ pc[p] \in Making => \A i \in 1..6 : i <= step[p] =>
                   Steps(TRUE)[i] \in fs /\ (i # 1 => Steps(TRUE)[i] \notin empty)
             /\ pc[p] = "store" => Steps(TRUE)[step[p] + 1] \in fs
             /\ cmd[p].worktree /\ Last(p) = 6 /\ Next0(p) = Steps(TRUE)[step[p] + 1]
  <2>1. cmd[p].worktree /\ p \notin overlapped
    BY <1>5, <1>6
  <2>2. Last(p) = 6 /\ Next0(p) = Steps(TRUE)[step[p] + 1]
    BY <2>1, Arguments DEF Next0
  <2> QED
    BY <1>2, <1>6, <2>1, <2>2 DEF Linked
<1>7. CASE GoesOn(p)
  <2>1. PICK s \in Where : To(p, s) /\ Path(p, s)
    BY <1>7 DEF GoesOn
  <2>2. /\ faults = 0 /\ UNCHANGED <<cmd, overlapped, fs, empty>>
        /\ pc'[p] = s /\ step'[p] = step[p] /\ s # "store"
        /\ s = "build" => step[p] = 0
    BY <1>2, <1>5, <1>7, <2>1 DEF GoesOn, MovesOn, Fault, To, Typed, Path, Local, Early
  <2>3. cmd[p].worktree
    BY <1>6, <2>2
  <2>4. s \in {"check_linked", "remove_linked", "build"} => Common \subseteq fs
    <3>1. CASE pc[p] \in {"check_linked", "remove_linked"}
      BY <1>6, <2>2, <3>1
    <3>2. CASE IsValidPath("main") /\ pc[p] = "prepare"
      BY <3>2, ValidMain
    <3> QED
      BY <2>1, <2>3, <3>1, <3>2 DEF Path
  <2>5. s = "build" => \A i \in 1..6 : ~ (i <= step'[p])
    BY <2>2
  <2> QED
    BY <2>2, <2>4, <2>5 DEF Linked, Making
<1>8. CASE Removes(p) /\ pc[p] \in {"remove", "remove_linked", "abort"}
  <2>1. faults = 0 /\ UNCHANGED <<cmd, overlapped, pc, step>>
    BY <1>5, <1>8 DEF Removes
  <2>2. CASE pc[p] \in {"remove", "abort"}
    BY <2>1, <2>2 DEF Linked, Making
  <2>3. CASE pc[p] = "remove_linked"
    <3>1. Place(p) # "main" /\ Common \subseteq fs
      BY <1>6, <2>1, <2>3 DEF Place
    <3>2. Common \subseteq {"main"} \X MainParts
      BY DEF Common, MainParts
    <3>3. Common \subseteq fs'
      BY <1>8, <3>1, <3>2, OtherPlaces DEF Removes
    <3> QED
      BY <2>1, <2>3, <3>3 DEF Linked, Making
  <2> QED
    BY <1>8, <2>2, <2>3
<1>9. CASE Makes(p)
  <2>1. /\ faults = 0 /\ UNCHANGED <<cmd, overlapped, pc, empty>> /\ pc[p] = "build"
        /\ step'[p] = step[p] + 1 /\ fs' = fs \cup {Next0(p)} /\ step[p] < Last(p)
        /\ Next0(p)[2] \notin WrittenLater
    BY <1>2, <1>5, <1>9 DEF Makes, Typed
  <2>2. step[p] + 1 \in 1..6 /\ Next0(p) = Steps(TRUE)[step[p] + 1]
    <3>1. Last(p) = 6 /\ Next0(p) = Steps(TRUE)[step[p] + 1]
      BY <1>6, <2>1
    <3>2. PICK k \in Nat : k = step[p]
      BY <1>2
    <3>3. k < 6
      BY <2>1, <3>1, <3>2
    <3> QED
      BY <3>1, <3>2, <3>3
  <2>3. step[p] + 1 = 1
    BY <2>1, <2>2, LinkedSteps
  <2>4. \A i \in 1..6 : i <= step'[p] => i = 1
    BY <2>1, <2>3
  <2>5. Common \subseteq fs'
    BY <1>6, <2>1 DEF Making
  <2> QED
    BY <2>1, <2>2, <2>3, <2>4, <2>5 DEF Linked
<1>10. CASE Opens(p)
  <2>1. /\ faults = 0 /\ UNCHANGED <<cmd, overlapped, step>> /\ pc[p] = "build"
        /\ pc'[p] = "store" /\ fs' = fs \cup {Next0(p)} /\ empty' = empty \cup {Next0(p)}
        /\ step[p] < Last(p)
    BY <1>2, <1>5, <1>10 DEF Opens, To, Typed
  <2>2. step[p] + 1 \in 1..6 /\ Next0(p) = Steps(TRUE)[step[p] + 1]
    <3>1. Last(p) = 6 /\ Next0(p) = Steps(TRUE)[step[p] + 1]
      BY <1>6, <2>1
    <3>2. PICK k \in Nat : k = step[p]
      BY <1>2
    <3>3. k < 6
      BY <2>1, <3>1, <3>2
    <3> QED
      BY <3>1, <3>2, <3>3
  <2>3. Common \subseteq fs'
    BY <1>6, <2>1 DEF Making
  <2>4. ASSUME NEW i \in 1..6, i <= step[p]
        PROVE  Steps(TRUE)[i] \in fs' /\ (i # 1 => Steps(TRUE)[i] \notin empty')
    <3>1. Steps(TRUE)[i] \in fs /\ (i # 1 => Steps(TRUE)[i] \notin empty)
      BY <1>6, <2>1, <2>4 DEF Making
    <3>2. i # step[p] + 1
      BY <1>2, <2>4
    <3>3. Steps(TRUE)[i] # Next0(p)
      BY <2>2, <3>2, LinkedSteps
    <3> QED
      BY <2>1, <3>1, <3>3
  <2> QED
    BY <2>1, <2>2, <2>3, <2>4 DEF Linked
<1>11. CASE Skips(p) /\ Fault
  <2>1. /\ faults = 0 /\ UNCHANGED <<cmd, overlapped>> /\ pc[p] = "build"
        /\ step[p] < Last(p) /\ Next0(p) = GitDir
    BY <1>2, <1>5, <1>11 DEF Skips, Fault
  <2>2. Next0(p) \notin {"main"} \X MainParts
    BY <1>6, <2>1, MadeInMain DEF Making
  <2> QED
    BY <2>1, <2>2 DEF GitDir, MainParts
<1>12. CASE Stores(p)
  <2>1. /\ faults = 0 /\ UNCHANGED <<cmd, overlapped, fs>> /\ pc[p] = "store"
        /\ pc'[p] = "build" /\ empty' = empty \ {Next0(p)} /\ step'[p] = step[p] + 1
    BY <1>2, <1>5, <1>12 DEF Stores, To, Typed
  <2>2. Next0(p) = Steps(TRUE)[step[p] + 1] /\ Steps(TRUE)[step[p] + 1] \in fs
    BY <1>6, <2>1
  <2>3. ASSUME NEW i \in 1..6, i <= step[p] + 1
        PROVE  Steps(TRUE)[i] \in fs /\ (i # 1 => Steps(TRUE)[i] \notin empty')
    <3>1. CASE i <= step[p]
      BY <1>6, <2>1, <3>1 DEF Making
    <3>2. CASE i = step[p] + 1
      BY <2>1, <2>2, <3>2
    <3>3. PICK k \in Nat : k = step[p]
      BY <1>2
    <3>4. i = step[p] + 1 \/ i <= step[p]
      BY <2>3, <3>3
    <3> QED
      BY <3>1, <3>2, <3>4
  <2>4. Common \subseteq fs
    BY <1>6, <2>1 DEF Making
  <2> QED
    BY <2>1, <2>3, <2>4 DEF Linked
<1> QED
  BY <1>5, <1>7, <1>8, <1>9, <1>10, <1>11, <1>12 DEF StepOf

LEMMA LinkedNext ==
  ASSUME Shape, Alone, WtInv, [Next]_vars
  PROVE  WtInv'
<1>1. CASE UNCHANGED vars
  BY <1>1 DEF vars, WtInv, Linked
<1>2. ASSUME NEW p \in Procs, StepOf(p) PROVE WtInv'
  BY <1>2, LinkedStep
<1> QED
  BY <1>1, <1>2, StepCases

(* A command says "ok" only at the end of its building.                     *)
LEMMA OkStep ==
  ASSUME Shape, [Next]_vars, NEW p \in Procs, pc[p] = "build", out'[p] = "ok"
  PROVE  step[p] = Last(p) /\ UNCHANGED <<fs, empty>>
<1>1. out[p] = "none"
  BY DEF Shape, Local
<1>2. PICK q \in Procs : StepOf(q)
  BY <1>1, StepCases DEF vars
<1>3. q = p
  BY <1>1, <1>2, KeepsOthers DEF Others
<1>4. CASE Stops(p)
  BY <1>4 DEF Stops, Ends
<1>5. CASE \E c \in Commands : BeginInit(p, c)
  BY <1>5 DEF BeginInit
<1>6. CASE GoesOn(p) \/ Removes(p) \/ Makes(p) \/ Opens(p) \/ Skips(p) \/ Stores(p)
  BY <1>1, <1>6 DEF GoesOn, MovesOn, Removes, Makes, Opens, Skips, Stores
<1> QED
  BY <1>2, <1>3, <1>4, <1>5, <1>6 DEF StepOf

LEMMA FoundStep ==
  ASSUME Shape, MainInv, WtInv, [Next]_vars, NEW p \in Procs \ overlapped,
         pc[p] = "build", out'[p] = "ok", ~ torn, faults = 0
  PROVE  IF cmd[p].worktree THEN Discover("wt")' = "linked" ELSE Discover("main")' = "main"
<1>1. step[p] = Last(p) /\ UNCHANGED <<fs, empty>>
  BY OkStep
<1>2. CASE cmd[p].worktree
  <2>1. Last(p) = 6
    BY <1>2, Arguments
  <2>2. /\ Common \subseteq fs
        /\ \A i \in 1..6 : Steps(TRUE)[i] \in fs /\ (i # 1 => Steps(TRUE)[i] \notin empty)
    <3>1. Linked(p) /\ p \notin overlapped /\ pc[p] \in Making
      BY DEF WtInv, Making
    <3>2. step[p] = 6
      BY <1>1, <2>1
    <3>3. \A i \in 1..6 : i <= 6
      OBVIOUS
    <3> QED
      BY <1>2, <3>1, <3>2, <3>3 DEF Linked
  <2>3. /\ <<"linked", "commondir">> \in fs' \ empty' /\ <<"linked", "HEAD">> \in fs'
        /\ <<"wt", "covdata">> \in fs' \ empty' /\ Common \subseteq fs'
    <3>1. 2 \in 1..6 /\ 5 \in 1..6 /\ 6 \in 1..6
      OBVIOUS
    <3>2. /\ Steps(TRUE)[2] = <<"linked", "commondir">> /\ Steps(TRUE)[5] = <<"linked", "HEAD">>
          /\ Steps(TRUE)[6] = <<"wt", "covdata">>
      BY LinkedSteps
    <3>3. /\ Steps(TRUE)[2] \in fs \ empty /\ Steps(TRUE)[5] \in fs
          /\ Steps(TRUE)[6] \in fs \ empty
      <4>1. 2 # 1 /\ 6 # 1
        OBVIOUS
      <4>2. Steps(TRUE)[2] \in fs \ empty
        BY <2>2, <3>1, <4>1
      <4>3. Steps(TRUE)[5] \in fs
        BY <2>2, <3>1
      <4>4. Steps(TRUE)[6] \in fs \ empty
        BY <2>2, <3>1, <4>1
      <4> QED
        BY <4>2, <4>3, <4>4
    <3> QED
      BY <1>1, <2>2, <3>2, <3>3
  <2>4. TrueBase("linked")' = "main"
    BY <2>3 DEF TrueBase
  <2>5. IsValidPath("linked")' /\ ReadCovlink'
    BY <2>3, <2>4 DEF IsValidPath, ReadCovlink, Has, Common
  <2>6. Discover("wt")' = "linked"
    BY <2>5 DEF Discover
  <2> QED
    BY <1>2, <2>6
<1>3. CASE ~ cmd[p].worktree
  <2>1. Last(p) = 7
    BY <1>3, Arguments
  <2>2. \A i \in 1..7 : Steps(FALSE)[i] \in fs \cup {GitDir}
    <3>1. Reached(p) /\ pc[p] \in Making /\ Reach(p) = 7
      BY <1>1, <2>1 DEF MainInv, Making, Reach
    <3>2. \A i \in 1..7 : i <= 7
      OBVIOUS
    <3> QED
      BY <1>3, <3>1, <3>2 DEF Reached
  <2>3. ASSUME NEW e \in Whole PROVE e \in fs
    <3>1. PICK i \in 1..7 : Steps(FALSE)[i] = e
      BY MainSteps
    <3> QED
      BY <2>2, <3>1, CommonIsPart
  <2>4. IsValidPath("main")'
    BY <1>1, <2>3, ValidMainNext, CommonIsPart
  <2>5. Discover("main")' = "main"
    BY <2>4 DEF Discover
  <2> QED
    BY <1>3, <2>5
<1> QED
  BY <1>2, <1>3

(* FoundAgain: what an init has made that nothing disturbed is what         *)
(* discover_repository finds, in the main tree and in a worktree.           *)
THEOREM FoundAgain == Spec => InitIsFound
<1> DEFINE IInv == Shape /\ Alone /\ MainInv /\ WtInv
<1>1. Init => IInv
  <2>1. Init => WtInv
    BY DEF Init, WtInv, Linked, Making
  <2> QED
    BY <2>1, ShapeInit, MainInit
<1>2. IInv /\ [Next]_vars => IInv'
  BY ShapeNext, MainNext, LinkedNext
<1>3. IInv /\ [Next]_vars =>
        [\A p \in Procs \ overlapped :
           pc[p] = "build" /\ out'[p] = "ok" /\ ~torn /\ faults = 0 =>
              IF cmd[p].worktree THEN Discover("wt")' = "linked"
              ELSE Discover("main")' = "main"]_vars
  BY FoundStep
<1> QED
  BY <1>1, <1>2, <1>3, PTL DEF Spec, InitIsFound
=============================================================================

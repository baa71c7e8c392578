------------------------- MODULE CovCommands_proofs -------------------------
(***************************************************************************)
(* What CovCommands guarantees for every number of processes, work trees   *)
(* and commands, with crashes and failed writes.                           *)
(***************************************************************************)
EXTENDS CovCommands, TLAPS

(***************************************************************************)
(* The shape of the whole state: TypeOK and the shape of the locals.       *)
(***************************************************************************)
Domains ==
    /\ DOMAIN leaves = Procs /\ DOMAIN tree = Procs /\ DOMAIN builds = Procs
    /\ DOMAIN seen = Procs /\ DOMAIN known = Procs /\ DOMAIN target = Procs

CommandShape ==
    /\ cmd \in [Procs -> CommandType \cup {None}]
    /\ \A p \in Procs :
        /\ pc[p] # "idle" => cmd[p] \in CommandType /\ WellNamed(cmd[p])
        /\ pc[p] # "idle" /\ (pc[p] = "lookup" \/ ret[p] = "lookup")
              => cmd[p].op = "delete"
        /\ pc[p] = "dwim" => cmd[p].op = "checkout"
        /\ pc[p] = "dwim2" => cmd[p].op = "checkout" /\ cmd[p].base \in Names
        /\ pc[p] = "orphan" => cmd[p].op = "orphan"
        /\ pc[p] = "sethead" => cmd[p].op = "detach" \/ cmd[p].name \in Names

SeenShape ==
    \A p \in Procs :
        /\ seen[p].branch \in Names \cup {None}
        /\ pc[p] \in {"tip", "peel"} => seen[p].branch \in Names

TypeInv == TypeOK /\ Domains /\ CommandShape /\ SeenShape

LEMMA FirstStepType ==
  ASSUME NEW c \in CommandType
  PROVE  /\ FirstStep(c) \in Steps \ {"tip", "peel", "lookup", "dwim2", "sethead", "store"}
         /\ FirstStep(c) = "dwim" => c.op = "checkout"
         /\ FirstStep(c) = "orphan" => c.op = "orphan"
  BY DEF CommandType, FirstStep, Steps

LEMMA AfterParseType ==
  ASSUME NEW c \in CommandType
  PROVE  /\ AfterParse(c) \in {"head", "sethead", "create", "exists"}
         /\ AfterParse(c) = "sethead" => c.op = "detach"
  BY DEF CommandType, AfterParse

(* Initially the state has its shape.                                      *)
LEMMA TypeInit == Init => TypeInv
  BY NamesAssumption, BoundAssumption
     DEF Init, TypeInv, TypeOK, Domains, CommandShape, SeenShape, Steps, HeadValue, Kinds

(* Every step keeps the shape.                                             *)
LEMMA TypeNext == TypeInv /\ [Next]_vars => TypeInv'
<1> SUFFICES ASSUME TypeInv, [Next]_vars PROVE TypeInv'
  OBVIOUS
<1> USE DEF TypeInv, TypeOK, Domains, CommandShape, SeenShape, HeadValue, Goto, Is,
            End, disk, made
<1>1. CASE UNCHANGED vars
  BY <1>1 DEF vars
<1>2. ASSUME NEW p \in Procs, NEW c \in Commands, StartCommand(p, c)
      PROVE  TypeInv'
  <2>1. c \in CommandType /\ WellNamed(c)
    BY CommandsAssumption
  <2>2. /\ FirstStep(c) \in Steps \ {"tip", "peel", "lookup", "dwim2", "sethead"}
        /\ FirstStep(c) = "dwim" => c.op = "checkout"
        /\ FirstStep(c) = "orphan" => c.op = "orphan"
    BY <2>1, FirstStepType
  <2>3. TypeOK' /\ Domains' /\ SeenShape'
    BY <1>2, <2>2, BoundAssumption DEF StartCommand
  <2>4. CommandShape'
    BY <1>2, <2>1, <2>2 DEF StartCommand
  <2> QED
    BY <2>3, <2>4
<1>3. ASSUME NEW p \in Procs, ReportStep(p)
      PROVE  TypeInv'
  <2>1. CASE StoreLeaf(p)
    BY <2>1 DEF StoreLeaf
  <2>2. CASE StoreTree(p)
    BY <2>2 DEF StoreTree, Steps
  <2>3. CASE StoreBuild(p)
    BY <2>3 DEF StoreBuild, Steps
  <2>4. CASE StoreFails(p)
    BY <2>4 DEF StoreFails, Steps
  <2>5. CASE PrepareReport(p)
    BY <2>5 DEF PrepareReport, Steps
  <2>6. CASE StoreReport(p)
    BY <2>6 DEF StoreReport, Steps
  <2> QED
    BY <1>3, <2>1, <2>2, <2>3, <2>4, <2>5, <2>6 DEF ReportStep
<1>4. ASSUME NEW p \in Procs, HeadStep(p)
      PROVE  TypeInv'
  <2>1. CASE ReadHead(p)
    BY <2>1, ProcsAssumption DEF ReadHead, Steps
  <2>2. CASE ReadTip(p)
    BY <2>2 DEF ReadTip, Steps
  <2>3. CASE TakeKnown(p)
    BY <2>3 DEF TakeKnown, Steps
  <2>4. CASE CompareHead(p)
    BY <2>4, SMTT(30) DEF CompareHead, Steps
  <2>5. CASE MoveTip(p)
    <3>1. Domains' /\ CommandShape' /\ SeenShape'
      BY <2>5 DEF MoveTip, Steps
    <3>2. pc' \in [Procs -> Steps] /\ UNCHANGED <<ret, started>>
      BY <2>5 DEF MoveTip, Steps
    <3>3. DOMAIN refs' = Kinds \X Names /\ DOMAIN head' = Worktrees
      BY <2>5 DEF MoveTip
    <3>4. ASSUME NEW w \in Worktrees
          PROVE  head'[w] = head[w] \/ head'[w] = [branch |-> None, tip |-> target[p]]
      BY <2>5 DEF MoveTip
    <3> QED
      BY <3>1, <3>2, <3>3, <3>4
  <2> QED
    BY <1>4, <2>1, <2>2, <2>3, <2>4, <2>5 DEF HeadStep
<1>5. ASSUME NEW p \in Procs, RevStep(p)
      PROVE  TypeInv'
  <2>1. CASE ParseSingle(p)
    BY <2>1, ProcsAssumption, AfterParseType, SMTT(30) DEF ParseSingle, Found, Steps
  <2>2. CASE ParseNotFound(p)
    BY <2>2 DEF ParseNotFound, Steps
  <2>3. CASE PeelTarget(p)
    BY <2>3, AfterParseType DEF PeelTarget, Found, Steps
  <2>4. CASE ParentWalk(p)
    BY <2>4, AfterParseType DEF ParentWalk, Steps
  <2> QED
    BY <1>5, <2>1, <2>2, <2>3, <2>4 DEF RevStep
<1>6. ASSUME NEW p \in Procs, RefStep(p)
      PROVE  TypeInv'
  <2>1. CASE CopyRefExists(p)
    BY <2>1 DEF CopyRefExists, Steps
  <2>2. CASE CopyRefCreate(p)
    BY <2>2 DEF CopyRefCreate, Steps, WellNamed
  <2>3. CASE SetHead(p)
    <3>1. Domains' /\ CommandShape' /\ SeenShape'
      BY <2>3 DEF SetHead, Steps
    <3>2. pc' \in [Procs -> Steps] /\ UNCHANGED <<ret, started>>
      BY <2>3 DEF SetHead, Steps
    <3>3. DOMAIN refs' = Kinds \X Names /\ DOMAIN head' = Worktrees
      BY <2>3 DEF SetHead
    <3>4. cmd[p].name \in Names \cup {None}
      BY <2>3 DEF SetHead, CommandType
    <3>5. ASSUME NEW w \in Worktrees
          PROVE  \/ head'[w] = head[w]
                 \/ head'[w] = [branch |-> None, tip |-> target[p]]
                 \/ head'[w] = [branch |-> cmd[p].name, tip |-> None]
      BY <2>3 DEF SetHead
    <3> QED
      BY <3>1, <3>2, <3>3, <3>4, <3>5
  <2>4. CASE CheckoutDwim(p)
    <3>1. PICK s \in Steps : pc' = [pc EXCEPT ![p] = s]
      BY <2>4 DEF CheckoutDwim, Steps
    <3>2. UNCHANGED <<refs, head>>
      BY <2>4 DEF CheckoutDwim
    <3> QED
      BY <2>4, <3>1, <3>2 DEF CheckoutDwim, Detaching, CommandType, WellNamed
  <2>5. CASE CheckoutDwimHeads(p)
    BY <2>5 DEF CheckoutDwimHeads, Detaching, Steps, CommandType, WellNamed
  <2>6. CASE CheckoutOrphaned(p)
    BY <2>6 DEF CheckoutOrphaned, Steps, WellNamed
  <2>7. CASE RemoveLookup(p)
    BY <2>7 DEF RemoveLookup, Steps
  <2>8. CASE RemoveMatch(p)
    BY <2>8 DEF RemoveMatch, Steps
  <2>9. CASE RemoveUnlink(p)
    BY <2>9 DEF RemoveUnlink, Steps
  <2> QED
    BY <1>6, <2>1, <2>2, <2>3, <2>4, <2>5, <2>6, <2>7, <2>8, <2>9 DEF RefStep
<1>7. ASSUME NEW p \in Procs, Crash(p)
      PROVE  TypeInv'
  BY <1>7 DEF Crash, Steps
<1>8. CASE Finished
  BY <1>8 DEF Finished, vars
<1> QED
  BY <1>1, <1>2, <1>3, <1>4, <1>5, <1>6, <1>7, <1>8 DEF Next, Step

(* The shape of the state is an invariant: reading HEAD and then the branch
   it names always leads to a step the command has, and a HEAD that names a
   branch holds no oid.                                                    *)
THEOREM TypeCorrect == Spec => []TypeOK
<1>1. TypeInv => TypeOK
  BY DEF TypeInv
<1> QED
  BY <1>1, TypeInit, TypeNext, PTL DEF Spec

(***************************************************************************)
(* Referential integrity.  DbClosed and RefsClosed are not inductive: they *)
(* rest on every oid a process holds in a local, and on the report --amend *)
(* starts from still being a report when the new one is created.           *)
(***************************************************************************)
LocalsClosed ==
    \A p \in Procs :
        /\ Resolves(tree[p]) /\ Resolves(target[p])
        /\ \A l \in leaves[p] : Resolves(l)
        /\ \A b \in builds[p] : Resolves(b)
        /\ seen[p].tip = None \/ Resolves(seen[p].tip)
        /\ known[p].tip = None \/ Resolves(known[p].tip)

AmendReady == \A p \in Procs : pc[p] = "store" => ~ NothingToAmend(p)

ClosedInv == DbClosed /\ RefsClosed /\ LocalsClosed /\ AmendReady

LEMMA ClosedInit == Init => ClosedInv
  BY NamesAssumption
     DEF Init, ClosedInv, DbClosed, RefsClosed, LocalsClosed, AmendReady,
         Resolves, HeadValue

(* A step that only adds one object whose parent and links resolve keeps
   the database closed, and what resolved still does.                      *)
LEMMA AddObject ==
  ASSUME DbClosed, NEW o, db' = db \cup {o},
         Resolves(o.parent), \A l \in o.links : Resolves(l)
  PROVE  DbClosed' /\ Resolves(o)' /\ \A x : Resolves(x) => Resolves(x)'
  BY DEF DbClosed, Resolves

LEMMA SameDb ==
  ASSUME DbClosed, UNCHANGED db
  PROVE  DbClosed' /\ \A x : Resolves(x) => Resolves(x)'
  BY DEF DbClosed, Resolves

(* Every step keeps every oid resolvable.                                  *)
LEMMA ClosedNext == TypeInv /\ ClosedInv /\ [Next]_vars => ClosedInv'
<1> SUFFICES ASSUME TypeInv, ClosedInv, [Next]_vars PROVE ClosedInv'
  OBVIOUS
<1> USE DEF TypeInv, TypeOK, Domains, ClosedInv, Goto, Is, End, disk, made
<1>1. CASE UNCHANGED vars
  BY <1>1 DEF vars, DbClosed, RefsClosed, LocalsClosed, AmendReady, Resolves,
              NothingToAmend, IsReport
<1>2. ASSUME NEW p \in Procs, NEW c \in Commands, StartCommand(p, c)
      PROVE  ClosedInv'
  <2>1. DbClosed' /\ \A x : Resolves(x) => Resolves(x)'
    BY <1>2, SameDb DEF StartCommand
  <2>2. RefsClosed'
    BY <1>2, <2>1 DEF StartCommand, RefsClosed
  <2>3. Resolves(Zero)'
    BY DEF Resolves
  <2>4. LocalsClosed'
    BY <1>2, <2>1, <2>3 DEF StartCommand, LocalsClosed, HeadValue
  <2>5. AmendReady'
    BY <1>2, FirstStepType, CommandsAssumption
       DEF StartCommand, AmendReady, NothingToAmend, IsReport
  <2> QED
    BY <2>1, <2>2, <2>4, <2>5
<1>3. ASSUME NEW p \in Procs, ReportStep(p)
      PROVE  ClosedInv'
  <2> USE DEF AmendReady, NothingToAmend, IsReport
  <2>1. CASE StoreLeaf(p)
    <3>1. PICK l \in Leaves[cmd[p].data] :
             /\ db' = db \cup {Leaf(l)}
             /\ leaves' = [leaves EXCEPT ![p] = @ \cup {Leaf(l)}]
      BY <2>1 DEF StoreLeaf
    <3>2. Resolves(Leaf(l).parent) /\ \A x \in Leaf(l).links : Resolves(x)
      BY DEF Leaf, Obj, Resolves
    <3>3. DbClosed' /\ Resolves(Leaf(l))' /\ \A x : Resolves(x) => Resolves(x)'
      BY <3>1, <3>2, AddObject
    <3>4. RefsClosed'
      BY <2>1, <3>3 DEF StoreLeaf, RefsClosed
    <3>5. LocalsClosed'
      BY <2>1, <3>1, <3>3 DEF StoreLeaf, LocalsClosed
    <3>6. AmendReady'
      BY <2>1, <3>1 DEF StoreLeaf
    <3> QED
      BY <3>3, <3>4, <3>5, <3>6
  <2>2. CASE StoreTree(p)
    <3>1. PICK t : /\ t = FileTree(cmd[p].data, leaves[p])
                   /\ db' = db \cup {t} /\ tree' = [tree EXCEPT ![p] = t]
      BY <2>2 DEF StoreTree
    <3>2. Resolves(t.parent) /\ \A x \in t.links : Resolves(x)
      BY <3>1 DEF FileTree, Obj, Resolves, LocalsClosed
    <3>3. DbClosed' /\ Resolves(t)' /\ \A x : Resolves(x) => Resolves(x)'
      BY <3>1, <3>2, AddObject
    <3>4. RefsClosed'
      BY <2>2, <3>3 DEF StoreTree, RefsClosed
    <3>5. LocalsClosed'
      BY <2>2, <3>1, <3>3 DEF StoreTree, LocalsClosed
    <3>6. AmendReady'
      BY <2>2, <3>1 DEF StoreTree
    <3> QED
      BY <3>3, <3>4, <3>5, <3>6
  <2>3. CASE StoreBuild(p)
    <3>1. PICK b : /\ b = Build(cmd[p].data, tree[p])
                   /\ \/ db' = db \cup {b} /\ builds' = [builds EXCEPT ![p] = {b}]
                      \/ UNCHANGED db /\ builds' = [builds EXCEPT ![p] = {Zero}]
      BY <2>3 DEF StoreBuild
    <3>2. Resolves(b.parent) /\ \A x \in b.links : Resolves(x)
      BY <3>1 DEF Build, Obj, Resolves, LocalsClosed
    <3>3. DbClosed' /\ \A x : Resolves(x) => Resolves(x)'
      BY <3>1, <3>2, AddObject, SameDb
    <3>4. \A x \in builds'[p] : Resolves(x)'
      BY <3>1 DEF Resolves
    <3>5. RefsClosed'
      BY <2>3, <3>3 DEF StoreBuild, RefsClosed
    <3>6. LocalsClosed'
      BY <2>3, <3>1, <3>3, <3>4 DEF StoreBuild, LocalsClosed
    <3>7. AmendReady'
      BY <2>3, <3>1 DEF StoreBuild
    <3> QED
      BY <3>3, <3>5, <3>6, <3>7
  <2>4. CASE StoreFails(p)
    BY <2>4 DEF StoreFails, DbClosed, RefsClosed, LocalsClosed, Resolves
  <2>5. CASE PrepareReport(p)
    BY <2>5 DEF PrepareReport, DbClosed, RefsClosed, LocalsClosed, Resolves
  <2>6. CASE StoreReport(p)
    <3>1. PICK r : /\ r = Report(ParentFor(p), cmd[p].data, tree[p], builds[p])
                   /\ db' = db \cup {r} /\ target' = [target EXCEPT ![p] = r]
      BY <2>6 DEF StoreReport
    <3>2. Resolves(ParentFor(p))
      BY <2>6 DEF StoreReport, ParentFor, LocalsClosed, Resolves, DbClosed
    <3>3. Resolves(r.parent) /\ \A x \in r.links : Resolves(x)
      BY <3>1, <3>2 DEF Report, Obj, LocalsClosed
    <3>4. DbClosed' /\ Resolves(r)' /\ \A x : Resolves(x) => Resolves(x)'
      BY <3>1, <3>3, AddObject
    <3>5. RefsClosed'
      BY <2>6, <3>4 DEF StoreReport, RefsClosed
    <3>6. LocalsClosed'
      BY <2>6, <3>1, <3>4 DEF StoreReport, LocalsClosed, MovedBuilds
    <3>7. AmendReady'
      BY <2>6, <3>1 DEF StoreReport
    <3> QED
      BY <3>4, <3>5, <3>6, <3>7
  <2> QED
    BY <1>3, <2>1, <2>2, <2>3, <2>4, <2>5, <2>6 DEF ReportStep
<1>4. ASSUME NEW p \in Procs, HeadStep(p)
      PROVE  ClosedInv'
  <2>1. UNCHANGED <<db, cmd, leaves, tree, builds, target>>
    BY <1>4 DEF HeadStep, ReadHead, ReadTip, TakeKnown, CompareHead, MoveTip
  <2>2. DbClosed' /\ \A x : Resolves(x) => Resolves(x)'
    BY <2>1, SameDb
  <2>3. CASE ReadHead(p)
    BY <2>1, <2>2, <2>3, ProcsAssumption
       DEF ReadHead, RefsClosed, LocalsClosed, AmendReady, NothingToAmend, IsReport
  <2>4. CASE ReadTip(p)
    <3>1. <<"heads", seen[p].branch>> \in Kinds \X Names
      BY <2>4 DEF ReadTip, SeenShape, Kinds
    <3> QED
      BY <2>1, <2>2, <2>4, <3>1
         DEF ReadTip, RefsClosed, LocalsClosed, AmendReady, NothingToAmend,
             IsReport, HeadValue
  <2>5. CASE TakeKnown(p)
    BY <2>1, <2>2, <2>5
       DEF TakeKnown, RefsClosed, LocalsClosed, AmendReady, NothingToAmend, IsReport
  <2>6. CASE CompareHead(p)
    BY <2>1, <2>2, <2>6
       DEF CompareHead, RefsClosed, LocalsClosed, AmendReady, NothingToAmend, IsReport
  <2>7. CASE MoveTip(p)
    <3>1. Resolves(target[p])'
      BY <2>1, <2>2 DEF LocalsClosed
    <3>2. ASSUME NEW k \in Kinds \X Names
          PROVE  refs'[k] = refs[k] \/ refs'[k] = target[p]
      BY <2>7 DEF MoveTip
    <3>3. ASSUME NEW w \in Worktrees
          PROVE  head'[w] = head[w] \/ head'[w].tip = target[p]
      BY <2>7 DEF MoveTip, HeadValue
    <3>4. RefsClosed'
      BY <2>1, <2>2, <3>1, <3>2, <3>3 DEF RefsClosed
    <3> QED
      BY <2>1, <2>2, <2>7, <3>4
         DEF MoveTip, LocalsClosed, AmendReady, NothingToAmend, IsReport
  <2> QED
    BY <1>4, <2>3, <2>4, <2>5, <2>6, <2>7 DEF HeadStep
<1>5. ASSUME NEW p \in Procs, RevStep(p)
      PROVE  ClosedInv'
  <2>1. UNCHANGED <<db, refs, head, cmd, leaves, tree, builds, known>>
    BY <1>5 DEF RevStep, ParseSingle, ParseNotFound, PeelTarget, ParentWalk
  <2>2. DbClosed' /\ \A x : Resolves(x) => Resolves(x)'
    BY <2>1, SameDb
  <2>3. RefsClosed'
    BY <2>1, <2>2 DEF RefsClosed
  <2>4. pc'[p] # "store" /\ \A q \in Procs \ {p} : pc'[q] = pc[q]
    BY <1>5 DEF RevStep, ParseSingle, ParseNotFound, PeelTarget, ParentWalk, Found,
                AfterParse
  <2>5. AmendReady'
    BY <2>1, <2>4 DEF AmendReady, NothingToAmend, IsReport
  <2>6. /\ Resolves(target'[p])
        /\ \A q \in Procs \ {p} : target'[q] = target[q]
        /\ DOMAIN target' = Procs
    <3>1. CASE ParseSingle(p)
      <4>1. /\ head[At[p]].branch = None => Resolves(head[At[p]].tip)
            /\ cmd[p].base \in Names =>
                 \/ refs[<<"tags", cmd[p].base>>] = None
                 \/ Resolves(refs[<<"tags", cmd[p].base>>])
        BY ProcsAssumption DEF RefsClosed, Kinds
      <4>2. ASSUME NEW o, Found(p, o), Resolves(o)
            PROVE  /\ Resolves(target'[p])
                   /\ \A q \in Procs \ {p} : target'[q] = target[q]
                   /\ DOMAIN target' = Procs
        BY <4>2 DEF Found
      <4>3. \/ UNCHANGED target
            \/ \E o : Found(p, o) /\ Resolves(o)
        <5>1. CASE cmd[p].base = "SHA"
          BY <3>1, <5>1, NamesAssumption DEF ParseSingle, Resolves
        <5>2. CASE cmd[p].base = "HEAD" /\ head[At[p]].branch = None
          BY <3>1, <4>1, <5>2, NamesAssumption DEF ParseSingle
        <5>3. CASE cmd[p].base = "HEAD" /\ head[At[p]].branch # None
          BY <3>1, <5>3, NamesAssumption DEF ParseSingle
        <5>4. CASE cmd[p].base \in Names /\ cmd[p].base \notin {"HEAD", "SHA"}
          BY <3>1, <4>1, <5>4 DEF ParseSingle
        <5> QED
          BY <3>1, <5>1, <5>2, <5>3, <5>4 DEF ParseSingle
      <4> QED
        BY <4>2, <4>3 DEF LocalsClosed
    <3>2. CASE ParseNotFound(p)
      BY <3>2 DEF ParseNotFound, LocalsClosed
    <3>3. CASE PeelTarget(p)
      <4>1. <<"heads", seen[p].branch>> \in Kinds \X Names
        BY <3>3 DEF PeelTarget, SeenShape, Kinds
      <4> QED
        BY <3>3, <4>1 DEF PeelTarget, Found, RefsClosed, LocalsClosed
    <3>4. CASE ParentWalk(p)
      BY <3>4 DEF ParentWalk, ParentOf, IsReport, DbClosed, Resolves
    <3> QED
      BY <1>5, <3>1, <3>2, <3>3, <3>4 DEF RevStep
  <2>7. \A q \in Procs : seen'[q] = seen[q] \/ seen'[q].tip = None
    BY <1>5 DEF RevStep, ParseSingle, ParseNotFound, PeelTarget, ParentWalk, HeadValue
  <2>8. LocalsClosed'
    BY <2>1, <2>2, <2>6, <2>7 DEF LocalsClosed
  <2> QED
    BY <2>2, <2>3, <2>5, <2>8
<1>6. ASSUME NEW p \in Procs, RefStep(p)
      PROVE  ClosedInv'
  <2> USE DEF RefStep, CopyRefExists, CopyRefCreate, SetHead, CheckoutDwim,
              CheckoutDwimHeads, CheckoutOrphaned, RemoveLookup, RemoveMatch,
              RemoveUnlink
  <2>1. UNCHANGED <<db, leaves, tree, builds, seen, known>>
    BY <1>6
  <2>2. DbClosed' /\ \A x : Resolves(x) => Resolves(x)'
    BY <2>1, SameDb
  <2>3. pc'[p] # "store" /\ \A q \in Procs \ {p} : pc'[q] = pc[q] /\ cmd'[q] = cmd[q]
    BY <1>6 DEF CommandShape
  <2>4. AmendReady'
    BY <2>1, <2>3 DEF AmendReady, NothingToAmend, IsReport
  <2>5. ASSUME NEW k \in Kinds \X Names
        PROVE  refs'[k] \in {refs[k], target[p], None}
    BY <1>6
  <2>6. ASSUME NEW w \in Worktrees
        PROVE  head'[w] = head[w] \/ head'[w].branch # None \/ head'[w].tip = target[p]
    BY <1>6, NamesAssumption DEF HeadValue, CommandShape
  <2>7. RefsClosed'
    BY <2>1, <2>2, <2>5, <2>6 DEF RefsClosed, LocalsClosed
  <2>8. LocalsClosed'
    <3>1. CASE RemoveLookup(p)
      <4>1. Ref(cmd[p]) \in Kinds \X Names
        BY <3>1 DEF CommandShape, CommandType, WellNamed, Ref
      <4>2. \A q \in Procs : target'[q] = target[q] \/ Resolves(target'[q])
        BY <3>1, <4>1 DEF RefsClosed
      <4> QED
        BY <2>1, <2>2, <4>2 DEF LocalsClosed
    <3>2. CASE ~ RemoveLookup(p)
      <4>1. UNCHANGED target
        BY <1>6, <3>2
      <4> QED
        BY <2>1, <2>2, <4>1 DEF LocalsClosed
    <3> QED
      BY <3>1, <3>2
  <2> QED
    BY <2>2, <2>4, <2>7, <2>8
<1>7. ASSUME NEW p \in Procs, Crash(p)
      PROVE  ClosedInv'
  BY <1>7 DEF Crash, DbClosed, RefsClosed, LocalsClosed, AmendReady, Resolves,
              NothingToAmend, IsReport
<1>8. CASE Finished
  BY <1>1, <1>8 DEF Finished
<1> QED
  BY <1>1, <1>2, <1>3, <1>4, <1>5, <1>6, <1>7, <1>8 DEF Next, Step

(* No object and no reference ever names an object that is not in the
   database, whatever commands run at once, fail or are killed: cov report
   stores children before parents and moves a reference last.              *)
THEOREM Integrity == Spec => [](DbClosed /\ RefsClosed)
<1>1. TypeInv /\ ClosedInv /\ [Next]_vars => (TypeInv /\ ClosedInv)'
  BY TypeNext, ClosedNext
<1>2. Init => TypeInv /\ ClosedInv
  BY TypeInit, ClosedInit
<1> QED
  BY <1>1, <1>2, PTL DEF Spec, ClosedInv

\* In particular no reference file, and no HEAD, ever holds the id of an
\* object that was not stored, which is what every lookup relies on.
COROLLARY RefsStayClosed == Spec => []RefsClosed
<1>1. DbClosed /\ RefsClosed => RefsClosed
  OBVIOUS
<1> QED
  BY <1>1, Integrity, PTL

(***************************************************************************)
(* No report repeats its parent.  The check is made before the report is   *)
(* stored; what makes it last is that `known` and the database below it do *)
(* not change in between, so FreshReady has to be carried along.           *)
(***************************************************************************)
FreshReady == \A p \in Procs : pc[p] = "store" => ~ SameReport(p)

EchoInv == NoEcho /\ FreshReady

LEMMA EchoInit == Init => EchoInv
  BY DEF Init, EchoInv, NoEcho, FreshReady

(* The parent of a report that is ready to be stored resolves.             *)
LEMMA ParentResolves ==
  ASSUME ClosedInv, NEW p \in Procs, pc[p] = "store"
  PROVE  Resolves(ParentFor(p))
  BY DEF ClosedInv, AmendReady, LocalsClosed, DbClosed, NothingToAmend, IsReport,
         ParentFor, Resolves

(* Objects are only added, and only StoreReport adds a report.             *)
LEMMA OnlyReportsAdded ==
  ASSUME [Next]_vars
  PROVE  \/ /\ \A o \in db' : o \in db \/ o.kind # "report"
            /\ db \subseteq db'
         \/ \E p \in Procs : StoreReport(p)
<1> USE DEF made, disk
<1>1. CASE UNCHANGED vars
  BY <1>1 DEF vars
<1>2. ASSUME NEW p \in Procs, NEW c \in Commands, StartCommand(p, c)
      PROVE  UNCHANGED db
  BY <1>2 DEF StartCommand
<1>3. ASSUME NEW p \in Procs, ReportStep(p), ~ StoreReport(p)
      PROVE  (\A o \in db' : o \in db \/ o.kind # "report") /\ db \subseteq db'
  <2>1. CASE StoreLeaf(p)
    BY <2>1 DEF StoreLeaf, Leaf, Obj
  <2>2. CASE StoreTree(p)
    BY <2>2 DEF StoreTree, FileTree, Obj
  <2>3. CASE StoreBuild(p)
    BY <2>3 DEF StoreBuild, Build, Obj
  <2>4. CASE StoreFails(p) \/ PrepareReport(p)
    BY <2>4 DEF StoreFails, PrepareReport
  <2> QED
    BY <1>3, <2>1, <2>2, <2>3, <2>4 DEF ReportStep
<1>4. ASSUME NEW p \in Procs, HeadStep(p) \/ RevStep(p)
      PROVE  UNCHANGED db
  BY <1>4 DEF HeadStep, ReadHead, ReadTip, TakeKnown, CompareHead, MoveTip,
              RevStep, ParseSingle, ParseNotFound, PeelTarget, ParentWalk
<1>5. ASSUME NEW p \in Procs, RefStep(p) \/ Crash(p)
      PROVE  UNCHANGED db
  BY <1>5 DEF Crash, RefStep, CopyRefExists, CopyRefCreate, SetHead, CheckoutDwim,
              CheckoutDwimHeads, CheckoutOrphaned, RemoveLookup, RemoveMatch,
              RemoveUnlink
<1>6. CASE Finished
  BY <1>1, <1>6 DEF Finished
<1> QED
  BY <1>1, <1>2, <1>3, <1>4, <1>5, <1>6 DEF Next, Step

(* A process at "store" was there before, with the same command and the
   same known HEAD, or has just passed the check.                          *)
LEMMA StoreReached ==
  ASSUME TypeInv, [Next]_vars, NEW q \in Procs, pc'[q] = "store"
  PROVE  \/ pc[q] = "store" /\ cmd'[q] = cmd[q] /\ known'[q] = known[q]
         \/ PrepareReport(q) /\ ~ SameReport(q) /\ UNCHANGED <<db, cmd, known>>
<1> USE DEF TypeInv, TypeOK, Domains, CommandShape, Goto, Is, End, made, disk
<1>1. CASE UNCHANGED vars
  BY <1>1 DEF vars
<1>2. ASSUME NEW p \in Procs, NEW c \in Commands, StartCommand(p, c)
      PROVE  pc[q] = "store" /\ cmd'[q] = cmd[q] /\ known'[q] = known[q]
  BY <1>2, CommandsAssumption, FirstStepType DEF StartCommand
<1>3. ASSUME NEW p \in Procs, ReportStep(p)
      PROVE  \/ pc[q] = "store" /\ cmd'[q] = cmd[q] /\ known'[q] = known[q]
             \/ PrepareReport(q) /\ ~ SameReport(q) /\ UNCHANGED <<db, cmd, known>>
  <2>1. CASE PrepareReport(p) /\ p = q
    BY <2>1 DEF PrepareReport
  <2>2. CASE PrepareReport(p) /\ p # q
    BY <2>2 DEF PrepareReport
  <2>3. CASE StoreLeaf(p) \/ StoreTree(p) \/ StoreBuild(p)
    BY <2>3 DEF StoreLeaf, StoreTree, StoreBuild
  <2>4. CASE StoreFails(p) \/ StoreReport(p)
    BY <2>4 DEF StoreFails, StoreReport
  <2> QED
    BY <1>3, <2>1, <2>2, <2>3, <2>4 DEF ReportStep
<1>4. ASSUME NEW p \in Procs, HeadStep(p)
      PROVE  pc[q] = "store" /\ cmd'[q] = cmd[q] /\ known'[q] = known[q]
  BY <1>4 DEF HeadStep, ReadHead, ReadTip, TakeKnown, CompareHead, MoveTip
<1>5. ASSUME NEW p \in Procs, RevStep(p)
      PROVE  pc[q] = "store" /\ cmd'[q] = cmd[q] /\ known'[q] = known[q]
  BY <1>5, AfterParseType
     DEF RevStep, ParseSingle, ParseNotFound, PeelTarget, ParentWalk, Found
<1>6. ASSUME NEW p \in Procs, RefStep(p) \/ Crash(p)
      PROVE  pc[q] = "store" /\ cmd'[q] = cmd[q] /\ known'[q] = known[q]
  BY <1>6 DEF Crash, RefStep, CopyRefExists, CopyRefCreate, SetHead, CheckoutDwim,
              CheckoutDwimHeads, CheckoutOrphaned, RemoveLookup, RemoveMatch,
              RemoveUnlink
<1>7. CASE Finished
  BY <1>1, <1>7 DEF Finished
<1> QED
  BY <1>1, <1>2, <1>3, <1>4, <1>5, <1>6, <1>7 DEF Next, Step

LEMMA EchoNext == TypeInv /\ ClosedInv /\ EchoInv /\ [Next]_vars => EchoInv'
<1> SUFFICES ASSUME TypeInv, ClosedInv, EchoInv, [Next]_vars PROVE EchoInv'
  OBVIOUS
<1>1. ASSUME NEW x, Resolves(x), IsReport(x)' PROVE IsReport(x)
  BY <1>1 DEF Resolves, IsReport
<1>2. FreshReady'
  <2>1. SUFFICES ASSUME NEW q \in Procs, pc'[q] = "store" PROVE ~ SameReport(q)'
    BY DEF FreshReady
  <2>2. CASE pc[q] = "store" /\ cmd'[q] = cmd[q] /\ known'[q] = known[q]
    <3>1. PICK x : x = ParentFor(q)
      OBVIOUS
    <3>2. Resolves(x) /\ ~ (IsReport(x) /\ x.data = cmd[q].data)
      BY <2>2, <3>1, ParentResolves DEF EchoInv, FreshReady, SameReport
    <3>3. ParentFor(q)' = x
      BY <2>2, <3>1 DEF ParentFor
    <3> QED
      BY <1>1, <2>2, <3>2, <3>3 DEF SameReport
  <2>3. CASE PrepareReport(q) /\ ~ SameReport(q) /\ UNCHANGED <<db, cmd, known>>
    BY <2>3 DEF SameReport, ParentFor, IsReport
  <2> QED
    BY <2>1, <2>2, <2>3, StoreReached
<1>3. NoEcho'
  <2>1. SUFFICES ASSUME NEW r \in db', r.kind = "report", IsReport(r.parent)'
                 PROVE  r.parent.data # r.data
    BY DEF NoEcho
  <2>2. CASE r \in db
    BY <1>1, <2>1, <2>2 DEF EchoInv, NoEcho, ClosedInv, DbClosed
  <2>3. CASE r \notin db
    <3>1. PICK p \in Procs : StoreReport(p)
      BY <2>1, <2>3, OnlyReportsAdded
    <3>2. pc[p] = "store" /\ r = Report(ParentFor(p), cmd[p].data, tree[p], builds[p])
      BY <2>3, <3>1 DEF StoreReport, Is
    <3>3. r.parent = ParentFor(p) /\ r.data = cmd[p].data
      BY <3>2 DEF Report, Obj
    <3>4. Resolves(r.parent)
      BY <3>2, <3>3, ParentResolves
    <3>5. ~ SameReport(p)
      BY <3>2 DEF EchoInv, FreshReady
    <3> QED
      BY <1>1, <2>1, <3>3, <3>4, <3>5 DEF SameReport
  <2> QED
    BY <2>2, <2>3
<1> QED
  BY <1>2, <1>3 DEF EchoInv

(* No report ever repeats the commit and coverage of its own parent, also
   when attempts are retried, amended, or race with one another.           *)
THEOREM NoEchoCorrect == Spec => []NoEcho
<1>1. TypeInv /\ ClosedInv /\ EchoInv /\ [Next]_vars => (TypeInv /\ ClosedInv /\ EchoInv)'
  BY TypeNext, ClosedNext, EchoNext
<1>2. Init => TypeInv /\ ClosedInv /\ EchoInv
  BY TypeInit, ClosedInit, EchoInit
<1> QED
  BY <1>1, <1>2, PTL DEF Spec, EchoInv

(***************************************************************************)
(* One command at a time.  Two commands at once can lose an update (run    *)
(* CovLostUpdate), so these need that there is one process: then what a    *)
(* command has read of HEAD and of the branch it names is what is there    *)
(* until the command itself writes, and the report it stored sits on it.   *)
(***************************************************************************)
Serial == \A p, q \in Procs : p = q
SingleTree == \A v, w \in Worktrees : v = w
NoneIsNoObject == \A k, d, o, ls : Obj(k, d, o, ls) # None

CurBranch(p) == head[At[p]].branch
CurTip(p) == IF CurBranch(p) = None THEN head[At[p]].tip ELSE refs[<<"heads", CurBranch(p)>>]
Current(p, v) == v.branch = CurBranch(p) /\ v.tip = CurTip(p)

Starting == {"leaves", "build", "parse", "peel", "walk", "dwim", "dwim2"}
Checking(p) == \/ pc[p] \in {"check", "move"}
               \/ pc[p] \in {"head", "tip"} /\ ret[p] = "check"

\* What has been read of HEAD is still there ...
ReadsCurrent(p) ==
    /\ pc[p] \in Starting => ret[p] # "check"
    /\ pc[p] \in {"tip", "lookup"} => seen[p].branch = CurBranch(p)
    /\ pc[p] = "known" => Current(p, seen[p])
    /\ pc[p] \in {"prepare", "store"} \/ Checking(p) => Current(p, known[p])

\* ... the report to be moved to was made for it ...
MadeForTip(p) ==
    /\ pc[p] \in {"prepare", "store"} => cmd[p].op = "report"
    /\ Checking(p) /\ cmd[p].op = "report" =>
          target[p].parent = ParentFor(p) /\ ~ NothingToAmend(p)

\* ... and what is to be removed is not the current branch.
SparesCurrent(p) ==
    pc[p] \in {"match", "unlink"} => ~ (cmd[p].kind = "heads" /\ cmd[p].name = CurBranch(p))

SerialInv == \A p \in Procs : ReadsCurrent(p) /\ MadeForTip(p) /\ SparesCurrent(p)

LEMMA SerialInit == Init => SerialInv
  BY DEF Init, SerialInv, ReadsCurrent, MadeForTip, SparesCurrent, Checking, Starting

(* Only these replace HEAD or a reference, and what they leave behind needs
   nothing of what was read.                                               *)
LEMMA WritersEnd ==
  ASSUME TypeInv, NEW p \in Procs,
         MoveTip(p) \/ CopyRefCreate(p) \/ SetHead(p) \/ RemoveUnlink(p)
  PROVE  pc'[p] \in {"idle", "sethead"}
  BY DEF TypeInv, TypeOK, MoveTip, CopyRefCreate, SetHead, RemoveUnlink, Goto, End

LEMMA SerialStep ==
  ASSUME TypeInv, SerialInv, AmendReady, NEW p \in Procs, Step(p)
  PROVE  ReadsCurrent(p)' /\ MadeForTip(p)' /\ SparesCurrent(p)'
<1> USE DEF TypeInv, TypeOK, Domains, CommandShape, Goto, Is, End, made, disk
<1> DEFINE Goal == ReadsCurrent(p)' /\ MadeForTip(p)' /\ SparesCurrent(p)'
<1>1. ReadsCurrent(p) /\ MadeForTip(p) /\ SparesCurrent(p)
  BY DEF SerialInv
<1>2. ASSUME pc'[p] \in {"idle", "sethead", "orphan", "exists", "create"} PROVE Goal
  BY <1>2 DEF ReadsCurrent, MadeForTip, SparesCurrent, Checking, Starting
<1>3. CASE MoveTip(p) \/ CopyRefCreate(p) \/ SetHead(p) \/ RemoveUnlink(p)
  BY <1>2, <1>3, WritersEnd
<1>4. ASSUME UNCHANGED <<refs, head>>
      PROVE  CurBranch(p)' = CurBranch(p) /\ CurTip(p)' = CurTip(p)
  BY <1>4 DEF CurBranch, CurTip
<1>5. CASE StoreLeaf(p)
  BY <1>1, <1>4, <1>5 DEF StoreLeaf, ReadsCurrent, MadeForTip, SparesCurrent, Checking, Starting
<1>6. CASE StoreTree(p)
  BY <1>1, <1>4, <1>6 DEF StoreTree, ReadsCurrent, MadeForTip, SparesCurrent, Checking, Starting
<1>7. CASE StoreBuild(p)
  BY <1>1, <1>4, <1>7 DEF StoreBuild, ReadsCurrent, MadeForTip, SparesCurrent, Checking, Starting
<1>8. CASE StoreFails(p)
  BY <1>2, <1>8 DEF StoreFails
<1>9. CASE PrepareReport(p)
  BY <1>1, <1>2, <1>4, <1>9
     DEF PrepareReport, ReadsCurrent, MadeForTip, SparesCurrent, Checking, Starting, Current
<1>10. CASE StoreReport(p)
  <2>1. /\ pc[p] = "store" /\ pc'[p] = "head" /\ UNCHANGED <<refs, head, known, cmd>>
        /\ target'[p] = Report(ParentFor(p), cmd[p].data, tree[p], builds[p])
        /\ db \subseteq db'
    BY <1>10 DEF StoreReport
  <2>2. target'[p].parent = ParentFor(p) /\ ParentFor(p)' = ParentFor(p)
    BY <2>1 DEF Report, Obj, ParentFor
  <2>3. ~ NothingToAmend(p)'
    BY <2>1 DEF AmendReady, NothingToAmend, IsReport
  <2>4. Current(p, known[p])'
    BY <1>1, <1>4, <2>1 DEF ReadsCurrent, Current
  <2> QED
    BY <2>1, <2>2, <2>3, <2>4 DEF ReadsCurrent, MadeForTip, SparesCurrent, Starting
<1>11. CASE ReadHead(p)
  <2>1. /\ pc[p] = "head" /\ UNCHANGED <<db, refs, head, ret, cmd, known, target>>
        /\ seen'[p] = head[At[p]] /\ ret[p] \in {"idle", "known", "check", "lookup"}
        /\ pc'[p] = IF CurBranch(p) = None THEN ret[p] ELSE "tip"
    BY <1>11 DEF ReadHead, CurBranch
  <2>2. seen'[p].branch = CurBranch(p) /\ (CurBranch(p) = None => Current(p, seen'[p]))
    BY <2>1 DEF Current, CurTip, CurBranch
  <2>3. ReadsCurrent(p)'
    BY <1>1, <1>4, <2>1, <2>2 DEF ReadsCurrent, Checking, Starting, Current
  <2>4. MadeForTip(p)'
    BY <1>1, <2>1 DEF MadeForTip, Checking, ParentFor, NothingToAmend, IsReport
  <2>5. SparesCurrent(p)'
    BY <2>1 DEF SparesCurrent
  <2> QED
    BY <2>3, <2>4, <2>5
<1>12. CASE ReadTip(p)
  <2>1. /\ pc[p] = "tip" /\ UNCHANGED <<db, refs, head, ret, cmd, known, target>>
        /\ seen'[p] = HeadValue(seen[p].branch, refs[<<"heads", seen[p].branch>>])
        /\ pc'[p] = ret[p] /\ ret[p] \in {"idle", "known", "check", "lookup"}
    BY <1>12 DEF ReadTip
  <2>2. CurBranch(p) = seen[p].branch /\ CurBranch(p) # None
    BY <1>1, <2>1, NamesAssumption DEF ReadsCurrent, SeenShape
  <2>3. Current(p, seen'[p])
    BY <2>1, <2>2 DEF Current, CurTip, HeadValue
  <2>4. ReadsCurrent(p)'
    BY <1>1, <1>4, <2>1, <2>3 DEF ReadsCurrent, Checking, Starting, Current
  <2>5. MadeForTip(p)'
    BY <1>1, <2>1 DEF MadeForTip, Checking, ParentFor, NothingToAmend, IsReport
  <2>6. SparesCurrent(p)'
    BY <2>1 DEF SparesCurrent
  <2> QED
    BY <2>4, <2>5, <2>6
<1>13. CASE TakeKnown(p)
  <2>1. /\ pc[p] = "known" /\ UNCHANGED <<refs, head, cmd>> /\ known'[p] = seen[p]
        /\ \/ pc'[p] = "prepare" /\ cmd[p].op = "report"
           \/ pc'[p] = "head" /\ cmd[p].op # "report"
    BY <1>13 DEF TakeKnown
  <2>2. Current(p, known[p])'
    BY <1>1, <1>4, <2>1 DEF ReadsCurrent, Current
  <2> QED
    BY <2>1, <2>2 DEF ReadsCurrent, MadeForTip, SparesCurrent, Checking, Starting
<1>14. CASE CompareHead(p)
  <2>1. /\ pc[p] = "check" /\ UNCHANGED <<db, refs, head, cmd, known, target>>
        /\ \/ pc'[p] = "move"
           \/ pc'[p] = "head" /\ ret'[p] = "known"
           \/ pc'[p] = "idle"
    BY <1>14 DEF CompareHead
  <2>2. Current(p, known[p])'
    BY <1>1, <1>4, <2>1 DEF ReadsCurrent, Current, Checking
  <2>3. MadeForTip(p)'
    BY <1>1, <2>1 DEF MadeForTip, Checking, ParentFor, NothingToAmend, IsReport
  <2> QED
    BY <2>1, <2>2, <2>3 DEF ReadsCurrent, SparesCurrent, Checking, Starting
<1>15. CASE RevStep(p)
  <2>1. AfterParse(cmd[p]) \in {"head", "sethead", "create", "exists"}
    BY <1>15, AfterParseType
       DEF RevStep, ParseSingle, ParseNotFound, PeelTarget, ParentWalk
  <2>2. /\ pc[p] \in {"parse", "peel", "walk"} /\ UNCHANGED <<ret, cmd>>
        /\ pc'[p] \in {"head", "sethead", "create", "exists", "peel", "walk", "idle"}
    BY <1>15, <2>1
       DEF RevStep, ParseSingle, ParseNotFound, PeelTarget, ParentWalk, Found
  <2>3. ret'[p] # "check"
    BY <1>1, <2>2 DEF ReadsCurrent, Starting
  <2> QED
    BY <2>2, <2>3 DEF ReadsCurrent, MadeForTip, SparesCurrent, Checking, Starting
<1>16. CASE CheckoutDwim(p) \/ CheckoutDwimHeads(p)
  <2>1. /\ pc[p] \in {"dwim", "dwim2"} /\ UNCHANGED ret
        /\ pc'[p] \in {"dwim2", "parse", "sethead"}
    BY <1>16 DEF CheckoutDwim, CheckoutDwimHeads
  <2> QED
    BY <1>1, <2>1 DEF ReadsCurrent, MadeForTip, SparesCurrent, Checking, Starting
<1>17. CASE CopyRefExists(p) \/ CheckoutOrphaned(p)
  BY <1>2, <1>17 DEF CopyRefExists, CheckoutOrphaned
<1>18. CASE RemoveLookup(p)
  <2>1. /\ pc[p] = "lookup" /\ UNCHANGED <<refs, head, cmd>>
        /\ \/ pc'[p] = "idle"
           \/ pc'[p] = "match" /\ ~ (cmd[p].kind = "heads" /\ seen[p].branch = cmd[p].name)
    BY <1>18 DEF RemoveLookup
  <2> QED
    BY <1>1, <1>4, <2>1 DEF ReadsCurrent, MadeForTip, SparesCurrent, Checking, Starting
<1>19. CASE RemoveMatch(p)
  <2>1. /\ pc[p] = "match" /\ UNCHANGED <<refs, head, cmd>> /\ pc'[p] \in {"idle", "unlink"}
    BY <1>19 DEF RemoveMatch
  <2> QED
    BY <1>1, <1>4, <2>1 DEF ReadsCurrent, MadeForTip, SparesCurrent, Checking, Starting
<1> QED
  BY <1>3, <1>5, <1>6, <1>7, <1>8, <1>9, <1>10, <1>11, <1>12, <1>13, <1>14, <1>15,
     <1>16, <1>17, <1>18, <1>19 DEF Step, ReportStep, HeadStep, RefStep

LEMMA SerialNext ==
  ASSUME Serial
  PROVE  TypeInv /\ ClosedInv /\ SerialInv /\ [Next]_vars => SerialInv'
<1> SUFFICES ASSUME TypeInv, ClosedInv, SerialInv, [Next]_vars PROVE SerialInv'
  OBVIOUS
<1>1. SUFFICES ASSUME NEW p \in Procs
               PROVE  ReadsCurrent(p)' /\ MadeForTip(p)' /\ SparesCurrent(p)'
  BY DEF SerialInv
<1>2. CASE UNCHANGED vars
  BY <1>2 DEF vars, SerialInv, ReadsCurrent, MadeForTip, SparesCurrent, Checking, Current,
              CurBranch, CurTip, ParentFor, NothingToAmend, IsReport
<1>3. ASSUME NEW c \in Commands, StartCommand(p, c)
      PROVE  ReadsCurrent(p)' /\ MadeForTip(p)' /\ SparesCurrent(p)'
  <2>1. /\ pc'[p] = FirstStep(c)
        /\ ret'[p] = IF c.op = "delete" THEN "lookup" ELSE "known"
    BY <1>3 DEF StartCommand, Goto, TypeInv, TypeOK
  <2>2. FirstStep(c) \in {"leaves", "head", "dwim", "orphan", "parse"}
    BY DEF FirstStep
  <2> QED
    BY <2>1, <2>2 DEF ReadsCurrent, MadeForTip, SparesCurrent, Checking, Starting
<1>4. CASE Step(p)
  BY <1>4, SerialStep DEF ClosedInv
<1>5. CASE Crash(p)
  <2>1. pc'[p] = "idle"
    BY <1>5 DEF Crash, End, Goto, TypeInv, TypeOK
  <2> QED
    BY <2>1 DEF ReadsCurrent, MadeForTip, SparesCurrent, Checking, Starting
<1>6. CASE Finished
  BY <1>2, <1>6 DEF Finished
<1> QED
  BY <1>2, <1>3, <1>4, <1>5, <1>6 DEF Next, Serial

LEMMA OnTopStep ==
  ASSUME Serial, TypeInv, ClosedInv, SerialInv, Next, NEW p \in Procs,
         Is(p, "move"), pc'[p] = "idle", cmd[p].op = "report",
         NEW k \in Kinds \X Names, refs'[k] # refs[k]
  PROVE  refs'[k].parent = IF cmd[p].force THEN TipParent(refs[k])
                           ELSE IF refs[k] = None THEN Zero ELSE refs[k]
<1> USE DEF TypeInv, TypeOK, Domains, CommandShape, Goto, Is, End, made, disk
<1>1. MoveTip(p)
  <2>1. ~ Crash(p) /\ ~ Finished /\ ~ \E c \in Commands : StartCommand(p, c)
    BY DEF Crash, Finished, vars, StartCommand
  <2>2. Step(p)
    BY <2>1 DEF Next, Serial
  <2> QED
    BY <2>2 DEF Step, ReportStep, HeadStep, RevStep, RefStep, StoreLeaf, StoreTree, StoreBuild,
         StoreFails, PrepareReport, StoreReport, ReadHead, ReadTip, TakeKnown, CompareHead,
         ParseSingle, ParseNotFound, PeelTarget, ParentWalk, CopyRefExists, CopyRefCreate,
         SetHead, CheckoutDwim, CheckoutDwimHeads, CheckoutOrphaned, RemoveLookup,
         RemoveMatch, RemoveUnlink
<1>2. /\ refs'[k] = target[p] /\ k = <<"heads", known[p].branch>> /\ known[p].branch # None
  BY <1>1 DEF MoveTip
<1>3. Current(p, known[p]) /\ target[p].parent = ParentFor(p) /\ ~ NothingToAmend(p)
  BY DEF SerialInv, ReadsCurrent, MadeForTip, Checking
<1>4. known[p].tip = refs[k]
  BY <1>2, <1>3 DEF Current, CurTip
<1> QED
  BY <1>2, <1>3, <1>4 DEF ParentFor, NothingToAmend, TipParent, ParentOf, IsReport

(* SerialOnTop: if no other command runs meanwhile, cov report puts its     *)
(* report on top of the branch's history, or with --amend in place of its   *)
(* tip, whatever commands ran before and wherever they were killed.         *)
THEOREM SerialOnTop ==
  ASSUME Serial
  PROVE  Spec => ReportOnTop
<1>1. TypeInv /\ ClosedInv /\ SerialInv /\ [Next]_vars => (TypeInv /\ ClosedInv /\ SerialInv)'
  BY TypeNext, ClosedNext, SerialNext
<1>2. Init => TypeInv /\ ClosedInv /\ SerialInv
  BY TypeInit, ClosedInit, SerialInit
<1>3. TypeInv /\ ClosedInv /\ SerialInv /\ [Next]_vars =>
       [\A p \in Procs :
         (Is(p, "move") /\ pc'[p] = "idle" /\ cmd[p].op = "report") =>
            \A k \in Kinds \X Names : refs'[k] # refs[k] =>
               refs'[k].parent = IF cmd[p].force THEN TipParent(refs[k])
                                 ELSE IF refs[k] = None THEN Zero ELSE refs[k]]_vars
  BY OnTopStep
<1> QED
  BY <1>1, <1>2, <1>3, PTL DEF Spec, ReportOnTop

(* Everything in the database is an object.                                 *)
LEMMA NoneNotStored ==
  ASSUME NoneIsNoObject
  PROVE  None \notin db /\ [Next]_vars => None \notin db'
<1> SUFFICES ASSUME None \notin db, [Next]_vars PROVE None \notin db'
  OBVIOUS
<1> USE DEF made, disk
<1>1. SUFFICES \/ UNCHANGED db
               \/ \E k, d, o, ls : db' = db \cup {Obj(k, d, o, ls)}
  BY DEF NoneIsNoObject
<1>2. CASE UNCHANGED vars \/ Finished
  BY <1>2 DEF Finished, vars
<1>3. ASSUME NEW p \in Procs, (\E c \in Commands : StartCommand(p, c)) \/ Crash(p)
      PROVE  UNCHANGED db
  BY <1>3 DEF StartCommand, Crash
<1>4. ASSUME NEW p \in Procs, ReportStep(p)
      PROVE  UNCHANGED db \/ \E k, d, o, ls : db' = db \cup {Obj(k, d, o, ls)}
  <2>1. CASE StoreLeaf(p)
    BY <2>1 DEF StoreLeaf, Leaf
  <2>2. CASE StoreTree(p)
    BY <2>2 DEF StoreTree, FileTree
  <2>3. CASE StoreBuild(p)
    BY <2>3 DEF StoreBuild, Build
  <2>4. CASE StoreFails(p) \/ PrepareReport(p)
    BY <2>4 DEF StoreFails, PrepareReport
  <2>5. CASE StoreReport(p)
    BY <2>5 DEF StoreReport, Report
  <2> QED
    BY <1>4, <2>1, <2>2, <2>3, <2>4, <2>5 DEF ReportStep
<1>5. ASSUME NEW p \in Procs, HeadStep(p) \/ RevStep(p)
      PROVE  UNCHANGED db
  BY <1>5 DEF HeadStep, ReadHead, ReadTip, TakeKnown, CompareHead, MoveTip,
              RevStep, ParseSingle, ParseNotFound, PeelTarget, ParentWalk
<1>6. ASSUME NEW p \in Procs, RefStep(p)
      PROVE  UNCHANGED db
  BY <1>6 DEF RefStep, CopyRefExists, CopyRefCreate, SetHead, CheckoutDwim,
              CheckoutDwimHeads, CheckoutOrphaned, RemoveLookup, RemoveMatch,
              RemoveUnlink
<1> QED
  BY <1>2, <1>3, <1>4, <1>5, <1>6 DEF Next, Step

(* A reference is only removed by cov branch or cov tag --delete.           *)
LEMMA OnlyUnlinkRemoves ==
  ASSUME TypeInv, ClosedInv, None \notin db, [Next]_vars,
         NEW k \in Kinds \X Names, refs[k] # None, refs'[k] = None
  PROVE  \E p \in Procs : RemoveUnlink(p) /\ k = Ref(cmd[p])
<1> USE DEF TypeInv, TypeOK, Domains, CommandShape, Goto, Is, End, made, disk
<1>1. \A p \in Procs : target[p] # None
  BY ZeroAssumption DEF ClosedInv, LocalsClosed, Resolves
<1>2. ASSUME NEW p \in Procs
      PROVE  /\ ~ (\E c \in Commands : StartCommand(p, c)) /\ ~ Crash(p)
             /\ ~ ReportStep(p) /\ ~ RevStep(p)
  BY DEF StartCommand, Crash, ReportStep, StoreLeaf, StoreTree, StoreBuild, StoreFails,
         PrepareReport, StoreReport, RevStep, ParseSingle, ParseNotFound, PeelTarget, ParentWalk
<1>3. ASSUME NEW p \in Procs PROVE ~ HeadStep(p)
  BY <1>1 DEF HeadStep, ReadHead, ReadTip, TakeKnown, CompareHead, MoveTip
<1>4. ASSUME NEW p \in Procs, RefStep(p)
      PROVE  RemoveUnlink(p) /\ k = Ref(cmd[p])
  BY <1>1, <1>4 DEF RefStep, CopyRefExists, CopyRefCreate, SetHead, CheckoutDwim,
              CheckoutDwimHeads, CheckoutOrphaned, RemoveLookup, RemoveMatch, RemoveUnlink
<1>5. ~ Finished /\ ~ UNCHANGED vars
  BY DEF Finished, vars
<1> QED
  BY <1>2, <1>3, <1>4, <1>5 DEF Next, Step

(* SerialSparesCurrent: in a repository without further work trees, and if  *)
(* no other command runs meanwhile, the branch that is checked out is never *)
(* deleted.                                                                 *)
THEOREM SerialSparesCurrent ==
  ASSUME Serial, SingleTree, NoneIsNoObject
  PROVE  Spec => NeverDeletesCurrent
<1> DEFINE IInv == TypeInv /\ ClosedInv /\ SerialInv /\ None \notin db
<1>1. IInv /\ [Next]_vars => IInv'
  BY TypeNext, ClosedNext, SerialNext, NoneNotStored
<1>2. Init => IInv
  <2>1. Init => None \notin db
    BY DEF Init
  <2> QED
    BY <2>1, TypeInit, ClosedInit, SerialInit
<1>3. IInv /\ [Next]_vars =>
        [\A k \in Kinds \X Names : (k[1] = "heads" /\ refs[k] # None /\ refs'[k] = None)
           => \A w \in Worktrees : head[w].branch # k[2]]_vars
  <2> SUFFICES ASSUME IInv, [Next]_vars, NEW k \in Kinds \X Names, k[1] = "heads",
                      refs[k] # None, refs'[k] = None, NEW w \in Worktrees
               PROVE  head[w].branch # k[2]
    OBVIOUS
  <2>1. PICK p \in Procs : RemoveUnlink(p) /\ k = Ref(cmd[p])
    BY OnlyUnlinkRemoves
  <2>2. pc[p] = "unlink" /\ k[1] = cmd[p].kind /\ k[2] = cmd[p].name
    BY <2>1 DEF RemoveUnlink, Is, Ref
  <2>3. At[p] = w
    BY ProcsAssumption DEF SingleTree
  <2> QED
    BY <2>2, <2>3 DEF SerialInv, SparesCurrent, CurBranch
<1> QED
  BY <1>1, <1>2, <1>3, PTL DEF Spec, NeverDeletesCurrent
=============================================================================

-------------------------- MODULE RunFilter_proofs --------------------------
(***************************************************************************)
(* What run_filter guarantees for pipes of any size, any report, and a     *)
(* filter that writes as much as it likes and ends as it likes.            *)
(***************************************************************************)
EXTENDS RunFilter, TLAPS

Ends == {"read", "write"}
Before == {"where", "open", "fork"}
Alive == {"running", "reading", "output", "error"}

(***************************************************************************)
(* The shape of the state.                                                 *)
(***************************************************************************)
Shape ==
    /\ os \in Platforms
    /\ pc \in Before \cup {"io", "join", "wait", "filter", "done"}
    /\ holders \in [Pipes -> [Ends -> SUBSET {"parent", "child"}]]
    /\ buffer \in [Pipes -> Seq(Nat)]
    /\ \A p \in Pipes : Len(buffer[p]) <= Capacity
    /\ todo \in Seq(1..InputChunks)
    /\ threads \in [Pipes -> {"none", "running", "ended"}]
    /\ got \in [Captured -> Seq(Nat)]
    /\ wrote \in [Captured -> Seq(Nat)]
    /\ child \in {"none", "gone"} \cup Alive
    /\ status \in [exited : BOOLEAN, with : Int]
    /\ code \in Int

LEMMA ShapeInit == Init => Shape
<1> SUFFICES ASSUME Init PROVE Shape
  OBVIOUS
<1>1. holders \in [Pipes -> [Ends -> SUBSET {"parent", "child"}]]
  BY DEF Init, Ends
<1>2. /\ buffer \in [Pipes -> Seq(Nat)] /\ got \in [Captured -> Seq(Nat)]
      /\ wrote \in [Captured -> Seq(Nat)] /\ \A p \in Pipes : Len(buffer[p]) <= Capacity
  BY RunFilterAssumption DEF Init
<1>3. todo \in Seq(1..InputChunks)
  BY RunFilterAssumption DEF Init, Report
<1>4. status \in [exited : BOOLEAN, with : Int]
  BY DEF Init, NotEnded
<1> QED
  BY <1>1, <1>2, <1>3, <1>4 DEF Init, Shape, Before, Alive

(* Closing ends, or handing them on, leaves processes with ends.            *)
LEMMA EndsTyped ==
  ASSUME Shape
  PROVE  /\ Opened \in [Pipes -> [Ends -> SUBSET {"parent", "child"}]]
         /\ Closed \in [Pipes -> [Ends -> SUBSET {"parent", "child"}]]
         /\ ChildEnds(holders) \in [Pipes -> [Ends -> SUBSET {"parent", "child"}]]
<1>1. \A p \in Pipes, e \in Ends : holders[p][e] \subseteq {"parent", "child"}
  BY DEF Shape
<1> QED
  BY <1>1 DEF Opened, Closed, ChildEnds, Ends

(* Every step keeps the shape.                                              *)
LEMMA ShapeNext == Shape /\ [Next]_vars => Shape'
<1> SUFFICES ASSUME Shape, [Next]_vars PROVE Shape'
  OBVIOUS
<1> DEFINE H == [Pipes -> [Ends -> SUBSET {"parent", "child"}]]
<1>0. \A p \in Pipes, e \in Ends : holders[p][e] \subseteq {"parent", "child"}
  BY DEF Shape
<1>1. CASE UNCHANGED vars
  BY <1>1 DEF vars, Shape
<1>2. CASE Where
  BY <1>2 DEF Where, WherePosix, LocateFile, Returns, Shape, Before, ENOENT, EACCES
<1>3. CASE OpenPipes
  BY <1>3, EndsTyped DEF OpenPipes, Returns, Shape, Before
<1>4. CASE Fork
  <2>1. holders' \in H
    BY <1>4, EndsTyped DEF Fork, ForkExec, CreateProcess, Started, ExecFails, NotStarted, Shape
  <2>2. status' \in [exited : BOOLEAN, with : Int]
    <3>1. CASE ExecFails
      <4>1. PICK errno \in {ENOENT, EACCES} : status' = [exited |-> TRUE, with |-> 256 - errno]
        BY <3>1 DEF ExecFails
      <4>2. 256 - errno \in Int
        BY DEF ENOENT, EACCES
      <4> QED
        BY <4>1, <4>2
    <3> QED
      BY <1>4, <3>1 DEF Fork, ForkExec, CreateProcess, Started, NotStarted, Shape
  <2>3. code' \in Int /\ pc' \in {"io", "filter"} /\ child' \in {child, "running", "gone"}
    BY <1>4 DEF Fork, ForkExec, CreateProcess, Started, ExecFails, NotStarted, Shape, Returns,
                ENOENT, EAGAIN, ENOMEM
  <2> QED
    BY <1>4, <2>1, <2>2, <2>3 DEF Fork, Shape, Before, Alive
<1>5. CASE StartThreads
  <2>1. holders' \in H
    BY <1>0, <1>5 DEF StartThreads, Ends
  <2> QED
    BY <1>5, <2>1 DEF StartThreads, Shape
<1>6. CASE Joined
  BY <1>6 DEF Joined, Shape
<1>7. CASE WaitChild
  <2>1. code' \in Int /\ pc' = "filter"
    BY <1>7 DEF WaitChild, WaitPid, WaitForProcess, Returns, ReturnCode, Shape
  <2> QED
    BY <1>7, <2>1, EndsTyped DEF WaitChild, Shape
<1>8. CASE FilterResult
  BY <1>8 DEF FilterResult, Shape
<1>9. CASE WriteInput
  <2>1. CASE WriterDone /\ UNCHANGED <<buffer, todo>>
    BY <1>9, <2>1 DEF WriteInput, WriterDone, Shape, Pipes, Ends
  <2>2. CASE todo # <<>> /\ WriteChunk
    <3>1. Head(todo) \in Nat /\ Tail(todo) \in Seq(1..InputChunks)
      BY <2>2, RunFilterAssumption DEF Shape
    <3> QED
      BY <1>9, <2>2, <3>1, RunFilterAssumption, SMTT(30) DEF WriteInput, WriteChunk, Shape, Pipes
  <2> QED
    BY <1>9, <2>1, <2>2 DEF WriteInput
<1>10. ASSUME NEW p \in Captured, ReadOutput(p) PROVE Shape'
  <2>1. CASE buffer[p] # <<>>
    <3>1. p \in Pipes /\ buffer[p] \in Seq(Nat) /\ got[p] \in Seq(Nat)
      BY DEF Captured, Pipes, Shape
    <3>2. Collected(Head(buffer[p])) \in Seq(Nat) /\ Tail(buffer[p]) \in Seq(Nat)
          /\ Len(Tail(buffer[p])) <= Len(buffer[p])
      BY <2>1, <3>1 DEF Collected
    <3>3. Len(Tail(buffer[p])) <= Capacity
      BY <3>1, <3>2, RunFilterAssumption DEF Shape
    <3>4. got' = [got EXCEPT ![p] = @ \o Collected(Head(buffer[p]))]
          /\ buffer' = [buffer EXCEPT ![p] = Tail(@)]
          /\ UNCHANGED <<os, pc, holders, todo, threads, child, status, wrote, code>>
      BY <1>10, <2>1 DEF ReadOutput
    <3> QED
      BY <3>1, <3>2, <3>3, <3>4 DEF Shape
  <2> QED
    BY <1>10, <2>1 DEF ReadOutput, Shape
<1>11. ASSUME NEW p \in Captured, ChildWrites(p) PROVE Shape'
  <2>1. PICK c \in {CR, 1 + Len(wrote[p])} :
          /\ buffer' = [buffer EXCEPT ![p] = Append(@, c)]
          /\ wrote' = [wrote EXCEPT ![p] = Append(@, c)]
    BY <1>11 DEF ChildWrites
  <2>2. p \in Pipes /\ buffer[p] \in Seq(Nat) /\ wrote[p] \in Seq(Nat) /\ c \in Nat
    BY DEF Captured, Pipes, Shape, CR
  <2>3. /\ Len(buffer[p]) < Capacity /\ child' = "running"
        /\ UNCHANGED <<os, pc, holders, todo, threads, got, status, code>>
    BY <1>11 DEF ChildWrites
  <2>4. Append(buffer[p], c) \in Seq(Nat) /\ Append(wrote[p], c) \in Seq(Nat)
        /\ Len(Append(buffer[p], c)) <= Capacity
    BY <2>2, <2>3, RunFilterAssumption
  <2> QED
    BY <2>1, <2>2, <2>3, <2>4 DEF Shape, Alive
<1>12. CASE ChildBegins
  BY <1>12 DEF ChildBegins, Shape, Captured, Alive
<1>13. CASE ChildReads
  <2>1. CASE buffer["input"] # <<>> /\ buffer' = [buffer EXCEPT !["input"] = Tail(@)]
    <3>1. "input" \in Pipes /\ buffer["input"] \in Seq(Nat)
      BY DEF Pipes, Shape
    <3>2. Tail(buffer["input"]) \in Seq(Nat) /\ Len(Tail(buffer["input"])) <= Len(buffer["input"])
      BY <2>1, <3>1
    <3>3. Len(Tail(buffer["input"])) <= Capacity
      BY <3>1, <3>2, RunFilterAssumption DEF Shape
    <3> QED
      BY <1>13, <2>1, <3>1, <3>2, <3>3 DEF ChildReads, Shape, Alive
  <2> QED
    BY <1>13, <2>1 DEF ChildReads, Shape, Alive
<1>14. CASE ChildExits \/ ChildKilled
  <2>1. holders' \in H
    BY <1>0, <1>14 DEF ChildExits, ChildKilled, ChildGone, Ends
  <2>2. status' \in [exited : BOOLEAN, with : Int]
    <3>1. CASE ChildExits
      <4>1. PICK c \in ExitCodes : status' = [exited |-> TRUE, with |-> c]
        BY <3>1 DEF ChildExits
      <4> QED
        BY <4>1, RunFilterAssumption
    <3>2. CASE ChildKilled
      <4>1. status' = [exited |-> FALSE, with |-> 1]
        BY <3>2 DEF ChildKilled
      <4> QED
        BY <4>1
    <3> QED
      BY <1>14, <3>1, <3>2
  <2> QED
    BY <1>14, <2>1, <2>2 DEF ChildExits, ChildKilled, ChildGone, Shape
<1> QED
  BY <1>1, <1>2, <1>3, <1>4, <1>5, <1>6, <1>7, <1>8, <1>9, <1>10, <1>11, <1>12, <1>13, <1>14
     DEF Next, Main, Done

(* TypeOK: no pipe ever holds more than it can.                             *)
THEOREM TypeCorrect == Spec => []TypeOK
<1>1. Shape => TypeOK
  BY RunFilterAssumption DEF Shape, TypeOK, Before, Alive, Ends, Report
<1> QED
  BY <1>1, ShapeInit, ShapeNext, PTL DEF Spec

(***************************************************************************)
(* The return code tells how the filter ended: main() gets 0 only from     *)
(* waiting for it, and only if it exited with 0; the return code of a      *)
(* process that was killed is 1, that of an exit is the exit code as a     *)
(* signed char, which is 0 for no other.                                   *)
(***************************************************************************)
ExitInv ==
    /\ child = "gone" => status.with \in 0..255 /\ (~ status.exited => status.with # 0)
    /\ pc \in {"filter", "done"} /\ code = 0 => child = "gone" /\ status.exited /\ status.with = 0
    /\ pc = "done" /\ code # 0 => ~ result.ok

LEMMA ExitNext ==
  ASSUME Shape, ExitInv, [Next]_vars
  PROVE  ExitInv'
<1> USE DEF ExitInv
<1>0. ASSUME UNCHANGED <<pc, code, child, status, result>> PROVE ExitInv'
  BY <1>0
<1>1. CASE Where
  BY <1>1 DEF Where, WherePosix, LocateFile, Returns, ENOENT, EACCES
<1>2. CASE OpenPipes
  BY <1>2 DEF OpenPipes, Returns
<1>3. CASE Fork
  <2>1. CASE ExecFails
    <3>1. PICK errno \in {ENOENT, EACCES} : status' = [exited |-> TRUE, with |-> 256 - errno]
      BY <2>1 DEF ExecFails
    <3>2. status'.exited /\ status'.with \in 0..255
      BY <3>1 DEF ENOENT, EACCES
    <3> QED
      BY <2>1, <3>2 DEF ExecFails
  <2>2. CASE Started
    BY <2>2 DEF Started
  <2>3. CASE NotStarted({-EAGAIN, -ENOMEM}) \/ NotStarted({-ENOENT, 128})
    <3>1. code' # 0 /\ pc' = "filter" /\ UNCHANGED <<child, status>>
      BY <2>3 DEF NotStarted, Returns, EAGAIN, ENOMEM, ENOENT
    <3> QED
      BY <3>1
  <2> QED
    BY <1>3, <2>1, <2>2, <2>3 DEF Fork, ForkExec, CreateProcess
<1>4. CASE StartThreads \/ Joined
  BY <1>4 DEF StartThreads, Joined
<1>5. CASE WaitChild
  <2>1. /\ child = "gone" /\ pc' = "filter" /\ UNCHANGED <<child, status>>
        /\ code' = ReturnCode(status) \/ code' = 128
    BY <1>5 DEF WaitChild, WaitPid, WaitForProcess, Returns
  <2>2. status.with \in 0..255 /\ (~ status.exited => status.with # 0)
    BY <2>1
  <2>3. ReturnCode(status) = 0 => status.exited /\ status.with = 0
    BY <2>2 DEF ReturnCode
  <2> QED
    BY <2>1, <2>2, <2>3
<1>6. CASE FilterResult
  <2>1. pc = "filter" /\ pc' = "done" /\ UNCHANGED <<code, child, status>>
    BY <1>6 DEF FilterResult
  <2>2. code # 0 => ~ result'.ok
    BY <1>6 DEF FilterResult, Fails
  <2> QED
    BY <2>1, <2>2
<1>7. ASSUME WriteInput \/ \E p \in Captured : ReadOutput(p) PROVE ExitInv'
  BY <1>0, <1>7 DEF WriteInput, ReadOutput
<1>8. ASSUME ChildBegins \/ ChildReads \/ \E p \in Captured : ChildWrites(p) PROVE ExitInv'
  <2>1. child # "gone" /\ child' # "gone" /\ UNCHANGED <<pc, code, status, result>>
    BY <1>8 DEF ChildBegins, ChildReads, ChildWrites, Captured
  <2> QED
    BY <2>1
<1>9. CASE ChildExits \/ ChildKilled
  <2>1. status'.with \in 0..255 /\ (~ status'.exited => status'.with # 0)
    BY <1>9, RunFilterAssumption DEF ChildExits, ChildKilled
  <2>2. child # "gone" /\ UNCHANGED <<pc, code, result>>
    BY <1>9 DEF ChildExits, ChildKilled, ChildGone
  <2> QED
    BY <2>1, <2>2
<1> QED
  BY <1>0, <1>1, <1>2, <1>3, <1>4, <1>5, <1>6, <1>7, <1>8, <1>9 DEF Next, Main, Done, vars

(* parser::filter takes a report only from a filter that exited with 0.     *)
THEOREM CleanExitCorrect == Spec => []OnlyCleanExit
<1>1. Init => ExitInv
  BY DEF Init, ExitInv
<1>2. ExitInv => OnlyCleanExit
  BY DEF ExitInv, OnlyCleanExit
<1> QED
  BY <1>1, <1>2, ShapeInit, ShapeNext, ExitNext, PTL DEF Spec

(***************************************************************************)
(* WholeOutput.  A chunk is where it belongs at every moment: of what the  *)
(* filter wrote, the reader has taken the first chunks and the pipe holds  *)
(* the others.  A reader ends when the pipe is empty and no process can    *)
(* fill it any more, and nobody opens an end again.                        *)
(***************************************************************************)
TakenPosix(g, w, n) == Len(g) = n /\ \A i \in 1..n : g[i] = w[i]

TakenWin32(g, w, n) ==
    \E at \in [1..Len(g) -> {i \in 1..n : w[i] # CR}] :
        /\ \A i, j \in 1..Len(g) : i < j => at[i] < at[j]
        /\ \A i \in 1..Len(g) : g[i] = w[at[i]]
        /\ \A k \in 1..n : w[k] # CR => \E i \in 1..Len(g) : at[i] = k

Taken(o, g, w, n) == IF o = "win32" THEN TakenWin32(g, w, n) ELSE TakenPosix(g, w, n)

(* The first n chunks of w are g, the others are b.                         *)
Divided(o, g, b, w, n) ==
    /\ Len(w) = n + Len(b)
    /\ \A i \in 1..Len(b) : b[i] = w[n + i]
    /\ Taken(o, g, w, n)

(* A sequence with one more element.                                        *)
LEMMA OneMore ==
  ASSUME NEW s \in Seq(Nat), NEW e \in Nat
  PROVE  /\ s \o <<e>> \in Seq(Nat)
         /\ Len(s \o <<e>>) = Len(s) + 1
         /\ (s \o <<e>>)[Len(s) + 1] = e
         /\ \A i \in 1..Len(s) : (s \o <<e>>)[i] = s[i]
  OBVIOUS

(* Reading moves the first chunk of b to g.                                 *)
LEMMA TakesPosix ==
  ASSUME NEW g \in Seq(Nat), NEW w \in Seq(Nat), NEW n \in Nat, n < Len(w), TakenPosix(g, w, n)
  PROVE  TakenPosix(g \o <<w[n + 1]>>, w, n + 1)
<1>1. w[n + 1] \in Nat
  OBVIOUS
<1>2. Len(g) = n /\ \A i \in 1..n : g[i] = w[i]
  BY DEF TakenPosix
<1>3. PICK h, e : h = g \o <<w[n + 1]>> /\ e = w[n + 1]
  OBVIOUS
<1>4. Len(h) = n + 1 /\ h[n + 1] = e /\ \A i \in 1..n : h[i] = g[i]
  BY <1>1, <1>2, <1>3, OneMore
<1>5. \A i \in 1..(n + 1) : i \in 1..n \/ i = n + 1
  OBVIOUS
<1>6. \A i \in 1..(n + 1) : h[i] = w[i]
  BY <1>2, <1>3, <1>4, <1>5
<1> QED
  BY <1>3, <1>4, <1>6 DEF TakenPosix

LEMMA TakesWin32 ==
  ASSUME NEW g \in Seq(Nat), NEW w \in Seq(Nat), NEW n \in Nat, n < Len(w), w[n + 1] # CR,
         TakenWin32(g, w, n)
  PROVE  TakenWin32(g \o <<w[n + 1]>>, w, n + 1)
<1>1. PICK at \in [1..Len(g) -> {i \in 1..n : w[i] # CR}] :
        /\ \A i, j \in 1..Len(g) : i < j => at[i] < at[j]
        /\ \A i \in 1..Len(g) : g[i] = w[at[i]]
        /\ \A k \in 1..n : w[k] # CR => \E i \in 1..Len(g) : at[i] = k
  BY DEF TakenWin32
<1>e. w[n + 1] \in Nat
  OBVIOUS
<1>2. PICK h, m : h = g \o <<w[n + 1]>> /\ m = Len(g)
  OBVIOUS
<1>3. /\ m \in Nat /\ h \in Seq(Nat) /\ Len(h) = m + 1 /\ h[m + 1] = w[n + 1]
      /\ \A i \in 1..m : h[i] = g[i]
  BY <1>2, <1>e, OneMore
<1> DEFINE to == [i \in 1..(m + 1) |-> IF i = m + 1 THEN n + 1 ELSE at[i]]
<1>4. \A i \in 1..m : at[i] \in 1..n /\ w[at[i]] # CR
  BY <1>1, <1>2
<1>to. DOMAIN to = 1..(m + 1) /\ to[m + 1] = n + 1 /\ \A i \in 1..m : to[i] = at[i]
  BY <1>3
<1>last. \A i \in 1..(m + 1) : i = m + 1 \/ i \in 1..m
  BY <1>3
<1>fcn. to = [i \in DOMAIN to |-> to[i]]
  OBVIOUS
<1> HIDE DEF to
<1>5. to \in [1..(m + 1) -> {i \in 1..(n + 1) : w[i] # CR}]
  <2>1. ASSUME NEW i \in 1..(m + 1) PROVE to[i] \in {k \in 1..(n + 1) : w[k] # CR}
    <3>1. CASE i = m + 1
      BY <1>to, <3>1
    <3>2. CASE i \in 1..m
      <4>1. to[i] = at[i] /\ at[i] \in 1..n /\ w[at[i]] # CR
        BY <1>4, <1>to, <3>2
      <4>2. at[i] \in 1..(n + 1)
        BY <4>1
      <4> QED
        BY <4>1, <4>2
    <3> QED
      BY <1>last, <3>1, <3>2
  <2> QED
    BY <1>to, <1>fcn, <2>1
<1>6. ASSUME NEW i \in 1..(m + 1), NEW j \in 1..(m + 1), i < j PROVE to[i] < to[j]
  <2>1. i \in 1..m
    BY <1>3, <1>6
  <2>2. CASE j = m + 1
    BY <1>4, <1>to, <2>1, <2>2, SMTT(30)
  <2>3. CASE j \in 1..m
    BY <1>1, <1>2, <1>6, <1>to, <2>1, <2>3
  <2> QED
    BY <1>last, <2>2, <2>3
<1>7. \A i \in 1..(m + 1) : h[i] = w[to[i]]
  BY <1>1, <1>2, <1>3, <1>to, <1>last
<1>8. ASSUME NEW k \in 1..(n + 1), w[k] # CR PROVE \E i \in 1..(m + 1) : to[i] = k
  <2>1. CASE k = n + 1
    BY <1>3, <1>to, <2>1
  <2>2. CASE k # n + 1
    <3>1. PICK i \in 1..m : at[i] = k
      BY <1>1, <1>2, <1>8, <2>2
    <3> QED
      BY <1>3, <1>to, <3>1
  <2> QED
    BY <2>1, <2>2
<1>9. PICK f : f = to
  OBVIOUS
<1>10. /\ f \in [1..Len(h) -> {i \in 1..(n + 1) : w[i] # CR}]
       /\ \A i, j \in 1..Len(h) : i < j => f[i] < f[j]
       /\ \A i \in 1..Len(h) : h[i] = w[f[i]]
       /\ \A k \in 1..(n + 1) : w[k] # CR => \E i \in 1..Len(h) : f[i] = k
  BY <1>3, <1>5, <1>6, <1>7, <1>8, <1>9
<1>11. TakenWin32(h, w, n + 1)
  BY <1>10 DEF TakenWin32
<1> QED
  BY <1>2, <1>11

LEMMA SkipsWin32 ==
  ASSUME NEW g \in Seq(Nat), NEW w \in Seq(Nat), NEW n \in Nat, n < Len(w), w[n + 1] = CR,
         TakenWin32(g, w, n)
  PROVE  TakenWin32(g, w, n + 1)
<1>1. PICK at \in [1..Len(g) -> {i \in 1..n : w[i] # CR}] :
        /\ \A i, j \in 1..Len(g) : i < j => at[i] < at[j]
        /\ \A i \in 1..Len(g) : g[i] = w[at[i]]
        /\ \A k \in 1..n : w[k] # CR => \E i \in 1..Len(g) : at[i] = k
  BY DEF TakenWin32
<1>2. at \in [1..Len(g) -> {i \in 1..(n + 1) : w[i] # CR}]
  BY <1>1
<1>3. \A k \in 1..(n + 1) : w[k] # CR => \E i \in 1..Len(g) : at[i] = k
  BY <1>1
<1> QED
  BY <1>1, <1>2, <1>3 DEF TakenWin32

LEMMA ReaderTakes ==
  ASSUME NEW g \in Seq(Nat), NEW b \in Seq(Nat), NEW w \in Seq(Nat), NEW n \in Nat,
         Divided(os, g, b, w, n), b # <<>>
  PROVE  Divided(os, g \o Collected(Head(b)), Tail(b), w, n + 1)
<1>1. /\ n < Len(w) /\ Head(b) = w[n + 1] /\ Len(w) = n + 1 + Len(Tail(b))
      /\ \A i \in 1..Len(Tail(b)) : Tail(b)[i] = w[n + 1 + i]
  BY DEF Divided
<1>2. Taken(os, g \o Collected(Head(b)), w, n + 1)
  <2>1. CASE os # "win32"
    BY <1>1, <2>1, TakesPosix DEF Divided, Taken, Collected
  <2>2. CASE os = "win32" /\ Head(b) # CR
    BY <1>1, <2>2, TakesWin32 DEF Divided, Taken, Collected
  <2>3. CASE os = "win32" /\ Head(b) = CR
    <3>1. g \o <<>> = g
      OBVIOUS
    <3> QED
      BY <1>1, <2>3, <3>1, SkipsWin32 DEF Divided, Taken, Collected
  <2> QED
    BY <2>1, <2>2, <2>3
<1> QED
  BY <1>1, <1>2 DEF Divided

(* Writing appends to b, and to w.                                          *)
LEMMA WriterAdds ==
  ASSUME NEW g \in Seq(Nat), NEW b \in Seq(Nat), NEW w \in Seq(Nat), NEW n \in Nat, NEW c \in Nat,
         Divided(os, g, b, w, n)
  PROVE  Divided(os, g, Append(b, c), Append(w, c), n)
<1>1. PICK v : v = Append(w, c)
  OBVIOUS
<1>2. v \in Seq(Nat) /\ Len(v) = Len(w) + 1 /\ \A i \in 1..n : v[i] = w[i]
  BY <1>1 DEF Divided
<1>3. Len(v) = n + Len(Append(b, c)) /\ \A i \in 1..Len(Append(b, c)) : Append(b, c)[i] = v[n + i]
  <2>1. Len(w) = n + Len(b) /\ Len(Append(b, c)) = Len(b) + 1
    BY DEF Divided
  <2>2. ASSUME NEW i \in 1..(Len(b) + 1) PROVE Append(b, c)[i] = v[n + i]
    <3>1. CASE i = Len(b) + 1
      BY <1>1, <2>1, <3>1
    <3>2. CASE i \in 1..Len(b)
      <4>1. Append(b, c)[i] = b[i] /\ b[i] = w[n + i] /\ n + i \in 1..Len(w)
        BY <2>1, <3>2 DEF Divided
      <4>2. v[n + i] = w[n + i]
        BY <1>1, <4>1
      <4> QED
        BY <4>1, <4>2
    <3> QED
      BY <3>1, <3>2
  <2>3. Len(v) = n + Len(Append(b, c))
    BY <1>2, <2>1
  <2> QED
    BY <2>1, <2>2, <2>3
<1>4. Taken(os, g, v, n)
  <2>1. CASE os # "win32"
    BY <1>2, <2>1 DEF Divided, Taken, TakenPosix
  <2>2. CASE os = "win32"
    <3>1. PICK at \in [1..Len(g) -> {i \in 1..n : w[i] # CR}] :
            /\ \A i, j \in 1..Len(g) : i < j => at[i] < at[j]
            /\ \A i \in 1..Len(g) : g[i] = w[at[i]]
            /\ \A k \in 1..n : w[k] # CR => \E i \in 1..Len(g) : at[i] = k
      BY <2>2 DEF Divided, Taken, TakenWin32
    <3>2. at \in [1..Len(g) -> {i \in 1..n : v[i] # CR}]
      BY <1>2
    <3>3. \A i \in 1..Len(g) : g[i] = v[at[i]]
      BY <1>2, <3>1
    <3>4. \A k \in 1..n : v[k] # CR => \E i \in 1..Len(g) : at[i] = k
      BY <1>2, <3>1
    <3> QED
      BY <2>2, <3>1, <3>2, <3>3, <3>4 DEF Taken, TakenWin32
  <2> QED
    BY <2>1, <2>2
<1> QED
  BY <1>1, <1>3, <1>4 DEF Divided

(* With an empty pipe all has been taken.                                   *)
LEMMA AllTaken ==
  ASSUME NEW g \in Seq(Nat), NEW w \in Seq(Nat), NEW n \in Nat, Divided(os, g, <<>>, w, n)
  PROVE  IF os = "win32" THEN WithoutCR(g, w) ELSE g = w
<1>1. n = Len(w)
  BY DEF Divided
<1>2. CASE os = "win32"
  BY <1>1, <1>2 DEF Divided, Taken, TakenWin32, WithoutCR
<1>3. CASE os # "win32"
  <2>1. Len(g) = Len(w) /\ \A i \in 1..Len(g) : g[i] = w[i]
    BY <1>1, <1>3 DEF Divided, Taken, TakenPosix
  <2> QED
    BY <1>3, <2>1, SMTT(30)
<1> QED
  BY <1>2, <1>3

Flow(p) == \E n \in Nat : Divided(os, got[p], buffer[p], wrote[p], n)
Drained(p) == buffer[p] = <<>> /\ holders[p]["write"] = {}

OutputInv ==
    /\ \A p \in Captured : Flow(p)
    /\ pc \in Before => child = "none"
    /\ pc \in Before \cup {"io"} => \A p \in Captured : threads[p] = "none"
    /\ child = "none" => \A p \in Captured : wrote[p] = <<>>
    /\ child \in Alive => \A p \in Captured : "child" \in holders[p]["write"]
    /\ \A p \in Captured : threads[p] = "ended" => Drained(p)
    /\ pc = "wait" => \A p \in Captured : threads[p] = "ended"
    /\ Returned => child = "none" \/ \A p \in Captured : threads[p] = "ended"

LEMMA OutputInit == Init => OutputInv
<1> SUFFICES ASSUME Init PROVE OutputInv
  OBVIOUS
<1>1. /\ os \in Platforms /\ pc = "where" /\ child = "none"
      /\ \A p \in Captured : /\ got[p] = <<>> /\ buffer[p] = <<>> /\ wrote[p] = <<>>
                             /\ threads[p] = "none"
  BY DEF Init, Captured, Pipes
<1>2. Divided(os, <<>>, <<>>, <<>>, 0)
  <2>1. TakenPosix(<<>>, <<>>, 0)
    BY DEF TakenPosix
  <2>2. TakenWin32(<<>>, <<>>, 0)
    <3>1. PICK f : f = [i \in 1..0 |-> 0]
      OBVIOUS
    <3>2. Len(<<>>) = 0 /\ 1..0 = {}
      OBVIOUS
    <3>3. f \in [1..Len(<<>>) -> {i \in 1..0 : <<>>[i] # CR}]
      BY <3>1, <3>2
    <3> QED
      BY <3>2, <3>3 DEF TakenWin32
  <2> QED
    BY <2>1, <2>2 DEF Divided, Taken
<1>3. \A p \in Captured : Flow(p)
  BY <1>1, <1>2 DEF Flow
<1> QED
  BY <1>1, <1>3 DEF OutputInv, Before, Alive, Returned

(* Steps that move no chunk of the output.                                  *)
LEMMA FlowStays ==
  ASSUME NEW p, got'[p] = got[p], buffer'[p] = buffer[p], wrote'[p] = wrote[p], os' = os, Flow(p)
  PROVE  Flow(p)'
  BY DEF Flow

LEMMA OutputNext ==
  ASSUME Shape, OutputInv, [Next]_vars
  PROVE  OutputInv'
<1> USE DEF Before, Alive, Returned, Drained
<1>out. \A p \in Captured : p \in Pipes /\ p # "input"
  BY DEF Captured, Pipes
<1>0. ASSUME UNCHANGED <<os, got, wrote>>, \A p \in Captured : buffer'[p] = buffer[p]
      PROVE  \A p \in Captured : Flow(p)'
  BY <1>0, FlowStays DEF OutputInv
<1>1. CASE UNCHANGED vars
  BY <1>0, <1>1 DEF vars, OutputInv
<1>2. CASE Where
  <2>1. /\ pc = "where" /\ pc' \in {"open", "filter"}
        /\ UNCHANGED <<os, holders, buffer, threads, got, child, wrote>>
    BY <1>2 DEF Where, WherePosix, LocateFile, Returns
  <2> QED
    BY <1>0, <2>1 DEF OutputInv
<1>3. CASE OpenPipes
  <2>1. pc = "open" /\ pc' \in {"fork", "filter"} /\ UNCHANGED <<os, buffer, threads, got, child, wrote>>
    BY <1>3 DEF OpenPipes, Returns
  <2> QED
    BY <1>0, <2>1 DEF OutputInv
<1>4. CASE Fork
  <2>1. pc = "fork" /\ UNCHANGED <<os, buffer, threads, got, wrote>>
    BY <1>4 DEF Fork
  <2>2. /\ pc' \in {"io", "filter"} /\ (pc' = "filter" => child' = child)
        /\ child' \in {"running", "gone", child}
        /\ child' = "running" => holders' = ChildEnds(holders)
    BY <1>4, <2>1 DEF Fork, ForkExec, CreateProcess, Started, ExecFails, NotStarted, Returns, OutputInv
  <2>3. \A p \in Captured : "child" \in ChildEnds(holders)[p]["write"]
    BY <1>out DEF ChildEnds
  <2> QED
    BY <1>0, <2>1, <2>2, <2>3 DEF OutputInv
<1>5. CASE StartThreads
  <2>1. /\ pc = "io" /\ pc' = "join" /\ UNCHANGED <<os, buffer, got, child, wrote>>
        /\ threads' = [p \in Pipes |-> "running"]
    BY <1>5 DEF StartThreads
  <2>2. \A p \in Captured : "child" \in holders[p]["write"] => "child" \in holders'[p]["write"]
    BY <1>5, <1>out DEF StartThreads
  <2> QED
    BY <1>0, <1>out, <2>1, <2>2 DEF OutputInv
<1>6. CASE Joined
  <2>1. /\ pc = "join" /\ pc' = "wait" /\ \A p \in Captured : threads[p] = "ended"
        /\ UNCHANGED <<os, holders, buffer, threads, got, child, wrote>>
    BY <1>6, <1>out DEF Joined
  <2> QED
    BY <1>0, <2>1 DEF OutputInv
<1>7. CASE WaitChild
  <2>1. /\ pc = "wait" /\ pc' = "filter" /\ child = "gone" /\ holders' = Closed
        /\ UNCHANGED <<os, buffer, threads, got, child, wrote>>
    BY <1>7 DEF WaitChild, WaitPid, WaitForProcess, Returns
  <2>2. \A p \in Captured : holders'[p]["write"] \subseteq holders[p]["write"]
    BY <1>out, <2>1 DEF Closed
  <2> QED
    BY <1>0, <2>1, <2>2 DEF OutputInv
<1>8. CASE FilterResult
  <2>1. /\ pc = "filter" /\ pc' = "done"
        /\ UNCHANGED <<os, holders, buffer, threads, got, child, wrote>>
    BY <1>8 DEF FilterResult
  <2> QED
    BY <1>0, <2>1 DEF OutputInv
<1>9. CASE WriteInput
  <2>1. UNCHANGED <<os, pc, got, child, wrote>>
    BY <1>9 DEF WriteInput
  <2>2. \A p \in Captured : /\ buffer'[p] = buffer[p] /\ threads'[p] = threads[p]
                           /\ holders'[p] = holders[p]
    BY <1>9, <1>out DEF WriteInput, WriterDone, WriteChunk, Shape
  <2> QED
    BY <1>0, <2>1, <2>2 DEF OutputInv
<1>10. ASSUME NEW p \in Captured, ReadOutput(p) PROVE OutputInv'
  <2>1. /\ threads[p] = "running" /\ pc \notin {"where", "open", "fork", "io"}
        /\ UNCHANGED <<os, pc, holders, child, wrote>>
    BY <1>10 DEF ReadOutput, OutputInv
  <2>2. CASE buffer[p] # <<>>
    <3>1. /\ got' = [got EXCEPT ![p] = @ \o Collected(Head(buffer[p]))]
          /\ buffer' = [buffer EXCEPT ![p] = Tail(@)] /\ UNCHANGED threads
      BY <1>10, <2>2 DEF ReadOutput
    <3>2. PICK n \in Nat : Divided(os, got[p], buffer[p], wrote[p], n)
      BY DEF OutputInv, Flow
    <3>3. got[p] \in Seq(Nat) /\ buffer[p] \in Seq(Nat) /\ wrote[p] \in Seq(Nat)
      BY <1>out DEF Shape
    <3>4. Divided(os, got[p] \o Collected(Head(buffer[p])), Tail(buffer[p]), wrote[p], n + 1)
      BY <2>2, <3>2, <3>3, ReaderTakes
    <3>5. got'[p] = got[p] \o Collected(Head(buffer[p])) /\ buffer'[p] = Tail(buffer[p])
      BY <1>out, <3>1 DEF Shape
    <3>6. Divided(os, got[p], buffer[p], wrote[p], n + 1)'
      BY <2>1, <3>4, <3>5
    <3>7. n + 1 \in Nat
      OBVIOUS
    <3>8. Flow(p)'
      BY <3>6, <3>7 DEF Flow
    <3>9. \A q \in Captured \ {p} : got'[q] = got[q] /\ buffer'[q] = buffer[q] /\ wrote'[q] = wrote[q]
      BY <1>out, <2>1, <3>1 DEF Shape
    <3>10. \A q \in Captured \ {p} : Flow(q)'
      BY <2>1, <3>9, FlowStays DEF OutputInv
    <3> QED
      BY <2>1, <3>1, <3>8, <3>9, <3>10 DEF OutputInv
  <2>3. CASE buffer[p] = <<>>
    <3>1. /\ holders[p]["write"] = {} /\ threads' = [threads EXCEPT ![p] = "ended"]
          /\ UNCHANGED <<got, buffer>>
      BY <1>10, <2>3 DEF ReadOutput
    <3>2. threads'[p] = "ended" /\ \A q \in Captured \ {p} : threads'[q] = threads[q]
      BY <1>out, <3>1 DEF Shape
    <3> QED
      BY <1>0, <2>1, <2>3, <3>1, <3>2 DEF OutputInv
  <2> QED
    BY <2>2, <2>3
<1>11. ASSUME NEW p \in Captured, ChildWrites(p) PROVE OutputInv'
  <2>1. PICK c \in {CR, 1 + Len(wrote[p])} :
          /\ buffer' = [buffer EXCEPT ![p] = Append(@, c)]
          /\ wrote' = [wrote EXCEPT ![p] = Append(@, c)]
    BY <1>11 DEF ChildWrites
  <2>2. /\ child = p /\ child' = "running" /\ child \in Alive
        /\ UNCHANGED <<os, pc, holders, threads, got>>
    BY <1>11 DEF ChildWrites, Captured
  <2>3. threads[p] # "ended" /\ \A q \in Captured : "child" \in holders[q]["write"]
    BY <2>2 DEF OutputInv
  <2>4. got[p] \in Seq(Nat) /\ buffer[p] \in Seq(Nat) /\ wrote[p] \in Seq(Nat) /\ c \in Nat
    BY <1>out DEF Shape, CR
  <2>5. PICK n \in Nat : Divided(os, got[p], buffer[p], wrote[p], n)
    BY DEF OutputInv, Flow
  <2>6. Divided(os, got[p], Append(buffer[p], c), Append(wrote[p], c), n)
    BY <2>4, <2>5, WriterAdds
  <2>7. buffer'[p] = Append(buffer[p], c) /\ wrote'[p] = Append(wrote[p], c) /\ got'[p] = got[p]
    BY <1>out, <2>1, <2>2 DEF Shape
  <2>8. Flow(p)'
    <3>1. Divided(os, got[p], buffer[p], wrote[p], n)'
      BY <2>2, <2>6, <2>7
    <3> QED
      BY <3>1 DEF Flow
  <2>9. \A q \in Captured \ {p} : got'[q] = got[q] /\ buffer'[q] = buffer[q] /\ wrote'[q] = wrote[q]
    BY <1>out, <2>1, <2>2 DEF Shape
  <2>10. \A q \in Captured \ {p} : Flow(q)'
    BY <2>2, <2>9, FlowStays DEF OutputInv
  <2> QED
    BY <2>2, <2>3, <2>8, <2>9, <2>10 DEF OutputInv
<1>12. CASE ChildBegins \/ ChildReads
  <2>1. /\ child \in Alive /\ child' \in Alive
        /\ UNCHANGED <<os, pc, holders, threads, got, wrote>>
    BY <1>12 DEF ChildBegins, ChildReads, Captured
  <2>2. \A p \in Captured : buffer'[p] = buffer[p]
    BY <1>12, <1>out DEF ChildBegins, ChildReads, Shape
  <2> QED
    BY <1>0, <2>1, <2>2 DEF OutputInv
<1>13. CASE ChildExits \/ ChildKilled
  <2>1. /\ child \in Alive /\ child' = "gone" /\ UNCHANGED <<os, pc, buffer, threads, got, wrote>>
        /\ holders' = [p \in Pipes |-> [e \in {"read", "write"} |-> holders[p][e] \ {"child"}]]
    BY <1>13 DEF ChildExits, ChildKilled, ChildGone
  <2>2. \A p \in Captured : holders'[p]["write"] \subseteq holders[p]["write"]
    BY <1>out, <2>1
  <2> QED
    BY <1>0, <2>1, <2>2 DEF OutputInv
<1> QED
  BY <1>1, <1>2, <1>3, <1>4, <1>5, <1>6, <1>7, <1>8, <1>9, <1>10, <1>11, <1>12, <1>13
     DEF Next, Main, Done

(* Nothing the filter wrote is lost, whatever was still in the pipes when   *)
(* it ended.                                                                *)
THEOREM OutputCorrect == Spec => []WholeOutput
<1>1. Shape /\ OutputInv => WholeOutput
  <2> SUFFICES ASSUME Shape, OutputInv, Returned, NEW p \in Captured
               PROVE  IF os = "win32" THEN WithoutCR(got[p], wrote[p]) ELSE got[p] = wrote[p]
    BY DEF WholeOutput
  <2>1. got[p] \in Seq(Nat) /\ buffer[p] \in Seq(Nat) /\ wrote[p] \in Seq(Nat)
    BY DEF Shape, Captured, Pipes
  <2>2. PICK n \in Nat : Divided(os, got[p], buffer[p], wrote[p], n)
    BY DEF OutputInv, Flow
  <2>3. buffer[p] = <<>>
    <3>1. CASE child = "none"
      <4>1. wrote[p] = <<>>
        BY <3>1 DEF OutputInv
      <4> QED
        BY <2>1, <2>2, <4>1 DEF Divided
    <3>2. CASE threads[p] = "ended"
      BY <3>2 DEF OutputInv, Drained
    <3> QED
      BY <3>1, <3>2 DEF OutputInv
  <2> QED
    BY <2>1, <2>2, <2>3, AllTaken
<1> QED
  BY <1>1, ShapeInit, ShapeNext, OutputInit, OutputNext, PTL DEF Spec
=============================================================================

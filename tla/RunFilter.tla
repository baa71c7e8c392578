----------------------------- MODULE RunFilter -----------------------------
(* `cov report --filter`: running the filter as a child process with its     *)
(* three standard streams on pipes (platform::run_filter, posix and win32),  *)
(* and what parser::filter makes of the outcome.  The filter itself is not   *)
(* ours: it may read, write, stop reading, exit or be killed whenever it     *)
(* likes.  Data are numbered chunks; a pipe holds at most Capacity of them.  *)
EXTENDS Integers, Sequences

CONSTANTS
    Platforms,      \* the ways execute() is written: "posix", "win32"
    InputChunks,    \* how many chunks the report file has
    Capacity,       \* of a pipe
    MaxWrites,      \* how many chunks the filter writes to each of its streams
    ExitCodes       \* what the filter may exit with, 0..255

ASSUME RunFilterAssumption ==
    /\ Platforms \subseteq {"posix", "win32"}
    /\ {InputChunks, Capacity, MaxWrites} \subseteq Nat /\ Capacity > 0
    /\ ExitCodes \subseteq 0..255

VARIABLES
    os,             \* which execute() is running
    pc,             \* where the parent's main thread is
    holders,        \* for each end of each pipe, the processes that have it open
    buffer,         \* for each pipe, the chunks in it
    todo,           \* the chunks the writer thread has still to write
    threads,        \* for each stream, "none", "running" or "ended"
    got,            \* what the reader threads have collected
    child,          \* the filter: "none", "running", "reading", "output", "error", "gone"
    status,         \* how the filter ended, as waitpid() sees it
    wrote,          \* ghost: what the filter wrote to each of its streams
    code,           \* captured_output::return_code
    result          \* what parser::filter returns or the error it raises

vars == <<os, pc, holders, buffer, todo, threads, got, child, status, wrote, code, result>>

Pipes == {"input", "output", "error"}
Captured == {"output", "error"}
Report == [i \in 1..InputChunks |-> i]
ENOENT == 2
EACCES == 13
EAGAIN == 11
ENOMEM == 12
NotEnded == [exited |-> FALSE, with |-> -1]
Fails(error) == [ok |-> FALSE, error |-> error]
ReturnsText(text) == [ok |-> TRUE, content |-> text]

(* What the filter writes: good chunks are parts of a JSON text; the text    *)
(* may have carriage returns in it, chunk 0.                                 *)
CR == 0

TypeOK ==
    /\ os \in Platforms
    /\ pc \in {"where", "open", "fork", "io", "join", "wait", "filter", "done"}
    /\ holders \in [Pipes -> [{"read", "write"} -> SUBSET {"parent", "child"}]]
    /\ \A p \in Pipes : Len(buffer[p]) <= Capacity
    /\ \A i \in DOMAIN todo : todo[i] \in DOMAIN Report
    /\ threads \in [Pipes -> {"none", "running", "ended"}]
    /\ child \in {"none", "running", "reading", "output", "error", "gone"}
    /\ code \in Int

Init ==
    /\ os \in Platforms
    /\ pc = "where" /\ child = "none" /\ status = NotEnded /\ code = 0
    /\ result = Fails("none")
    /\ holders = [p \in Pipes |-> [e \in {"read", "write"} |-> {}]]
    /\ buffer = [p \in Pipes |-> <<>>]
    /\ todo = Report
    /\ threads = [p \in Pipes |-> "none"]
    /\ got = [p \in Captured |-> <<>>]
    /\ wrote = [p \in Captured |-> <<>>]

-----------------------------------------------------------------------------
(* The main thread.  where(): the filter is looked for; on Windows a file    *)
(* without extension must be a Python script.                                *)
Returns(c) == code' = c /\ pc' = "filter"

WherePosix == os = "posix" /\ Returns(-ENOENT)
LocateFile == os = "win32" /\ \E c \in {-ENOENT, -EACCES} : Returns(c)

Where ==
    /\ pc = "where"
    /\ \/ WherePosix
       \/ LocateFile
       \/ pc' = "open" /\ UNCHANGED code
    /\ UNCHANGED <<os, holders, buffer, todo, threads, got, child, status, wrote, result>>

(* pipes.open(); what a failed one has opened, the destructors close. *)
Opened == [p \in Pipes |-> [e \in {"read", "write"} |-> {"parent"}]]
Closed == [p \in Pipes |-> [e \in {"read", "write"} |-> holders[p][e] \ {"parent"}]]

OpenPipes ==
    /\ pc = "open"
    /\ \/ Returns(128) /\ UNCHANGED holders
       \/ /\ holders' = Opened
          /\ pc' = "fork" /\ UNCHANGED code
    /\ UNCHANGED <<os, buffer, todo, threads, got, child, status, wrote, result>>

(* The child inherits every end and keeps the ones it was given; the parent  *)
(* closes these when io() begins.  execv() fails in the child, after the     *)
(* fork, CreateProcess() in the parent.                                      *)
ChildEnds(h) ==
    [p \in Pipes |-> [e \in {"read", "write"} |->
        IF (p = "input") = (e = "read") THEN h[p][e] \cup {"child"} ELSE h[p][e]]]

Started ==
    /\ child' = "running" /\ pc' = "io"
    /\ holders' = ChildEnds(holders)
    /\ UNCHANGED <<code, status>>

ExecFails ==
    /\ child' = "gone" /\ pc' = "io"
    /\ \E errno \in {ENOENT, EACCES} : status' = [exited |-> TRUE, with |-> 256 - errno]
    /\ UNCHANGED <<code, holders>>

NotStarted(codes) ==
    /\ \E c \in codes : Returns(c)
    /\ holders' = Closed
    /\ UNCHANGED <<child, status>>

ForkExec == os = "posix" /\ (Started \/ ExecFails \/ NotStarted({-EAGAIN, -ENOMEM}))
CreateProcess == os = "win32" /\ (Started \/ NotStarted({-ENOENT, 128}))

Fork ==
    /\ pc = "fork"
    /\ ForkExec \/ CreateProcess
    /\ UNCHANGED <<os, buffer, todo, threads, got, wrote, result>>

(* pipes.io(): the parent lets go of the child's ends and starts the         *)
(* threads.  (The wait Windows does before it on two pipes, which are not    *)
(* objects that can be waited for, returns at once.)                         *)
StartThreads ==
    /\ pc = "io"
    /\ holders' = [p \in Pipes |-> [e \in {"read", "write"} |->
                     IF (p = "input") = (e = "read") THEN holders[p][e] \ {"parent"}
                     ELSE holders[p][e]]]
    /\ threads' = [p \in Pipes |-> "running"]
    /\ pc' = "join"
    /\ UNCHANGED <<os, buffer, todo, got, child, status, wrote, code, result>>

(* The threads are joined in the order they were started. *)
Joined ==
    /\ pc = "join"
    /\ \A p \in Pipes : threads[p] = "ended"
    /\ pc' = "wait"
    /\ UNCHANGED <<os, holders, buffer, todo, threads, got, child, status, wrote, code, result>>

(* waitpid(): an exit code is a (signed) char; of a signal only that there   *)
(* was one.                                                                  *)
ReturnCodeOfExit(s) == IF s.exited THEN s.with ELSE 0

ReturnCode(s) ==
    IF os = "win32" THEN s.with
    ELSE IF s.exited THEN (IF s.with > 127 THEN s.with - 256 ELSE s.with)
    ELSE 1

WaitPid == os = "posix" /\ Returns(ReturnCode(status))
WaitForProcess == os = "win32" /\ (Returns(ReturnCode(status)) \/ Returns(128))

WaitChild ==
    /\ pc = "wait" /\ child = "gone"
    /\ WaitPid \/ WaitForProcess
    /\ holders' = Closed
    /\ UNCHANGED <<os, buffer, todo, threads, got, child, status, wrote, result>>

-----------------------------------------------------------------------------
(* The writer.  SIGPIPE is blocked in its thread, so that a filter that has  *)
(* stopped reading only ends the writing.                                    *)
WriterDoneOpen ==
    threads' = [threads EXCEPT !["input"] = "ended"] /\ UNCHANGED holders

WriterDone ==
    /\ threads' = [threads EXCEPT !["input"] = "ended"]
    /\ holders' = [holders EXCEPT !["input"]["write"] = @ \ {"parent"}]

BrokenPipe == holders["input"]["read"] = {}

WriteChunk ==
    /\ ~BrokenPipe /\ Len(buffer["input"]) < Capacity
    /\ buffer' = [buffer EXCEPT !["input"] = Append(@, Head(todo))]
    /\ todo' = Tail(todo)
    /\ UNCHANGED <<threads, holders>>

WriteInput ==
    /\ threads["input"] = "running"
    /\ \/ (todo = <<>> \/ BrokenPipe) /\ WriterDone /\ UNCHANGED <<buffer, todo>>
       \/ todo # <<>> /\ WriteChunk
    /\ UNCHANGED <<os, pc, got, child, status, wrote, code, result>>

(* A reader; the one of Windows drops every carriage return. *)
Collected(chunk) == IF os = "win32" /\ chunk = CR THEN <<>> ELSE <<chunk>>

ReadOutputUntilGone(p) ==
    /\ threads[p] = "running"
    /\ \/ /\ buffer[p] # <<>>
          /\ got' = [got EXCEPT ![p] = @ \o Collected(Head(buffer[p]))]
          /\ buffer' = [buffer EXCEPT ![p] = Tail(@)]
          /\ UNCHANGED threads
       \/ /\ holders[p]["write"] = {}
          /\ threads' = [threads EXCEPT ![p] = "ended"]
          /\ UNCHANGED <<got, buffer>>
    /\ UNCHANGED <<os, pc, holders, todo, child, status, wrote, code, result>>

ReadOutput(p) ==
    /\ threads[p] = "running"
    /\ \/ /\ buffer[p] # <<>>
          /\ got' = [got EXCEPT ![p] = @ \o Collected(Head(buffer[p]))]
          /\ buffer' = [buffer EXCEPT ![p] = Tail(@)]
          /\ UNCHANGED threads
       \/ /\ buffer[p] = <<>> /\ holders[p]["write"] = {}
          /\ threads' = [threads EXCEPT ![p] = "ended"]
          /\ UNCHANGED <<got, buffer>>
    /\ UNCHANGED <<os, pc, holders, todo, child, status, wrote, code, result>>

-----------------------------------------------------------------------------
(* The filter. *)
ChildBegins ==
    /\ child = "running"
    /\ \/ child' = "reading"
       \/ \E p \in Captured : Len(wrote[p]) < MaxWrites /\ child' = p
    /\ UNCHANGED <<os, pc, holders, buffer, todo, threads, got, status, wrote, code, result>>

ChildReads ==
    /\ child = "reading"
    /\ \/ buffer["input"] # <<>> /\ buffer' = [buffer EXCEPT !["input"] = Tail(@)]
       \/ buffer["input"] = <<>> /\ holders["input"]["write"] = {} /\ UNCHANGED buffer
    /\ child' = "running"
    /\ UNCHANGED <<os, pc, holders, todo, threads, got, status, wrote, code, result>>

ChildWrites(p) ==
    /\ child = p
    /\ Len(buffer[p]) < Capacity
    /\ \E chunk \in {CR, 1 + Len(wrote[p])} :
         /\ buffer' = [buffer EXCEPT ![p] = Append(@, chunk)]
         /\ wrote' = [wrote EXCEPT ![p] = Append(@, chunk)]
    /\ child' = "running"
    /\ UNCHANGED <<os, pc, holders, todo, threads, got, status, code, result>>

ChildGone ==
    /\ child' = "gone"
    /\ holders' = [p \in Pipes |-> [e \in {"read", "write"} |-> holders[p][e] \ {"child"}]]
    /\ UNCHANGED <<os, pc, buffer, todo, threads, got, wrote, code, result>>

ChildExits ==
    /\ child = "running" /\ \E c \in ExitCodes : status' = [exited |-> TRUE, with |-> c]
    /\ ChildGone

ChildKilled ==
    /\ child \in {"running", "reading", "output", "error"}
    /\ status' = [exited |-> FALSE, with |-> 1]
    /\ ChildGone

-----------------------------------------------------------------------------
(* parser::filter: output that is no JSON is shown and dropped, and any      *)
(* return code but 0 is an error.                                            *)
FilterResult ==
    /\ pc = "filter"
    /\ \E json \in BOOLEAN :
         result' = CASE code = 0 -> ReturnsText(IF json THEN got["output"] ELSE <<>>)
                     [] code = -ENOENT -> Fails("ERROR_FILTER_NOENT")
                     [] code = -EACCES -> Fails("ERROR_FILTER_ACCESS")
                     [] OTHER -> Fails("ERROR_FILTER_FAILED")
    /\ pc' = "done"
    /\ UNCHANGED <<os, holders, buffer, todo, threads, got, child, status, wrote, code>>

Done == pc = "done" /\ UNCHANGED vars

Main == Where \/ OpenPipes \/ Fork \/ StartThreads \/ Joined \/ WaitChild \/ FilterResult

Next ==
    \/ Main
    \/ WriteInput
    \/ \E p \in Captured : ReadOutput(p) \/ ChildWrites(p)
    \/ ChildBegins \/ ChildReads \/ ChildExits \/ ChildKilled
    \/ Done

(* Threads run when they can; the filter finishes a call that can finish and *)
(* does not go on for ever once nothing blocks it.                           *)
Fairness ==
    /\ WF_vars(Main) /\ WF_vars(WriteInput)
    /\ \A p \in Captured : WF_vars(ReadOutput(p)) /\ WF_vars(ChildWrites(p))
    /\ WF_vars(ChildReads) /\ SF_vars(ChildExits)

Spec == Init /\ [][Next]_vars /\ Fairness

-----------------------------------------------------------------------------
Returned == pc \in {"filter", "done"}

(* `kept` is what is left of `text` without its carriage returns: `at` names *)
(* where each of its chunks comes from.                                      *)
WithoutCR(kept, text) ==
    \E at \in [1..Len(kept) -> {i \in 1..Len(text) : text[i] # CR}] :
        /\ \A i, j \in 1..Len(kept) : i < j => at[i] < at[j]
        /\ \A i \in 1..Len(kept) : kept[i] = text[at[i]]
        /\ \A k \in 1..Len(text) : text[k] # CR => \E i \in 1..Len(kept) : at[i] = k

(* WholeOutput: once execute() returns, everything the filter wrote to its   *)
(* output and error streams before it ended has been collected, in order     *)
(* (without the carriage returns on Windows), also what was still in the     *)
(* pipes when it ended.                                                      *)
WholeOutput ==
    Returned => \A p \in Captured :
        IF os = "win32" THEN WithoutCR(got[p], wrote[p]) ELSE got[p] = wrote[p]

(* OnlyCleanExit: a report is taken from a filter only if it was found,      *)
(* started and exited with 0; one killed by a signal is never taken for      *)
(* successful, whatever it wrote.                                            *)
OnlyCleanExit ==
    pc = "done" /\ result.ok => status.exited /\ status.with = 0

(* Completes: run_filter returns once the filter exits: pipes that are full, *)
(* a filter that stops reading, never reads or writes before it reads cannot *)
(* make parent and filter wait for each other, although the writer is joined *)
(* before the readers.                                                       *)
Completes == <>(pc = "done")
=============================================================================

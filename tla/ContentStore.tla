---------------------------- MODULE ContentStore ----------------------------
(***************************************************************************)
(* What the object database promises: a growing set of objects.  A write   *)
(* adds its object at once; a read finds an object exactly if it is there; *)
(* a search by prefix settles on an object only if it is the only match.   *)
(***************************************************************************)
CONSTANTS Procs, Ids, Group, None

VARIABLES
    objs,   \* the objects that can be read
    job,    \* job[p]: the operation p is in, or None
    ans,    \* ans[p]: its answer once that is settled, or "open"
    res     \* res[p]: how the last operation of p ended

cvars == <<objs, job, ans, res>>

CInit ==
    /\ objs = {}
    /\ job = [p \in Procs |-> None]
    /\ ans = [p \in Procs |-> "open"]
    /\ res = [p \in Procs |-> "none"]

Begin(p, o) ==
    /\ job[p] = None
    /\ job' = [job EXCEPT ![p] = o]
    /\ res' = [res EXCEPT ![p] = "none"]
    /\ UNCHANGED <<objs, ans>>

Put(p) ==
    /\ job[p] # None /\ job[p].op = "write" /\ ans[p] = "open"
    /\ objs' = objs \cup {job[p].id}
    /\ ans' = [ans EXCEPT ![p] = "ok"]
    /\ UNCHANGED <<job, res>>

Matches(id) == {x \in objs : Group[x] = Group[id]}

\* The only object with that prefix is read next.
Settle(p) ==
    /\ job[p] # None /\ job[p].op = "find" /\ ans[p] = "open"
    /\ \E x \in objs :
        /\ Matches(job[p].id) = {x}
        /\ job' = [job EXCEPT ![p] = [op |-> "read", id |-> x]]
    /\ UNCHANGED <<objs, ans, res>>

Get(p) ==
    /\ job[p] # None /\ job[p].op = "read" /\ ans[p] = "open"
    /\ ans' = [ans EXCEPT ![p] = IF job[p].id \in objs THEN "found" ELSE "absent"]
    /\ UNCHANGED <<objs, job, res>>

\* The operation ends with its answer; it may fail, or its process be killed,
\* at any time.  A search that matches none or several ends as "absent".
Finish(p) ==
    /\ job[p] # None
    /\ job' = [job EXCEPT ![p] = None]
    /\ ans' = [ans EXCEPT ![p] = "open"]
    /\ \E r \in {"error"} \cup ({ans[p]} \ {"open"})
                 \cup (IF job[p].op = "find" /\ \A x \in objs : Matches(job[p].id) # {x}
                       THEN {"absent"} ELSE {}) :
            res' = [res EXCEPT ![p] = r]
    /\ UNCHANGED objs

CNext == \E p \in Procs :
    \/ \E o \in [op : {"write", "read", "find"}, id : Ids] : Begin(p, o)
    \/ Put(p) \/ Settle(p) \/ Get(p) \/ Finish(p)

CSpec == CInit /\ [][CNext]_cvars
=============================================================================

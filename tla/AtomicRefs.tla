----------------------------- MODULE AtomicRefs -----------------------------
(***************************************************************************)
(* What the reference store promises: one value per name; an operation     *)
(* takes effect at once, at most once, and exactly when it ends with "ok". *)
(***************************************************************************)
CONSTANTS Procs, Names, Ops, None

VARIABLES
    ref,    \* ref[n]: what a lookup of n yields, or None
    job,    \* job[p]: the operation p is in, or None
    res     \* res[p]: how the last operation of p ended

avars == <<ref, job, res>>

AInit ==
    /\ ref = [n \in Names |-> None]
    /\ job = [p \in Procs |-> None]
    /\ res = [p \in Procs |-> "none"]

Begin(p) ==
    /\ job[p] = None
    /\ \E o \in Ops : job' = [job EXCEPT ![p] = o]
    /\ res' = [res EXCEPT ![p] = "none"]
    /\ UNCHANGED ref

\* The operation takes effect: `val` is None for a removal.
Apply(p) ==
    /\ job[p] # None /\ job[p].op # "list"
    /\ ref' = [ref EXCEPT ![job[p].name] = job[p].val]
    /\ job' = [job EXCEPT ![p] = None]
    /\ res' = [res EXCEPT ![p] = "ok"]

\* The operation ends without an effect.
Quit(p) ==
    /\ job[p] # None
    /\ job' = [job EXCEPT ![p] = None]
    /\ \E r \in IF job[p].op = "list" THEN {"ok", "error"} ELSE {"error"} :
            res' = [res EXCEPT ![p] = r]
    /\ UNCHANGED ref

ANext == \E p \in Procs : Begin(p) \/ Apply(p) \/ Quit(p)

ASpec == AInit /\ [][ANext]_avars
=============================================================================

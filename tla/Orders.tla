------------------------------- MODULE Orders -------------------------------
(* Sorting, for the ordered containers and sorted vectors of the program.    *)
EXTENDS Integers, Sequences, FiniteSets

(* The elements of a set in the order of a strict total order. *)
Sorted(S, Less(_, _)) ==
    [i \in 1..Cardinality(S) |-> CHOOSE x \in S : Cardinality({y \in S : Less(y, x)}) = i - 1]

(* Tuples of numbers, compared member by member. *)
TupleLess(a, b) ==
    \E i \in 1..Len(b) :
        /\ i <= Len(a) + 1
        /\ \A j \in 1..i - 1 : a[j] = b[j]
        /\ i <= Len(a) => a[i] < b[i]
=============================================================================

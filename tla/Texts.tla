-------------------------------- MODULE Texts --------------------------------
(* Texts are sequences of characters (strings of one character; LF is a line *)
(* feed).  The helpers of path-utils.hh.                                     *)
EXTENDS Integers, Sequences, SequencesExt

LF == "\n"
Space == {" ", LF, "\t"}
Digits == <<"0", "1", "2", "3", "4", "5", "6", "7", "8", "9">>

(* The first position from i on where the character is (is not) one of set,  *)
(* Len(s) + 1 when there is none.                                            *)
FirstOf(s, i, set) ==
    LET at == {j \in i..Len(s) : s[j] \in set}
    IN  IF at = {} THEN Len(s) + 1 ELSE CHOOSE j \in at : \A k \in at : j <= k
FirstNotOf(s, i, set) ==
    LET at == {j \in i..Len(s) : s[j] \notin set}
    IN  IF at = {} THEN Len(s) + 1 ELSE CHOOSE j \in at : \A k \in at : j <= k

From(s, i) == SubSeq(s, i, Len(s))
Before(s, i) == SubSeq(s, 1, i - 1)

Lstrip(s) == From(s, FirstNotOf(s, 1, Space))
Rstrip(s) == Reverse(Lstrip(Reverse(s)))
Strip(s) == Rstrip(Lstrip(s))

(* The parts of s between its separators. *)
SplitBy(s, sep) ==
    LET cuts == {0} \cup {i \in 1..Len(s) : s[i] = sep} \cup {Len(s) + 1}
        n == Cardinality(cuts) - 1
        cut(k) == CHOOSE c \in cuts : Cardinality({d \in cuts : d < c}) = k
    IN  [k \in 1..n |-> SubSeq(s, cut(k - 1) + 1, cut(k) - 1)]

IsDigits(s) == s # <<>> /\ \A i \in 1..Len(s) : s[i] \in Range(Digits)
NumberOf(s) == FoldLeft(LAMBDA n, d : 10 * n + SelectInSeq(Digits, LAMBDA e : e = d) - 1, 0, s)
=============================================================================

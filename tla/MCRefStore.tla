----------------------------- MODULE MCRefStore -----------------------------
(* Instances of RefStore: a reference, and one that needs it as directory. *)
EXTENDS RefStore

N(d, s, e) == [dir |-> d, stem |-> s, ext |-> e, tmp |-> ""]
A == N(<<>>, "a", "")
AB == N(<< <<"a", "", "">> >>, "b", "")
ConflictingNames == {A, AB}

Op(op, n, v, e) == [op |-> op, name |-> n, val |-> v, exp |-> e]
AllOps ==
    {Op("create", n, v, None) : n \in Names, v \in Values}
      \cup {Op("copy", n, v, None) : n \in Names, v \in Values}
      \cup {Op("match", n, v, e) : n \in Names, v \in Values, e \in Values}
      \cup {Op("remove", n, None, None) : n \in Names}
      \cup {Op("list", n, None, None) : n \in {CHOOSE n \in Names : TRUE}}
=============================================================================

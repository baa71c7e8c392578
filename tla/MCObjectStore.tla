--------------------------- MODULE MCObjectStore ---------------------------
(* Instances of ObjectStore: two objects whose ids share a prefix.         *)
EXTENDS ObjectStore

TwoIds == {"a1", "a2"}
TwoGroups == [x \in TwoIds |-> "a"]
AllOps == OpType
=============================================================================

------------------------------ MODULE MCInputs ------------------------------
(* The sequential code, run on every small input: objects and hashes, the    *)
(* coverage of a file, templates and messages, the table of show, and what   *)
(* the user sets up.  Only a hash is fed step by step; any other subject is  *)
(* looked at as it is.                                                       *)
EXTENDS MCEncoding, MCReport, MCText, MCShow, MCSetup

Init == InitObjects \/ InitProps \/ InitHash \/ InitReport \/ InitText \/ InitSeen \/ InitHistory \/ InitSetup

Next == \/ \E n \in 0..2 * BlockBytes + 1 : FeedHash(n)
        \/ FinalizeHash
        \/ subject.part # "hash" /\ UNCHANGED subject

Spec == Init /\ [][Next]_subject
=============================================================================

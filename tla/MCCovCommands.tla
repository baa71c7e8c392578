--------------------------- MODULE MCCovCommands ---------------------------
(* Instances of CovCommands for TLC.                                       *)
EXTENDS CovCommands

\* A command with the fields every command has; each form sets its own.
Cmd(op, kind, name, base, up, data, force) ==
    [op |-> op, kind |-> kind, name |-> name, base |-> base, up |-> up,
     data |-> data, force |-> force]

CmdReport(d, amend) == Cmd("report", "heads", None, "HEAD", 0, d, amend)
CmdReset(base, up) == Cmd("reset", "heads", None, base, up, None, FALSE)
CmdCreate(kind, name, base, force) ==
    Cmd("create", kind, name, base, 0, None, force)
CmdBranch(name, base) == Cmd("branch", "heads", name, base, 0, None, FALSE)
CmdDelete(kind, name) == Cmd("delete", kind, name, "HEAD", 0, None, FALSE)
CmdCheckout(base) ==
    Cmd("checkout", "heads", IF base \in Names THEN base ELSE None, base, 0,
        None, FALSE)
CmdDetach(base, up) == Cmd("detach", "heads", None, base, up, None, FALSE)
CmdOrphan(name) == Cmd("orphan", "heads", name, "HEAD", 0, None, FALSE)

TwoNames == {"main", "topic"}
TwoData == {"d1", "d2"}
\* The two inputs share one unchanged file and differ in another.
SharedLeaves == [d \in TwoData |-> {"common", d}]
OneLeaf == [d \in TwoData |-> {d}]

OneTree == {"w1"}
AllAtOne == [p \in Procs |-> "w1"]
OneStart == [w \in OneTree |-> "main"]

\* Reports, amends and moves of HEAD on one branch.
HistoryCommands ==
    {CmdReport(d, a) : d \in TwoData, a \in BOOLEAN}
      \cup {CmdReset("HEAD", 1), CmdReset("SHA", 0), CmdDetach("HEAD", 0)}

\* Every form of branch, tag and checkout next to one report.
RefCommands ==
    {CmdReport("d1", FALSE), CmdDelete("heads", "topic"),
     CmdDelete("tags", "topic"), CmdCheckout("topic"), CmdCheckout("HEAD"),
     CmdOrphan("topic"), CmdBranch("topic", "HEAD"), CmdReset("topic", 1)}
      \cup {CmdCreate(k, "topic", "HEAD", f) : k \in Kinds, f \in BOOLEAN}

\* Reports and amends that race with each other and with a reset.
RetryCommands ==
    {CmdReport(d, a) : d \in TwoData, a \in BOOLEAN} \cup {CmdReset("HEAD", 1)}

AllCommands == HistoryCommands \cup RefCommands
SerialCommands == AllCommands \ {CmdReset("SHA", 0)}

ReportCommands == {CmdReport(d, FALSE) : d \in TwoData}
=============================================================================

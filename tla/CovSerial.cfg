SPECIFICATION Spec
CONSTANTS
    Zero = Zero
    None = None
    Procs = {"p1"}
    Worktrees <- OneTree
    At <- AllAtOne
    StartBranch <- OneStart
    Names <- TwoNames
    Data <- TwoData
    Leaves <- SharedLeaves
    Commands <- SerialCommands
    MaxCommands = 5
    Faults = {"crash"}
PROPERTIES
    ReportOnTop
    NeverDeletesCurrent

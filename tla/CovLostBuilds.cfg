SPECIFICATION Spec
CONSTANTS
    Zero = Zero
    None = None
    Procs = {"p1", "p2"}
    Worktrees <- OneTree
    At <- AllAtOne
    StartBranch <- OneStart
    Names <- TwoNames
    Data <- TwoData
    Leaves <- OneLeaf
    Commands <- ReportCommands
    MaxCommands = 2
    Faults = {}
INVARIANTS
    BuildListed

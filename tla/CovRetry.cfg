SPECIFICATION FairSpec
CONSTANTS
    Zero = Zero
    None = None
    Procs = {"p1", "p2"}
    Worktrees <- OneTree
    At <- AllAtOne
    StartBranch <- OneStart
    Names <- TwoNames
    Data <- TwoData
    Leaves <- OneLeaf
    Commands <- RetryCommands
    MaxCommands = 3
    Faults = {}
PROPERTIES
    Finishes

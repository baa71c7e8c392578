SPECIFICATION FairSpec
CONSTANTS
    None = None
    Procs = {"p1", "p2"}
    Names <- ConflictingNames
    Values = {"v1", "v2"}
    Inodes = {1, 2, 3, 4, 5, 6}
    Ops <- AllOps
    MaxOps = 3
    Faults = {"open", "crash"}
INVARIANTS
    NoLitter
PROPERTIES
    RefinesAtomicRefs
    Returns

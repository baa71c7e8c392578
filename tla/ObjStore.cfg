SPECIFICATION FairSpec
CONSTANTS
    None = None
    Procs = {"p1", "p2"}
    Ids <- TwoIds
    Group <- TwoGroups
    Inodes = {1, 2, 3, 4, 5, 6}
    Ops <- AllOps
    MaxOps = 4
    Faults = {"crash", "open"}
INVARIANTS
    NamedByContent
    StoredIsReadable
PROPERTIES
    RefinesContentStore
    LookupReturns

SPECIFICATION Spec
CONSTANTS
    Procs = {p1, p2}
    p1 = p1
    p2 = p2
    MaxInits = 3
    MaxFaults = 1
SYMMETRY Symmetry
INVARIANTS
    ValidIsWhole
PROPERTIES
    KeepsRepository
    InitIsFound

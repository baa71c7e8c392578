SPECIFICATION Spec
CONSTANTS
    Platforms = {"posix", "win32"}
    InputChunks = 3
    Capacity = 1
    MaxWrites = 2
    ExitCodes = {0, 1, 254}
INVARIANTS
    WholeOutput
    OnlyCleanExit
PROPERTY
    Completes

SPECIFICATION Spec
CONSTANTS
    Byte = 4
    HashByte = 4
    HashWord = 2
    BlockBytes = 8
    MaxMessage = 40
    Bits = 8
    NotGiven = NotGiven
    LastLine = 16
    MaxText = 4
    MaxPieces = 3
    MaxLines = 6
    MaxReports = 4
INVARIANTS
    LoadsBack
    HashOfMessage
    LinesSurvive
    RatiosExact
    VerifiedText
    FunctionsCounted
    MissedAreShown
    TemplateKept
    OptionalOutput
    WrappedText
    DatesTold
    JudgedRight
    StatsConserved
    TableAligned
    ModulesKept
    SettingsObeyed
    WordsArrive
    ExcludedAsMarked
    LogIsRange

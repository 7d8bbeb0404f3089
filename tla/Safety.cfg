CONSTANTS
    MaxJobs = 1
    NBlocks = 2
    Owners <- MCOwners
    Named = {"update"}
    Sources <- MCSources
    None = None
    Files = {"new", "bad"}
    Good <- MCGood
    Metas = {"mnew", "mbad"}
    MetaFile <- MCMetaFile
    MetaSha <- MCMetaSha
    MetaVer <- MCMetaVer
    MetaTime <- MCMetaTime
    MetaValid <- MCMetaValid
    Factory = Factory
    VerOf <- MCVerOf
    TimeOf <- MCTimeOf
    Retries = 1
    Commands <- MCManual
    LoopCommands <- MCCheckOnly
    Strategies <- MCTwoStrategies
    NBufs = 2
    Ring = 4
    Msgs = {"val", "full", "long", "other"}
    MsgLen <- MCLen
    MsgTopic <- MCTopic
    MaxLost = 1
    NoMsg = NoMsg
    SecsPerMin = 3
    MinsPerHour = 2
    HoursPerDay = 2
    DaysPerWeek = 2
    MonthsPerYear = 2
    MonthDays <- MCMonthDays
    Years = 14
    DayTries = 6
    Exprs <- MCExprs
    CheckSecs = 1
    CrDates <- MCDates
    Known = {"wifi", "mqtt"}
    Unknown = {"junk"}
    Values = {"a", "b"}
    MaxVars = 2
    DataBits = {0, 1, 2, 3, 4}
    Parity = 31
    NChunks = 3
    NServices = 1
    MaxFrames = 2
    MaxDrops = 1
SPECIFICATION SafSpec
INVARIANTS
    SafTypeOK
    NeverBootBroken
    AcceptedIsSent
    CellsWhole
    PlainIsNext
PROPERTIES
    HooksReadStable
    ConfigKept
    ChannelSpec
    FirmwareSpec
CHECK_DEADLOCK FALSE

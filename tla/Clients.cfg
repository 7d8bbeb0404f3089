CONSTANTS
    MaxJobs = 1
    NBlocks = 2
    Owners <- MCOwners
    Named = {"update"}
    Sources <- MCSources
    None = None
    Files = {"new", "old"}
    Good <- MCGood
    Metas = {"mnew", "mold"}
    MetaFile <- MCMetaFile
    MetaSha <- MCMetaSha
    MetaVer <- MCMetaVer
    MetaTime <- MCMetaTime
    MetaValid <- MCMetaValid
    Factory = Factory
    VerOf <- MCVerOf
    TimeOf <- MCTimeOf
    Retries = 2
    Commands <- MCAuto
    LoopCommands <- MCCheckApply
    Strategies <- MCNoStrategies
    NNets = 2
    Reach = {1}
    MaxFaults = 3
    MaxTopics = 2
    MaxComps = 2
    Comps0 = 1
    MaxErrs = 1
    ErrWrap = 3
SPECIFICATION CliSpec
INVARIANTS
    MqttTypeOK
    ConfiguredIsSubscribed
    UpIsKnown
PROPERTIES
    PauseEnds
    CheckEnds
    UpdateEnds
    NoDowngrade
    MqttServes
CHECK_DEADLOCK FALSE

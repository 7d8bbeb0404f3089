\* cancel once the image is found valid.
CONSTANTS
    MaxJobs = 1
    NBlocks = 1
    Owners <- MCOwners
    Named = {}
    Sources <- MCSources
    None = None
    Files = {"new"}
    Good <- MCGood
    Metas = {"mnew"}
    MetaFile <- MCMetaFile
    MetaSha <- MCMetaSha
    MetaVer <- MCMetaVer
    MetaTime <- MCMetaTime
    MetaValid <- MCMetaValid
    Factory = Factory
    VerOf <- MCVerOf
    TimeOf <- MCTimeOf
    Retries = 1
    Commands <- MCAll
    LoopCommands <- MCNone
    Strategies <- MCNoStrategies
SPECIFICATION Spec
INVARIANT PausedOnlyForUpdate

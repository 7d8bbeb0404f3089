\* All commands, two jobs: late jobs and packets of an update.
CONSTANTS
    MaxJobs = 2
    NBlocks = 2
    Owners <- MCOwners
    Named = {}
    Sources <- MCSources
    None = None
    Files = {"new"}
    Good <- MCGood
    Metas = {"mnew"}
    MetaFile <- MCMetaFile
    MetaSha <- MCMetaSha
    MetaVer <- MCMetaVer
    MetaTime <- MCMetaTime
    MetaValid <- MCMetaValid
    Factory = Factory
    VerOf <- MCVerOf
    TimeOf <- MCTimeOf
    Retries = 1
    Commands <- MCAll
    LoopCommands <- MCAll
    Strategies <- MCNoStrategies
SPECIFICATION Spec
INVARIANTS
    TypeOK
    KeptClientHasUpdate
    
PROPERTIES
    UpdateKeepsJob
    ValidSlotFrozen
CHECK_DEADLOCK FALSE

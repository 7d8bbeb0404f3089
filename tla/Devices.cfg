CONSTANTS
    Relays = {"r"}
    Therms = {"a"}
    RelayOf <- MCRelayOf
    Degrees = {1, 2}
    Hysts <- MCHysts
    MaxTime = 1
    Temps = {1, 2, 3}
    Default = 3
    RangeMin = 2
    RangeMax = 3
    Step = 2
    Written = {0, 2}
    BoilerKinds <- MCBoilers
    MaxFinds = 2
    MaxRetries = 2
    Supported = 1
    Dead = 1
    NQueries = 2
    OneTime = {1}
    NReports = 2
    VoRoom = 3
    VoMaxFaults = 3
    NSensors = 3
    BusOf <- MCBuses
    NSamples = 2
    ErrThr = 2
    ShtMaxFaults = 2
SPECIFICATION DevSpec
INVARIANTS
    DevTypeOK
    ReplyMatches
PROPERTIES
    
    StopsHeating
    LostOnlyIfSilent
    BoilerObeys
    InverterRead
    
CHECK_DEADLOCK FALSE

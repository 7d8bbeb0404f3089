\* A boiler that is switched off and on, without raw writes.
CONSTANTS
    Temps = {1, 2}
    Default = 2
    RangeMin = 1
    RangeMax = 2
    Step = 1
    Written = {}
    BoilerKinds <- MCBoilers
    MaxFinds = 2
    MaxRetries = 2
    Supported = 1
    Dead = 1
SPECIFICATION OtSpec
PROPERTY SetPointKept
CHECK_DEADLOCK FALSE

\* One script with a startup delay, and no other requests.
CONSTANTS
    NScripts = 1
    Delay = 1
    Period = 1
    NLines = 1
    MaxClock = 3
    ScMaxEvents = 0
SPECIFICATION ScSpec
PROPERTY StartsAfterDelay
CHECK_DEADLOCK FALSE

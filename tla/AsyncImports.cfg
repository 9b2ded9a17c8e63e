SPECIFICATION AsyncSpec
CONSTANTS
    Parts = {"modules"}
    MaxPromises = 3
    MaxOps = 4
    Kinds = {"all"}
    Returned = {}
    Fds = {f1}
    MaxDelay = 2
    MaxScriptOps = 4
    MaxModule = 3
    MaxRequests = 4
    MaxAwaits = 3
PROPERTY ImportsSettle
\* A behaviour ends when its bounds are used up.
CHECK_DEADLOCK FALSE

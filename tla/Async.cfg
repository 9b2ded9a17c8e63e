SPECIFICATION AsyncSpec
CONSTANTS
    Parts = {"promises", "loop", "modules", "generator"}
    MaxPromises = 3
    MaxOps = 4
    Kinds = {"all", "allSettled", "any"}
    Returned = {"prom", "throwing"}
    Fds = {f1, f2}
    MaxDelay = 2
    MaxScriptOps = 4
    MaxModule = 3
    MaxRequests = 4
    MaxAwaits = 3
INVARIANTS AsyncTypeOK ReactionsOnce Adoption AllReported RequestsFirst ImportOutcome LinkedClosed RightRequest
PROPERTIES AdoptedSettles LoopProgress ImportsSettleUnlessLate AnsweredUnlessCompleted
\* A behaviour ends when its bounds are used up.
CHECK_DEADLOCK FALSE

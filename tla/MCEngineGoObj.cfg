SPECIFICATION EngineSpec
CONSTANTS
    Parts = {"gc"}
    Plain = {a}
    VarRefs = {}
    WeakRefs = {}
    FinRecs = {}
    GoObjs = {g}
    Nothing = Nothing
    MaxKids = 2
    MaxRoots = 1
    MaxJobs = 1
    MaxLive = 4
    Values <- MCValues
    Names = {x, y}
    MaxArgs = 1
    MaxCalls = 3
    IntBits = 3
    MantBits = 4
    LongBits = 6
    Numbers <- MCNumbers
    JsNumbers = {5}
    Lengths = {3, 4}
    Vars = {p, q}
    MaxWrites = 2
    Patterns <- MCPatterns
    Texts <- MCTexts
    Multiline = {FALSE, TRUE}
    MapKeys = {k, l}
    Iters = {i, j}
    IterValues = FALSE
    Threshold = 2
    MaxRecords = 3
    MaxForEach = 2
    MaxObject = 2
    MaxAtom = 2
    PropFlags = {0, 1}
    InitialSize = 1
    InitialHash = 1
    DeleteLimit = 2
    HashBits = 4
    MaxChanges = 2
INVARIANT NoUseAfterFree
\* A behaviour ends when its bounds are used up.
CHECK_DEADLOCK FALSE

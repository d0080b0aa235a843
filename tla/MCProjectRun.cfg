SPECIFICATION Spec
CONSTANTS
    a = a
    b = b
    c = c
    conf = conf
    t1 = t1
    t2 = t2
    gone = gone
    top = top
    sub = sub
    w1 = w1
    w2 = w2
    Modules <- MCModules
    Conf = conf
    Texts <- MCTexts
    Gone = gone
    Broken <- MCBroken
    Roots = {top}
    Under <- MCUnder
    Context <- SameContext
    Names <- MCNames
    Prefixes <- MCPrefixes
    ImportNames <- MCImportNames
    StartsFrom <- MCStartsFrom
    DottedPath <- MCDottedPath
    Imports <- MCImports
    Derives <- MCDerives
    Suffixes = FALSE
    Order <- MCOrder
    NoReport = NoReport
    Workers = {w1, w2}
    NoText = NoText
    Damaged = Damaged
    Projects <- MCProjects
    Jobs = {"serial", "pool"}
    LiveEdits = {"serial"}
    MaxRuns = 2
    MaxEdits = 1
    MaxFaults = 1
INVARIANTS
    CacheSound
    ResultsSound
    ImportsAreSpooled
PROPERTIES
    RunEnds
    PromiseKept
CHECK_DEADLOCK FALSE

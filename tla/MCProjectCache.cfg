SPECIFICATION Spec
CONSTANTS
    Processes = {p1, p2}
    Pids = {i1, i2, i3}
    Keys = {k1}
    Entries <- MCEntries
    None = None
    Miss = Miss
    Nothing = Nothing
    MaxStarts = 2
INVARIANTS
    EntriesAreWhole
PROPERTIES
    PromiseKept
CHECK_DEADLOCK FALSE

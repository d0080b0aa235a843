\* Functions of every statement, and all graphs of four blocks with at most two
\* successors each.
SPECIFICATION MCSpec
CONSTANTS
    Programs <- MCPrograms
    Blocks = {1, 2, 3, 4}
    Root = 1
    NoBlock = 0
    MaxSuccessors = 2
INVARIANTS
    GraphIsFaithful
    LoadsSeeTheLastStore
    TreeIsExact
PROPERTY
    TreeIsDone
CHECK_DEADLOCK FALSE

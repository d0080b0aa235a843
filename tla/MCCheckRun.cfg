SPECIFICATION Spec
CHECK_DEADLOCK FALSE
CONSTANTS
    Report <- MCReport
    Refine <- MCRefine
    Projects <- MCProjects
    LateProjects <- MCLateProjects
    Keys = {"k1"}
    TestFiles <- MCTestFiles
    Baselines <- MCBaselines
INVARIANTS
    NothingIsHidden
    ExactlyTheNewAreReported
    RefinementsAreTraced
    StoppedChecksKeepTheBaseline
PROPERTIES
    KeyedStaysKeyed

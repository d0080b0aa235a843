SPECIFICATION Spec
CONSTANTS
    Kinds <- MCKinds
    ValidatedKinds <- MCValidated
    Programs <- MCPrograms
    Judged <- MCJudged
INVARIANTS RefutedIsHarmless HotspotsAreGuarded
CHECK_DEADLOCK FALSE

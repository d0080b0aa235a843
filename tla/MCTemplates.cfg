SPECIFICATION Spec
CONSTANTS
    Functions <- MCFunctions
    DjangoLibraries <- MCOwn
    EscapingFilters <- MCEscapingFilters
    PageLimit = 60
    VariantLimit = 3
    Names <- MCNames
    MaxIncludes = 3
    Projects <- MCProjects
    EscapedIn <- MCEscapedIn
    ReachedIn <- MCReachedIn
INVARIANTS EscapedPrintsAreProtected CallsAreReached ReplacedIsNotClaimed
CHECK_DEADLOCK FALSE

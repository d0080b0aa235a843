SPECIFICATION Spec
CHECK_DEADLOCK FALSE
CONSTANTS
    MaxReceiverCalls = 3
    MaxMade = 5
    TemplateCalls <- MCTemplateCalls
    Installable <- MCInstallable
    Modules <- MCModules
    Projects <- MCProjects
    Report <- MCReport
    Held <- MCHeld
INVARIANTS
    CalledIsResolved
    RuledOutIsHarmless
    MetConditionsHold
    InputIsCorrelated
    NotAffectedIsUnreached

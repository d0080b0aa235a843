SPECIFICATION Spec
CONSTANTS
    clean = clean
    source = source
    Functions <- MCFunctions
    Modules <- MCModules
    ModuleOf <- MCModuleOf
    Unsupported <- MCUnsupported
    Externals <- MCExternals
    Kinds <- MCKinds
    Clears <- MCClears
    Codes <- MCCodes
INVARIANTS
    ComponentsAreCycles
    WavesFollowImports
    SettledIsLeast
PROPERTY
    EveryModuleSettles
CHECK_DEADLOCK FALSE

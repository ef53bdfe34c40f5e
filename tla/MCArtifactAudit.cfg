SPECIFICATION Spec
CONSTANTS
    None = None
    Packages <- MCPackages
    Stagings <- MCStagings
    RuntimeDeps <- MCDepends
    Strangers <- PayloadStrangers
    Disturbed <- PayloadStages
    MaxEdits = 2
    MaxDetour = 12
    Accidents <- MCAccidents
INVARIANTS
    InstallsWhatWasBuilt
    OwnArchivePasses
    LinkStaysInFhs
    ScriptsFindInterpreters
    ProgramsLoadFromTarget
CHECK_DEADLOCK FALSE

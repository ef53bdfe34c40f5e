SPECIFICATION Spec
CONSTANTS
    Catalogue <- Recipes
    Sorted <- MCSorted
    Unloadable <- MCUnloadable
    Graphs <- MCGraphs
    Selections <- MCSelections
    Nobody = Nobody
INVARIANTS
    BuildsLackNothing
    OnlyDependentsAreBlocked
    InstalledProgramsRun
PROPERTIES
    BuildOrderIsAPlan
    UploadsFollowDependencies
    InstallPlanIsComplete
CHECK_DEADLOCK FALSE

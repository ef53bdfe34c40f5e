SPECIFICATION Spec
CONSTANTS
    c1 = c1
    c2 = c2
    app = app
    lib = lib
    broken = broken
    ghost = ghost
    soname = soname
    Clients = {c1, c2}
    Packages <- MCPackages
    Deps <- MCDeps
    Links <- MCLinks
    Commands <- MCCommands
    Plan <- MCPlan
    Failed = Failed
    Repos = 2
SYMMETRY ClientSymmetry
CONSTRAINT FailuresAlone
INVARIANTS
    DependenciesComeFirst
    OnlyVerifiedIsExtracted
    OkIsInstalled
PROPERTY InstalledSurvives

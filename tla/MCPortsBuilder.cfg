SPECIFICATION Spec
CONSTANTS
    lib = lib
    tool = tool
    app = app
    Ports <- MCPorts
    Requires <- MCRequires
    InstallDeps <- MCInstallDeps
    BuildOrder <- MCBuildOrder
    UploadOrder <- MCUploadOrder
    Selections <- MCSelections
    Plans <- BuilderPlans
    MaxBuilds = 4
INVARIANTS
    BuiltIsSound
    SuccessIsFresh
    ChainedUploadIsSound

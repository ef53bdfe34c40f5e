SPECIFICATION Spec
CONSTANTS
    Components <- MCComponents
    Checkouts <- MCCheckouts
    Stamp <- MCStamp
    Lock <- MCLock
    CratesOf <- MCCratesOf
    Files = {"a", "b"}
    FilesOf <- MCFilesOf
    None = None
    Junk = Junk
    Unpatched = Unpatched
INVARIANTS
    CompilesFromPinnedInputs
    StagedIsPinned
    OfflineRepeatWorks

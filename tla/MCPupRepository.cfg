SPECIFICATION FairSpec
CONSTANTS
    r1 = r1
    r2 = r2
    new = new
    old = old
    None = None
    Absent = Absent
    Malformed = Malformed
    NoDeps <- MCNoDeps
    Requests = {r1, r2}
    Fullnames <- MCFullnames
    Contents <- MCContents
    Digests <- MCDigests
    Sha1 <- MCSha1
    Size <- MCSize
    DepLists <- MCDepLists
    Forms <- AllForms
    Legacy <- MCLegacy
INVARIANTS
    RecordsAgreeOnSha1
    ConflictIsJustified
PROPERTIES
    ImplementsCatalog
    StagingIsReclaimed
CHECK_DEADLOCK FALSE

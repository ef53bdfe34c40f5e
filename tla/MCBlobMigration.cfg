SPECIFICATION MigrationSpec
CONSTANTS
    r1 = r1
    new = new
    old = old
    old2 = old2
    None = None
    Absent = Absent
    Malformed = Malformed
    NoDeps <- MCNoDeps
    Requests = {r1}
    Fullnames <- MCFullnames
    Contents <- MCContents
    Digests <- MCDigests
    Sha1 <- MCSha1
    Size <- MCSize
    DepLists <- MCDepLists
    Forms <- MCForms
    Legacy <- MCLegacy
    Workers = 2
    Runs = 2
INVARIANTS
    CompletedIsMirrored
    ManifestIsCatalogue
    RerunsAgree
CHECK_DEADLOCK FALSE

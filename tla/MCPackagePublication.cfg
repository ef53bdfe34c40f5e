SPECIFICATION PublicationSpec
CONSTANTS
    r1 = r1
    r2 = r2
    c1 = c1
    c2 = c2
    lib1 = lib1
    lib2 = lib2
    app1 = app1
    None = None
    Absent = Absent
    Malformed = Malformed
    NoDeps <- MCNoDeps
    Requests = {r1, r2}
    Publishers = {c1, c2}
    Fullnames <- MCFullnames
    Contents <- MCContents
    Digests <- MCDigests
    Sha1 <- MCSha1
    Size <- MCSize
    DepLists <- MCDepLists
    Forms <- MCForms
    Waves <- MCWaves
    Legacy <- NoLegacy
    NameOf <- MCNameOf
    Rank <- MCRank
    KeysOf <- MCKeysOf
    VerifyAttempts = 2
SYMMETRY PublisherSymmetry
INVARIANTS
    CatalogueIsClosed
    RetriesAreNotRefused
    RegisteredIsPublished
CHECK_DEADLOCK FALSE

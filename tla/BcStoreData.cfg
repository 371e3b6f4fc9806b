CONSTANTS
    h1 = h1
    h2 = h2
    h3 = h3
    b1 = b1
    b2 = b2
    NoHash = NoHash
    Hash <- MCDataHash
    Bucket <- MCDataBucket
    bc_table_hash <- MCDataTableHash
    Payload <- MCDataPayload
    Cell <- MCCell
    shcrc32 <- MCCrc
    PerJournal = 2
    MaxRecs = 2
    MaxCells = 3
    MaxArch = 2
SPECIFICATION Spec
INVARIANTS Readable
PROPERTIES ArchiveStable

CONSTANTS
    h1 = h1
    h2 = h2
    h3 = h3
    b1 = b1
    b2 = b2
    NoHash = NoHash
    Hash <- MCLookupHash
    Bucket <- MCLookupBucket
    bc_table_hash <- MCLookupTableHash
    Payload <- MCLookupPayload
    Cell <- MCCell
    shcrc32 <- MCCrc
    PerJournal = 4
    MaxRecs = 3
    MaxCells = 4
    MaxArch = 1
SPECIFICATION Spec
INVARIANTS TypeOK TableSound FindExact

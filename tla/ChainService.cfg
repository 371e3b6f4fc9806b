CONSTANTS
    MaxHeight = 4
    ValidateSpan = 3
    WalletSpan = 3
    Unreadable = {2}
SPECIFICATION FairSpec
INVARIANTS
    TypeOK
    OneScan
    Validated
PROPERTIES
    ComesToRest

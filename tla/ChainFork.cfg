CONSTANTS
    None = None
    G = G
    A1 = A1
    A2 = A2
    A3 = A3
    A4 = A4
    B1 = B1
    B2 = B2
    B3 = B3
    cG = cG
    cA1 = cA1
    cA2 = cA2
    cA3 = cA3
    cA4 = cA4
    cB1 = cB1
    cB2 = cB2
    cB3 = cB3
    tX = tX
    tY = tY
    tZ = tZ
    tW = tW
    Genesis = G
    Block <- TreeBlocks
    hashPrevBlock <- TreePrev
    Tx <- TreeTx
    vout <- TreeOuts
    SigOk <- TreeTx
    CheckBlockOk <- TreeBlocks
    coinbase_maturity = 1
    MaxHeight = 4
    MaxRefs = 2
    GetBlockWork <- UnitWork
    vtx <- ApartVtx
    vin <- ApartVin
    Ahead = {B2}
    PoolTx = {tX}
    ChecksInputs = TRUE
    KeepsAnyOrphan = FALSE
    LoadsUpward = FALSE
    Addresses <- AnyOrder
SPECIFICATION FairSpec
INVARIANTS
    TypeOK
    BestIsHeaviest
    StoreFollowsBest
    ForwardLinks
    SpendsFollowBest
    TxFollowBest
    IndexedObtainable
    NoStrandedOrphan
PROPERTIES
    CommitClearsPool
    RestartKeepsBest
    Converges

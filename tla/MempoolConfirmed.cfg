CONSTANTS
    None = None
    g = g
    a1 = a1
    b1 = b1
    d1 = d1
    e1 = e1
    f1 = f1
    Tx <- PoolTxs
    Out <- PoolOuts
    vin <- PoolVin
    Genesis = {g}
    weight <- PoolWeight
    hash <- PoolHash
    dFeePriority <- PoolPriority
    Keeps <- PoolKeeps
    MaxWeight = 2
    MaxQueueMem = 2
    MaxInval = 2
SPECIFICATION Spec
INVARIANTS
    ConfirmedNotQueued
CHECK_DEADLOCK FALSE

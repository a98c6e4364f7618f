CONSTANTS
    Blocks <- MCBlocks
    Genesis = 0
    K = 1
    Shards <- MCShards
    Me = 1
    Outputs = {o1}
    Ori <- MCOri
    BlocksOf <- MCBlocksOf
    InclBlocks <- MCNoIncl
    MaxParents = 1
    Miner = miner
    NetWorkers = {n1}
    OrphanArrival = FALSE
    EarlySamples = {FALSE, TRUE}
    FraudBlocks = {}
SPECIFICATION Spec
CHECK_DEADLOCK FALSE
INVARIANTS
    ReportsApplied

CONSTANTS
    Blocks <- MCBlocks
    Genesis = 0
    K = 1
    Shards <- MCShards
    Me = 1
    Outputs = {o1}
    Ori <- MCOri
    BlocksOf <- MCTwoForeign
    InclBlocks <- MCIncl
    MaxParents = 2
    Miner = miner
    NetWorkers = {n1}
    OrphanArrival = TRUE
    EarlySamples = {FALSE, TRUE}
    FraudBlocks = {3}
SPECIFICATION Spec
CHECK_DEADLOCK FALSE
INVARIANTS
    DecidedOutputsAnswered

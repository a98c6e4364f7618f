CONSTANTS
    i1 = i1  x1 = x1  o2 = o2  none = none
    c1 = c1  c4 = c4  u3 = u3  u4 = u4  u5 = u5
    Txs <- MCTxs
    Flag <- MCFlag
    InputsOf <- MCInputsOf
    Creates <- MCCreates
    Units <- MCUnits
    TmyParts <- MCTmyParts
    OwnTmy <- MCOwnTmy
    SelfOut <- MCSelfOut
    NoTx = none
    Orders = {1}
    BlockSize = 2
    MaxHeight = 2
    MaxSent = 1
    Ties = FALSE
    MaxResend = 1
SPECIFICATION Spec
INVARIANTS
    TypeOK
    MempoolConsistent
    UnitsConserved
    CandidateValid
PROPERTY
    PoolSpec

CONSTANTS
    Blocks <- MCBlocks
    Genesis = 0
    K = 1
    MaxParents = 2
SPECIFICATION Spec
INVARIANTS ReportOnVerifiedChain

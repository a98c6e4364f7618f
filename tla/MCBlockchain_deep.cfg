CONSTANTS
    Blocks <- MCBlocks
    Genesis = 0
    K = 1
    MaxParents = 1
SPECIFICATION Spec
INVARIANTS DeepBlocksConfirmed

\* A mint whose post arrives again after its block.
SPECIFICATION Spec
CONSTANTS
    investor = investor
    founder = founder
    v1 = v1
    v2 = v2
    v3 = v3
    i1 = i1
    Addr = {investor, founder}
    NoAddr = NoAddr
    ContractId = {}
    NoContract = NoContract
    TxId = {i1}
    MaxInt64 = 3
    Allocations <- MCAllocations
    Validators <- MCValidators
    MaxTxsPerBlock = 1
    Bootstrap <- Star
    Txs <- MintTxs
    Clock = {1}
    MaxHeight = 3
    MaxLost = 0
    MaxCrashes = 0
INVARIANTS
    IncludedOnce
\* The network ends at MaxHeight.
CHECK_DEADLOCK FALSE

\* Two blocks and a transfer, with a post that is lost and a crash at any
\* step of any node.
SPECIFICATION Spec
CONSTANTS
    investor = investor
    founder = founder
    v1 = v1
    v2 = v2
    v3 = v3
    i1 = i1
    Addr = {investor, founder}
    NoAddr = NoAddr
    ContractId = {}
    NoContract = NoContract
    TxId = {i1}
    MaxInt64 = 3
    Allocations <- MCAllocations
    Validators <- MCValidators
    MaxTxsPerBlock = 1
    Bootstrap <- Star
    Txs <- TransferTxs
    Clock = {1}
    MaxHeight = 2
    MaxLost = 1
    MaxCrashes = 1
INVARIANTS
    TypeOK
    
    IncludedOnce
\* The network ends at MaxHeight.
CHECK_DEADLOCK FALSE

\* Two blocks, by the second and the third node, and a transfer, with no crash
\* and nothing lost.
SPECIFICATION FairSpec
CONSTANTS
    investor = investor
    founder = founder
    v1 = v1
    v2 = v2
    v3 = v3
    i1 = i1
    Addr = {investor, founder}
    NoAddr = NoAddr
    ContractId = {}
    NoContract = NoContract
    TxId = {i1}
    MaxInt64 = 3
    Allocations <- MCAllocations
    Validators <- MCValidators
    MaxTxsPerBlock = 1
    Bootstrap <- Star
    Txs <- TransferTxs
    Clock = {1}
    MaxHeight = 2
    MaxLost = 0
    MaxCrashes = 0
PROPERTIES
    KeepsOneChain
    NetworkAdvances
    TxReaches
\* The network ends at MaxHeight.
CHECK_DEADLOCK FALSE

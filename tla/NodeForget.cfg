\* A block of the peer and the next one, of this node, are saved at once.
SPECIFICATION Spec
CONSTANTS
    investor = investor
    founder = founder
    c1 = c1
    me = me
    peer = peer
    other = other
    h1 = h1
    h2 = h2
    i1 = i1
    i2 = i2
    i3 = i3
    Addr = {investor, founder}
    NoAddr = NoAddr
    ContractId = {c1}
    NoContract = NoContract
    TxId = {i1, i2, i3}
    MaxInt64 = 3
    Allocations <- MCAllocations
    Txs <- EscrowTxs
    Validators <- MeFirst
    LocalID = me
    Producer = producer
    Handlers = {h1}
    Submitters = {s1}
    Free = Free
    MaxTxsPerBlock = 2
    MaxHeight = 3
    MaxCrashes = 1
    MaxFailures = 0
PROPERTIES
    BroadcastSurvives
CHECK_DEADLOCK FALSE

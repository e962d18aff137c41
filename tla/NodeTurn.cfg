\* The peer commits the lock in block 1; release and refund of its escrow are
\* both admitted before the turn of this node at block 2.
SPECIFICATION FairSpec
CONSTANTS
    investor = investor
    founder = founder
    c1 = c1
    me = me
    peer = peer
    other = other
    h1 = h1
    h2 = h2
    i1 = i1
    i2 = i2
    i3 = i3
    Addr = {investor, founder}
    NoAddr = NoAddr
    ContractId = {c1}
    NoContract = NoContract
    TxId = {i1, i2, i3}
    MaxInt64 = 3
    Allocations <- MCAllocations
    Txs <- EscrowTxs
    Validators <- PeerFirst
    LocalID = me
    Producer = producer
    Handlers = {h1}
    Submitters = {s1}
    Free = Free
    MaxTxsPerBlock = 2
    MaxHeight = 2
    MaxCrashes = 0
    MaxFailures = 0
PROPERTIES
    TurnProduces
CHECK_DEADLOCK FALSE

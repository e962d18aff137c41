\* No crash: two block handlers, the production loop and one submitter on
\* blocks 1 (the peer), 2 (this node) and 3 (the other validator).
SPECIFICATION FairSpec
CONSTANTS
    investor = investor
    founder = founder
    c1 = c1
    me = me
    peer = peer
    other = other
    h1 = h1
    h2 = h2
    i1 = i1
    i2 = i2
    i3 = i3
    Addr = {investor, founder}
    NoAddr = NoAddr
    ContractId = {c1}
    NoContract = NoContract
    TxId = {i1, i2, i3}
    MaxInt64 = 3
    Allocations <- MCAllocations
    Txs <- SharedIdTxs
    Validators <- PeerFirst
    LocalID = me
    Producer = producer
    Handlers = {h1, h2}
    Submitters = {s1}
    Free = Free
    MaxTxsPerBlock = 2
    MaxHeight = 3
    MaxCrashes = 0
    MaxFailures = 0
INVARIANTS
    TypeOK
    AtomicBlocks
    NoFork
    StoredBeforeBroadcast
    StoredIsCommitted
PROPERTIES
    OnlyIncludedLeavePool
    CommittedReachesDisk
    ImplementsAtomicChain
\* The network ends at MaxHeight.
CHECK_DEADLOCK FALSE

\* Two release requests of one milestone at a time.
SPECIFICATION Spec
CONSTANTS
    investor = investor
    founder = founder
    m1 = m1
    m2 = m2
    Addr = {investor, founder, authority}
    NoAddr = NoAddr
    c1 = c1
    ContractId = {c1}
    NoContract = NoContract
    TxId = {i1}
    MaxInt64 = 3
    MilestoneId = {m1, m2}
    Authority = authority
    Offers <- TwoMilestones
    AdvanceTargets <- SigningTargets
    Awards = {1}
    ClientTxs = {}
    Handlers = {h1, h2}
    MaxOps = 2
    MaxObjects = 1
    MaxCrashes = 0
    MaxFailures = 0
INVARIANTS
    ReleaseSubmittedOnce
CHECK_DEADLOCK FALSE

\* Two requests at a time, clients that name any state, one crash.
SPECIFICATION Spec
CONSTANTS
    investor = investor
    founder = founder
    m1 = m1
    m2 = m2
    Addr = {investor, founder, authority}
    NoAddr = NoAddr
    c1 = c1
    ContractId = {c1}
    NoContract = NoContract
    TxId = {i1}
    MaxInt64 = 3
    MilestoneId = {m1}
    Authority = authority
    Offers <- OneMilestone
    AdvanceTargets <- AnyTarget
    Awards = {1}
    ClientTxs = {}
    Handlers = {h1, h2}
    MaxOps = 2
    MaxObjects = 1
    MaxCrashes = 1
    MaxFailures = 0
INVARIANTS
    TypeOK
    ApprovedIsBacked
SYMMETRY HandlerSymmetry
\* A completed or terminated contract takes no further request.
CHECK_DEADLOCK FALSE

\* One request at a time, clients that name any state and sign transactions
\* themselves, no crash, one failed save.
SPECIFICATION Spec
CONSTANTS
    investor = investor
    founder = founder
    m1 = m1
    m2 = m2
    Addr = {investor, founder, authority}
    NoAddr = NoAddr
    c1 = c1
    ContractId = {c1}
    NoContract = NoContract
    TxId = {i1}
    MaxInt64 = 3
    MilestoneId = {m1, m2}
    Authority = authority
    Offers <- Deals
    AdvanceTargets <- AnyTarget
    Awards = {1, 2}
    ClientTxs <- PartyTxs
    Handlers = {h1}
    MaxOps = 2
    MaxObjects = 1
    MaxCrashes = 0
    MaxFailures = 1
INVARIANTS
    MilestonesMatchState
    BooksAgree
    ReleaseSubmittedOnce
    SavedOrReported
    AwardResolves
\* A completed or terminated contract takes no further request.
CHECK_DEADLOCK FALSE

\* One investor, one founder, two contracts, int64 shrunk to -4 .. 3: two
\* tokens at genesis and up to two minted, so balances overflow at the end.
SPECIFICATION Spec
CONSTANTS
    investor = investor
    founder = founder
    Addr = {investor, founder}
    NoAddr = NoAddr
    ContractId = {c1, c2}
    NoContract = NoContract
    TxId = {i1}
    MaxInt64 = 3
    Allocations <- MCAllocations
    Amounts <- MCAmounts
    MaxMinted = 2
    MaxNonce = 1
INVARIANTS
    TypeOK
    EscrowConservation
    SettledIffEmpty
    NoReplayedSpend
    SupplyConserved
    NoOverdraft
PROPERTIES
    EscrowFinality
    DebitSpendsNonce
    EscrowPaysParties
    KeepsPromise
\* Clients may stop submitting transactions.
CHECK_DEADLOCK FALSE

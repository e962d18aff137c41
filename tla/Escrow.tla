------------------------------- MODULE Escrow -------------------------------
(***************************************************************************)
(* The contract of internal/escrow: its nine-state lifecycle, its          *)
(* milestones, and the guards and results of its methods.  No variables:   *)
(* the handlers of EscrowApi call these operators.                         *)
(***************************************************************************)
EXTENDS Ledger, SequencesExt

CONSTANT MilestoneId  \* milestone ids clients write

-----------------------------------------------------------------------------
(* Lifecycle *)

validTransitions == [
    DRAFT             |-> {"PENDING_SIGNATURE"},
    PENDING_SIGNATURE |-> {"SIGNED", "DRAFT"},
    SIGNED            |-> {"FUNDED"},
    FUNDED            |-> {"IN_PROGRESS"},
    IN_PROGRESS       |-> {"MILESTONE_REVIEW", "TERMINATED"},
    MILESTONE_REVIEW  |-> {"IN_PROGRESS", "COMPLETED", "DISPUTED"},
    DISPUTED          |-> {"IN_PROGRESS", "TERMINATED"},
    COMPLETED         |-> {},
    TERMINATED        |-> {}]

ContractState == DOMAIN validTransitions

\* Faulty variant: any name is accepted as the next state.
TransitionUnchecked(from, to) == TRUE

\* Faulty variant: a disputed contract can only be terminated.
TransitionNoResume(from, to) ==
    to \in validTransitions[from] /\ ~(from = "DISPUTED" /\ to = "IN_PROGRESS")

Transition(from, to) == to \in validTransitions[from]

-----------------------------------------------------------------------------
(* Milestones and contracts *)

MilestoneStatus == {"PENDING", "SUBMITTED", "APPROVED", "DISPUTED"}

Milestone == [id: MilestoneId, amount: Int64, status: MilestoneStatus]

Contract == [investor: Addr, founder: Addr, total: Int64,
             state: ContractState, milestones: Seq(Milestone)]

\* The sum of a sequence of int64 amounts, with its overflow.
Int64Sum(amounts) ==
    LET half == MaxInt64 + 1 IN
    ((FoldLeft(LAMBDA m, n : m + n, 0, amounts) + half) % (2 * half)) - half

Amounts(milestones) == [i \in DOMAIN milestones |-> milestones[i].amount]

TotalAmount(milestones) == Int64Sum(Amounts(milestones))

\* Faulty variant: approved milestones are counted as well.
RemainingAmountOfAll(milestones) == TotalAmount(milestones)

RemainingAmount(milestones) ==
    Int64Sum([i \in DOMAIN milestones |->
        IF milestones[i].status = "APPROVED" THEN 0 ELSE milestones[i].amount])

\* The contract of a create request, whose milestones have an id and an amount.
NewContract(offer) ==
    [investor |-> offer.investor, founder |-> offer.founder,
     total |-> TotalAmount(offer.milestones), state |-> "DRAFT",
     milestones |-> [i \in DOMAIN offer.milestones |->
        [id |-> offer.milestones[i].id, amount |-> offer.milestones[i].amount,
         status |-> "PENDING"]]]

\* The first milestone with this id, or 0.
findMilestone(c, id) == SelectInSeq(c.milestones, LAMBDA m : m.id = id)

HasStatus(c, id, status) ==
    LET i == findMilestone(c, id) IN i # 0 /\ c.milestones[i].status = status

\* A method that found no milestone writes none.
SetStatus(c, id, status) ==
    LET i == findMilestone(c, id) IN
    IF i = 0 THEN c ELSE [c EXCEPT !.milestones[i].status = status]

-----------------------------------------------------------------------------
(* What the methods require before they change anything *)

\* BuildFundingTx
FundingAllowed(c) == c.state = "SIGNED"

FundingTx(c, id, nonce) ==
    [type |-> "LOCK", from |-> c.investor, to |-> c.founder, amount |-> c.total,
     contract |-> id, nonce |-> nonce, signer |-> c.investor]

SubmitAllowed(c, id) ==
    HasStatus(c, id, "PENDING") /\ Transition(c.state, "MILESTONE_REVIEW")

\* Faulty variant: a milestone that was not submitted can be disputed.
DisputeAllowedAnyStatus(c, id) ==
    findMilestone(c, id) # 0 /\ Transition(c.state, "DISPUTED")

DisputeAllowed(c, id) ==
    HasStatus(c, id, "SUBMITTED") /\ Transition(c.state, "DISPUTED")

\* Faulty variant: BuildMilestoneReleaseTx does not look at the status.
ReleaseAllowedAnyStatus(c, id) == findMilestone(c, id) # 0

\* BuildMilestoneReleaseTx
ReleaseAllowed(c, id) == HasStatus(c, id, "SUBMITTED")

\* BuildArbitrationTx: milestone and amount are the caller's.
ArbitrationAllowed(c, awardTo) ==
    c.state = "DISPUTED" /\ awardTo \in {c.founder, c.investor}

\* BuildRefundTx
RefundAllowed(c) == RemainingAmount(c.milestones) > 0

-----------------------------------------------------------------------------
(* ApproveMilestone and ResolveArbitration *)

Approved(c, id) == SetStatus(c, id, "APPROVED")

\* Where the contract goes once a milestone is approved.
AfterApproval(c) ==
    IF RemainingAmount(c.milestones) = 0 THEN "COMPLETED" ELSE "IN_PROGRESS"
=============================================================================

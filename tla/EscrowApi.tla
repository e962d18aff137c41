----------------------------- MODULE EscrowApi -----------------------------
(***************************************************************************)
(* The escrow handlers of internal/api on one node: goroutines that change *)
(* shared contract objects without a lock, the ContractStore that persists *)
(* them, the transactions they sign with the escrow wallet, those that     *)
(* clients sign, and the chain they reach one block at a time.             *)
(*                                                                         *)
(* A handler gets a pointer to a contract, checks it, submits its          *)
(* transaction if it has one, changes the contract and saves it.  Checks   *)
(* and writes of one handler are separate steps of its goroutine.          *)
(***************************************************************************)
EXTENDS Escrow, FiniteSetsExt

CONSTANTS
    Authority,       \* address of the escrow wallet
    Offers,          \* parties and milestones of create requests
    AdvanceTargets,  \* to_state of advance requests: any name a client writes
    Awards,          \* amounts of arbitrate requests
    Handlers,        \* goroutines serving the API
    ClientTxs,       \* transactions clients sign for POST /api/chain/tx
    MaxOps,          \* bound: transactions the escrow wallet signs
    MaxObjects,      \* bound: contract objects ever allocated
    MaxCrashes,      \* bound: crashes of this node
    MaxFailures      \* bound: Badger transactions that fail

\* The fields of a transaction that the chain's rules read.  A nonce is a number,
\* not an int64, where it only keeps the transactions of the wallet apart (ops).
EscrowTx == [type: TxType, from: Account, to: Account, amount: Int64,
             contract: ContractRef, nonce: Nat, signer: Account]

\* Only the node has the key of the escrow wallet.
ASSUME EscrowApiAssumption ==
    /\ Authority \in Addr
    /\ ClientTxs \subseteq {tx \in EscrowTx : tx.signer # Authority}
    /\ \A o \in Offers :
        /\ o.investor \in Addr /\ o.founder \in Addr
        /\ o.milestones \in Seq([id: MilestoneId, amount: Int64])
    /\ Awards \subseteq Int64
    /\ {MaxOps, MaxObjects, MaxCrashes, MaxFailures} \subseteq Nat

VARIABLES
    heap,      \* the contract objects of the process
    registry,  \* ContractStore.contracts: the object of each id, 0 if none
    saved,     \* the store's contract keys
    th,        \* per goroutine: where it is and its local variables
    state,     \* bc.State
    posted,    \* transactions that some node has accepted and passed on
    chain,     \* the transactions of the blocks, in their order
    admitted,  \* history: what submitTx accepted from the handlers
    ops,       \* transactions signed; stands for opCounter, which a restart
               \* resets, and the time stamp, which keeps hashes apart
    steered,   \* history: contracts that a client advanced past its signature
    errored,   \* history: contracts whose last change was answered by an error
    crashes,   \* number of crashes so far
    failures   \* number of failed Badger transactions so far

vars == <<heap, registry, saved, th, state, posted, chain, admitted, ops,
          steered, errored, crashes, failures>>

Unsaved == [state |-> "NONE"]
NoTx == [type |-> "NONE"]

\* The wallets of the parties hold the total of every offer.
Wealth == [a \in Account |->
            IF \E o \in Offers : o.investor = a THEN MaxInt64 ELSE 0]

Idle == [pc |-> "idle", op |-> "none", contract |-> NoContract, obj |-> 0,
         milestone |-> "none", targets |-> <<>>, mark |-> "none",
         terminate |-> FALSE, tx |-> NoTx, copy |-> Unsaved]

Init ==
    /\ heap = <<>>
    /\ registry = [c \in ContractId |-> 0]
    /\ saved = [c \in ContractId |-> Unsaved]
    /\ th = [t \in Handlers |-> Idle]
    /\ state = NewState(Wealth)
    /\ posted = {} /\ chain = <<>> /\ admitted = {}
    /\ steered = {} /\ errored = {}
    /\ ops = 0 /\ crashes = 0 /\ failures = 0

\* The contract object a goroutine holds.
Held(t) == heap[th[t].obj]

-----------------------------------------------------------------------------
(* Requests: Get the contract and check it.  A request that fails its      *)
(* checks is answered without any change.                                  *)

\* The goroutine takes a request for contract c and goes to step pc.
Serve(t, op, c, id, pc, targets, mark) ==
    th' = [th EXCEPT ![t] = [Idle EXCEPT
            !.pc = pc, !.op = op, !.contract = c, !.obj = registry[c],
            !.milestone = id, !.targets = targets, !.mark = mark]]

Ready(t, c) == th[t].pc = "idle" /\ registry[c] # 0

\* handleCreateContract, up to Contracts.Save.
CreateContract(t) == \E c \in ContractId, offer \in Offers :
    /\ th[t].pc = "idle" /\ registry[c] = 0
    /\ Len(heap) < MaxObjects
    /\ TotalAmount(offer.milestones) > 0
    /\ heap' = Append(heap, NewContract(offer))
    /\ th' = [th EXCEPT ![t] = [Idle EXCEPT !.pc = "put", !.op = "create",
                                            !.contract = c, !.obj = Len(heap) + 1]]
    /\ UNCHANGED <<registry, saved, state, posted, chain, admitted, ops,
                   steered, errored, crashes, failures>>

\* The states that no other request leads to.
Signing == {"DRAFT", "PENDING_SIGNATURE", "SIGNED"}

AdvanceContract(t) == \E c \in ContractId, to \in AdvanceTargets :
    /\ Ready(t, c)
    /\ Transition(heap[registry[c]].state, to)
    /\ Serve(t, "advance", c, "none", "write", <<to>>, "none")
    /\ steered' = IF to \in Signing THEN steered ELSE steered \cup {c}
    /\ UNCHANGED <<heap, registry, saved, state, posted, chain, admitted, ops,
                   errored, crashes, failures>>

\* The lock is compared by amount only.
ConfirmFunded(t) == \E c \in ContractId :
    /\ Ready(t, c)
    /\ GetLock(state, c) # NoLock
    /\ GetLock(state, c).amount = heap[registry[c]].total
    /\ Transition(heap[registry[c]].state, "FUNDED")
    /\ Serve(t, "confirm", c, "none", "write", <<"FUNDED", "IN_PROGRESS">>, "none")
    /\ UNCHANGED <<heap, registry, saved, state, posted, chain, admitted, ops,
                   steered, errored, crashes, failures>>

SubmitMilestone(t) == \E c \in ContractId, id \in MilestoneId :
    /\ Ready(t, c)
    /\ SubmitAllowed(heap[registry[c]], id)
    /\ Serve(t, "submit", c, id, "write", <<"MILESTONE_REVIEW">>, "SUBMITTED")
    /\ UNCHANGED <<heap, registry, saved, state, posted, chain, admitted, ops,
                   steered, errored, crashes, failures>>

\* No FREEZE_DISPUTE transaction is submitted.
DisputeMilestone(t) == \E c \in ContractId, id \in MilestoneId :
    /\ Ready(t, c)
    /\ DisputeAllowed(heap[registry[c]], id)
    /\ Serve(t, "dispute", c, id, "write", <<"DISPUTED">>, "DISPUTED")
    /\ UNCHANGED <<heap, registry, saved, state, posted, chain, admitted, ops,
                   steered, errored, crashes, failures>>

\* The goroutine signs a transaction with the escrow wallet.
Sign(t, op, c, id, type, to, amount, terminate) ==
    /\ ops < MaxOps
    /\ ops' = ops + 1
    /\ th' = [th EXCEPT ![t] = [Idle EXCEPT
                !.pc = "submit", !.op = op, !.contract = c, !.obj = registry[c],
                !.milestone = id, !.terminate = terminate,
                !.tx = [type |-> type, from |-> Authority, to |-> to,
                        amount |-> amount, contract |-> c, nonce |-> ops',
                        signer |-> Authority]]]
    /\ UNCHANGED <<heap, registry, saved, state, posted, chain, admitted,
                   steered, errored, crashes, failures>>

ReleaseMilestone(t) == \E c \in ContractId, id \in MilestoneId :
    LET deal == heap[registry[c]] IN
    /\ Ready(t, c)
    /\ ReleaseAllowed(deal, id)
    /\ Sign(t, "release", c, id, "RELEASE_MILESTONE", deal.founder,
            deal.milestones[findMilestone(deal, id)].amount, FALSE)

Arbitrate(t) == \E c \in ContractId, id \in MilestoneId, amount \in Awards,
                   terminate \in BOOLEAN, to \in Addr :
    /\ Ready(t, c)
    /\ ArbitrationAllowed(heap[registry[c]], to)
    /\ Sign(t, "arbitrate", c, id, "ARBITRATE", to, amount, terminate)

Refund(t) == \E c \in ContractId :
    LET deal == heap[registry[c]] IN
    /\ Ready(t, c)
    /\ RefundAllowed(deal)
    /\ Sign(t, "refund", c, "none", "REFUND", deal.investor,
            RemainingAmount(deal.milestones), FALSE)

-----------------------------------------------------------------------------
(* The steps that follow *)

\* Faulty variant: the handler goes on when its transaction is rejected.
SubmitFailedGoesOn(t) == [th EXCEPT ![t].pc = "resolve"]

\* The handler ends with an error when its transaction is rejected.
SubmitFailed(t) == [th EXCEPT ![t] = Idle]

\* submitTx: ValidateTransaction on the live world state, then Mempool.Add.
SubmitTx(t) ==
    LET tx == th[t].tx IN
    /\ th[t].pc = "submit"
    /\ IF ValidateTransaction(tx, state)
       THEN /\ posted' = posted \cup {tx}
            /\ admitted' = admitted \cup
                {[type |-> tx.type, contract |-> tx.contract,
                  milestone |-> th[t].milestone, nonce |-> tx.nonce]}
            /\ th' = [th EXCEPT ![t].pc = "resolve", ![t].tx = NoTx]
       ELSE th' = SubmitFailed(t) /\ UNCHANGED <<posted, admitted>>
    /\ UNCHANGED <<heap, registry, saved, state, chain, ops, steered, errored,
                   crashes, failures>>

\* The contract becomes deal and the goroutine calls Advance(to) next.
ChangeThenAdvance(t, deal, to) ==
    /\ heap' = [heap EXCEPT ![th[t].obj] = deal]
    /\ th' = [th EXCEPT ![t].pc = "check", ![t].targets = <<to>>]
    /\ UNCHANGED <<registry, saved, state, posted, chain, admitted, ops,
                   steered, errored, crashes, failures>>

\* The milestone is marked before Advance can fail.
ApproveMilestone(t) ==
    LET deal == Approved(Held(t), th[t].milestone) IN
    /\ th[t].pc = "resolve" /\ th[t].op = "release"
    /\ ChangeThenAdvance(t, deal, AfterApproval(deal))

ResolveArbitration(t) ==
    LET deal == IF th[t].terminate THEN Held(t)
                ELSE Approved(Held(t), th[t].milestone)
    IN
    /\ th[t].pc = "resolve" /\ th[t].op = "arbitrate"
    /\ ChangeThenAdvance(t, deal, IF th[t].terminate THEN "TERMINATED"
                                  ELSE AfterApproval(deal))

\* handleRefund after submitTx.
Terminate(t) ==
    /\ th[t].pc = "resolve" /\ th[t].op = "refund"
    /\ ChangeThenAdvance(t, Held(t), "TERMINATED")

\* Advance: Transition ...
CheckAdvance(t) ==
    /\ th[t].pc = "check"
    /\ IF Transition(Held(t).state, Head(th[t].targets))
       THEN th' = [th EXCEPT ![t].pc = "write"] /\ UNCHANGED errored
       ELSE /\ th' = [th EXCEPT ![t] = Idle]
            /\ errored' = errored \cup {th[t].contract}
    /\ UNCHANGED <<heap, registry, saved, state, posted, chain, admitted, ops,
                   steered, crashes, failures>>

\* Faulty variant: handleDisputeMilestone answers without Save.
AfterWriteUnsaved(op, rest) ==
    IF rest # <<>> THEN "check" ELSE IF op = "dispute" THEN "idle" ELSE "put"

\* The next Advance, if the handler has another one, or Save.
AfterWrite(op, rest) == IF rest # <<>> THEN "check" ELSE "put"

\* ... and the new state, with the status that SubmitMilestone and
\* DisputeMilestone write after it.
WriteState(t) ==
    LET rest == Tail(th[t].targets)
        deal == [Held(t) EXCEPT !.state = Head(th[t].targets)]
    IN
    /\ th[t].pc = "write"
    /\ heap' = [heap EXCEPT ![th[t].obj] =
                IF th[t].mark = "none" THEN deal
                ELSE SetStatus(deal, th[t].milestone, th[t].mark)]
    /\ th' = [th EXCEPT ![t].targets = rest,
                        ![t].pc = AfterWrite(th[t].op, rest)]
    /\ UNCHANGED <<registry, saved, state, posted, chain, admitted, ops,
                   steered, errored, crashes, failures>>

-----------------------------------------------------------------------------
(* ContractStore.Save: the map under its lock, then Marshal and            *)
(* SaveContract outside of it.                                             *)

PutContract(t) ==
    /\ th[t].pc = "put"
    /\ registry' = [registry EXCEPT ![th[t].contract] = th[t].obj]
    /\ th' = [th EXCEPT ![t].pc = "marshal"]
    /\ UNCHANGED <<heap, saved, state, posted, chain, admitted, ops,
                   steered, errored, crashes, failures>>

Marshal(t) ==
    /\ th[t].pc = "marshal"
    /\ th' = [th EXCEPT ![t].pc = "persist", ![t].copy = Held(t)]
    /\ UNCHANGED <<heap, registry, saved, state, posted, chain, admitted, ops,
                   steered, errored, crashes, failures>>

SaveContract(t) ==
    /\ th[t].pc = "persist"
    /\ saved' = [saved EXCEPT ![th[t].contract] = th[t].copy]
    /\ errored' = errored \ {th[t].contract}
    /\ th' = [th EXCEPT ![t] = Idle]
    /\ UNCHANGED <<heap, registry, state, posted, chain, admitted, ops, steered,
                   crashes, failures>>

\* The Badger transaction fails: the client gets an error, and the contract
\* keeps its change in memory.
SaveContractFails(t) ==
    /\ th[t].pc = "persist" /\ failures < MaxFailures
    /\ failures' = failures + 1
    /\ errored' = errored \cup {th[t].contract}
    /\ th' = [th EXCEPT ![t] = Idle]
    /\ UNCHANGED <<heap, registry, saved, state, posted, chain, admitted, ops,
                   steered, crashes>>

-----------------------------------------------------------------------------
(* Clients, the chain and crashes *)

\* The investor signs the funding transaction and submits it.
FundEscrow == \E c \in ContractId :
    LET deal == heap[registry[c]]
        tx == FundingTx(deal, c, state.nonces[deal.investor])
    IN
    /\ registry[c] # 0
    /\ FundingAllowed(deal)
    /\ ValidateTransaction(tx, state)
    /\ posted' = posted \cup {tx}
    /\ UNCHANGED <<heap, registry, saved, th, state, chain, admitted, ops,
                   steered, errored, crashes, failures>>

\* Any client may sign and submit any transaction: ValidateTransaction compares
\* the signer with the sender, and neither with the escrow wallet.
ClientTx == \E tx \in ClientTxs :
    /\ ValidateTransaction(tx, state)
    /\ posted' = posted \cup {tx}
    /\ UNCHANGED <<heap, registry, saved, th, state, chain, admitted, ops,
                   steered, errored, crashes, failures>>

\* A validator commits a block with one transaction that was posted.  One that
\* is in a block already may come again, with a post that is late or repeated:
\* a node that no longer has it in its mempool admits what is valid.  One that
\* every mempool has lost is never committed.
CommitBlock == \E tx \in posted :
    /\ ValidateTransaction(tx, state)
    /\ state' = ApplyTransaction(tx, state)
    /\ chain' = Append(chain, tx)
    /\ UNCHANGED <<heap, registry, saved, th, posted, admitted, ops,
                   steered, errored, crashes, failures>>

\* The process ends and starts again from its store.
CrashAndRestart ==
    LET ids == SetToSeq({c \in ContractId : saved[c] # Unsaved}) IN
    /\ crashes < MaxCrashes
    /\ crashes' = crashes + 1
    /\ heap' = [i \in DOMAIN ids |-> saved[ids[i]]]
    /\ registry' = [c \in ContractId |-> SelectInSeq(ids, LAMBDA d : d = c)]
    /\ th' = [t \in Handlers |-> Idle]
    /\ errored' = {}
    /\ UNCHANGED <<saved, state, posted, chain, admitted, ops, steered, failures>>

-----------------------------------------------------------------------------

Request(t) ==
    \/ CreateContract(t) \/ AdvanceContract(t) \/ ConfirmFunded(t)
    \/ SubmitMilestone(t) \/ DisputeMilestone(t)
    \/ ReleaseMilestone(t) \/ Arbitrate(t) \/ Refund(t)

Finish(t) ==
    \/ SubmitTx(t) \/ ApproveMilestone(t) \/ ResolveArbitration(t) \/ Terminate(t)
    \/ CheckAdvance(t) \/ WriteState(t)
    \/ PutContract(t) \/ Marshal(t) \/ SaveContract(t) \/ SaveContractFails(t)

Next ==
    \/ \E t \in Handlers : Request(t) \/ Finish(t)
    \/ FundEscrow \/ ClientTx \/ CommitBlock
    \/ CrashAndRestart

Spec == Init /\ [][Next]_vars

-----------------------------------------------------------------------------
(* Invariants *)

Deal(c) == heap[registry[c]]
Exists(c) == registry[c] # 0
Quiet == \A t \in Handlers : th[t].pc = "idle"

Count(deal, status) ==
    Cardinality({i \in DOMAIN deal.milestones : deal.milestones[i].status = status})

\* Contracts, in memory and in the store, are in a state of the lifecycle,
\* and every id names an object.
TypeOK ==
    /\ heap \in Seq(Contract)
    /\ registry \in [ContractId -> 0 .. Len(heap)]
    /\ saved \in [ContractId -> Contract \cup {Unsaved}]
    /\ \A t \in Handlers : th[t].obj \in 0 .. Len(heap)
    /\ state \in State
    /\ posted \subseteq EscrowTx /\ chain \in Seq(EscrowTx)
    /\ steered \subseteq ContractId /\ errored \subseteq ContractId

\* A milestone is APPROVED, in memory or in the store, only if the chain's
\* rules accepted a release of it or an award before.
Backed(c, deal) ==
    \A i \in DOMAIN deal.milestones :
        deal.milestones[i].status = "APPROVED" =>
            \E a \in admitted :
                /\ a.type \in {"RELEASE_MILESTONE", "ARBITRATE"}
                /\ a.contract = c /\ a.milestone = deal.milestones[i].id

ApprovedIsBacked ==
    \A c \in ContractId :
        /\ Exists(c) => Backed(c, Deal(c))
        /\ saved[c] # Unsaved => Backed(c, saved[c])

\* Between requests a contract and its milestones tell the same story, unless a
\* client advanced the contract past its signature: one milestone is submitted
\* exactly while the contract is in review, none is touched before funding, and
\* a completed contract has approved all of them, unless one was given an
\* amount that is not positive.
MilestonesMatchState ==
    Quiet => \A c \in ContractId \ steered : Exists(c) =>
        LET deal == Deal(c) IN
        /\ Count(deal, "SUBMITTED") =
            IF deal.state = "MILESTONE_REVIEW" THEN 1 ELSE 0
        /\ deal.state \in {"DRAFT", "PENDING_SIGNATURE", "SIGNED", "FUNDED"}
            => Count(deal, "PENDING") = Len(deal.milestones)
        /\ deal.state = "COMPLETED" /\ (\A m \in Range(deal.milestones) : m.amount > 0)
            => Count(deal, "APPROVED") = Len(deal.milestones)

\* The releases of contract c that are in no block.
Releases(c) ==
    {tx \in posted \ Range(chain) : tx.type = "RELEASE_MILESTONE" /\ tx.contract = c}

Waiting(c) == SumFunctionOnSet([tx \in posted |-> tx.amount], Releases(c))

\* Only releases of the escrow wallet were posted for contract c, and none of
\* them is in two blocks.
PaidByHandlers(c) ==
    /\ \A tx \in posted : tx.contract = c =>
        /\ tx.type \notin {"REFUND", "ARBITRATE"}
        /\ tx.type = "RELEASE_MILESTONE" => tx.signer = Authority
    /\ \A i, j \in DOMAIN chain :
        /\ chain[i] = chain[j]
        /\ chain[i].type = "RELEASE_MILESTONE" /\ chain[i].contract = c
        => i = j

\* For such a contract the books agree, unless a client advanced it past its
\* signature: what the milestones of a funded contract leave open is what its
\* escrow holds on chain, less the releases that are in no block yet.
BooksAgree ==
    Quiet => \A c \in ContractId \ steered :
        /\ Exists(c) /\ PaidByHandlers(c)
        /\ Deal(c).state \in {"IN_PROGRESS", "MILESTONE_REVIEW", "DISPUTED", "COMPLETED"}
        => RemainingAmount(Deal(c).milestones) = state.locked[c].amount - Waiting(c)

\* The handlers submit one release of a milestone.
ReleaseSubmittedOnce ==
    \A a, b \in admitted :
        /\ a.type = "RELEASE_MILESTONE" /\ b.type = a.type
        /\ a.contract = b.contract /\ a.milestone = b.milestone
        => a = b

\* Between requests the store has what memory has of a contract, or a client was
\* told by an error, since the contract was last saved, that it may not.
SavedOrReported ==
    Quiet => \A c \in ContractId \ errored : Exists(c) => saved[c] = Deal(c)

\* The award of the last open milestone is marked, and Advance refuses
\* COMPLETED after it.
LastAwarded(deal) ==
    deal.state = "DISPUTED" /\ RemainingAmount(deal.milestones) = 0

\* An award that the chain accepted resumes or ends the contract: one that is
\* still DISPUTED has a milestone in dispute, or was awarded its last open one,
\* or a client advanced it past its signature.
AwardResolves ==
    Quiet => \A c \in ContractId \ steered :
        Exists(c) /\ Deal(c).state = "DISPUTED" =>
            Count(Deal(c), "DISPUTED") > 0 \/ LastAwarded(Deal(c))
=============================================================================

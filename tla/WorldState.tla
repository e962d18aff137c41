----------------------------- MODULE WorldState -----------------------------
(***************************************************************************)
(* The world state of the chain as committed transactions change it, one   *)
(* transaction at a time: the sequential meaning of blockchain.go's State, *)
(* before blocks, threads and nodes.  Each action is one transaction type; *)
(* its transaction passes ValidateTransaction and is then applied, the two *)
(* calls AddBlock makes for every transaction of a block.  A transaction   *)
(* that fails validation changes nothing and is not a step.                *)
(***************************************************************************)
EXTENDS Ledger, FiniteSetsExt

CONSTANTS
    Allocations,  \* initial_allocations of config/genesis.json
    Amounts,      \* amounts clients write into transactions (any int64)
    MaxMinted,    \* bound: total that MINT transactions may issue
    MaxNonce      \* bound: nonces clients write into transactions

ASSUME WorldStateAssumption ==
    /\ Allocations \in [Account -> 0 .. MaxInt64]
    /\ Amounts \subseteq Int64
    /\ MaxMinted \in Nat
    /\ MaxNonce \in Nat /\ MaxNonce <= MaxInt64

VARIABLES
    state,    \* the world state (blockchain.State)
    minted,   \* history: tokens issued by committed MINT transactions
    spent,    \* history: per account, the nonces of its committed spends
    deposit,  \* history: per contract, the amount of its committed LOCK
    paid      \* history: per contract, credited by RELEASE, REFUND, ARBITRATE

vars == <<state, minted, spent, deposit, paid>>

Init ==
    /\ state = NewState(Allocations)
    /\ minted = 0
    /\ spent = [a \in Account |-> {}]
    /\ deposit = [c \in ContractId |-> 0]
    /\ paid = [c \in ContractId |-> 0]

-----------------------------------------------------------------------------
(* One action per transaction type *)

Nonces == 0 .. MaxNonce

Commit(tx) ==
    /\ ValidateTransaction(tx, state)
    /\ state' = ApplyTransaction(tx, state)

\* A MINT carries no signature; its from is the treasury and is not read.
Mint == \E to \in Account, amount \in Amounts :
    /\ minted + amount <= MaxMinted
    /\ Commit([type |-> "MINT", from |-> NoAddr, to |-> to, amount |-> amount,
               contract |-> NoContract, nonce |-> 0, signer |-> NoAddr])
    /\ minted' = minted + amount
    /\ UNCHANGED <<spent, deposit, paid>>

Transfer == \E from, to, signer \in Account, amount \in Amounts, n \in Nonces :
    /\ Commit([type |-> "TRANSFER", from |-> from, to |-> to,
               amount |-> amount, contract |-> NoContract, nonce |-> n,
               signer |-> signer])
    /\ spent' = [spent EXCEPT ![from] = @ \cup {n}]
    /\ UNCHANGED <<minted, deposit, paid>>

Lock == \E from, to, signer \in Account, amount \in Amounts,
           c \in ContractRef, n \in Nonces :
    /\ Commit([type |-> "LOCK", from |-> from, to |-> to, amount |-> amount,
               contract |-> c, nonce |-> n, signer |-> signer])
    /\ spent' = [spent EXCEPT ![from] = @ \cup {n}]
    /\ deposit' = [deposit EXCEPT ![c] = @ + amount]
    /\ UNCHANGED <<minted, paid>>

\* The transactions that pay out of an escrow.  Any sender may sign them:
\* neither From nor Nonce is compared with anything.
Payout(type, from, to, amount, c) ==
    Commit([type |-> type, from |-> from, to |-> to, amount |-> amount,
            contract |-> c, nonce |-> 0, signer |-> from])

ReleaseMilestone == \E from, to \in Account, amount \in Amounts,
                       c \in ContractRef :
    /\ Payout("RELEASE_MILESTONE", from, to, amount, c)
    /\ paid' = [paid EXCEPT ![c] = @ + amount]
    /\ UNCHANGED <<minted, spent, deposit>>

Arbitrate == \E from, to \in Account, amount \in Amounts, c \in ContractRef :
    /\ Payout("ARBITRATE", from, to, amount, c)
    /\ paid' = [paid EXCEPT ![c] = @ + amount]
    /\ UNCHANGED <<minted, spent, deposit>>

Refund == \E from, to \in Account, amount \in Amounts, c \in ContractRef :
    /\ Payout("REFUND", from, to, amount, c)
    /\ paid' = [paid EXCEPT ![c] = @ + GetLock(state, c).amount]
    /\ UNCHANGED <<minted, spent, deposit>>

FreezeDispute == \E from, to \in Account, amount \in Amounts,
                    c \in ContractRef :
    /\ Payout("FREEZE_DISPUTE", from, to, amount, c)
    /\ UNCHANGED <<minted, spent, deposit, paid>>

Next ==
    \/ Mint
    \/ Transfer
    \/ Lock
    \/ ReleaseMilestone
    \/ Refund
    \/ FreezeDispute
    \/ Arbitrate

Spec == Init /\ [][Next]_vars

-----------------------------------------------------------------------------
(* Invariants *)

\* Every component of the state and of the histories has its type.
TypeOK ==
    /\ state \in State
    /\ minted \in Nat
    /\ spent \in [Account -> SUBSET Nat]
    /\ deposit \in [ContractId -> Nat]
    /\ paid \in [ContractId -> Nat]

\* Money locked for a contract is either still in its escrow or was paid
\* out, however releases, awards, freezes and refunds follow each other:
\* the lock.Amount bookkeeping of ApplyTransaction neither loses nor
\* invents escrowed money.
EscrowConservation ==
    \A c \in ContractId : state.locked[c].amount + paid[c] = deposit[c]

\* An escrow is RELEASED or REFUNDED exactly when nothing is left in it, so
\* no money is stranded under a terminal status and no empty escrow can be
\* frozen, refunded or awarded again.
SettledIffEmpty ==
    \A c \in ContractId :
        LET lock == state.locked[c] IN
        /\ lock.status \in {"LOCKED", "FROZEN"} => lock.amount > 0
        /\ lock.status \in {"RELEASED", "REFUNDED", "NONE"} => lock.amount = 0

\* The nonces an account has used are exactly those below its current
\* nonce, each used once and in order: a signed TRANSFER or LOCK that was
\* committed can never be committed again.
NoReplayedSpend ==
    \A a \in Account : spent[a] = 0 .. state.nonces[a] - 1

\* Everything in accounts and escrows adds up to what genesis allocated and
\* MINT issued, modulo the 2^64 of the int64 balances.
Escrowed(s) == [c \in ContractId |-> s.locked[c].amount]

TotalSupply(s) == SumFunction(s.balances) + SumFunction(Escrowed(s))

Issued == SumFunction(Allocations) + minted

SupplyConserved ==
    (TotalSupply(state) - Issued) % (2 * (MaxInt64 + 1)) = 0

\* As long as less than 2^63 tokens have been issued no balance overflows or
\* is overdrawn, by any order of spends, locks, refunds and awards.
NoOverdraft ==
    Issued <= MaxInt64 => \A a \in Account : state.balances[a] >= 0

-----------------------------------------------------------------------------
(* Action properties *)

\* Once locked, the parties of a contract never change, its escrow only
\* shrinks, and a settled escrow is never touched again: a contract id is
\* good for one escrow only.
LockFinal(lock, next) ==
    lock.status # "NONE" =>
        /\ next.status # "NONE"
        /\ next.investor = lock.investor /\ next.founder = lock.founder
        /\ next.amount <= lock.amount
        /\ lock.status \in {"RELEASED", "REFUNDED"} => next = lock

EscrowFinality ==
    [][\A c \in ContractId : LockFinal(state.locked[c], state'.locked[c])]_vars

\* The balance of an account goes down only in a step that uses up its
\* nonce, so only by a transaction it signed.  (A credit that overflows int64
\* also lowers a balance, to below zero.)
DebitSpendsNonce ==
    [][\A a \in Account :
        state'.balances[a] < state.balances[a] /\ state'.balances[a] >= 0
            => state'.nonces[a] = state.nonces[a] + 1]_vars

\* What leaves an escrow arrives in full at the investor or the founder on
\* record, in the same step, and no other balance moves.
PaidInFull(c, s, t) ==
    \E p \in {s.locked[c].investor, s.locked[c].founder} :
        t.balances = [s.balances EXCEPT ![p] =
                        Wrap(@ + (s.locked[c].amount - t.locked[c].amount))]

EscrowPaysParties ==
    [][\A c \in ContractId :
        state'.locked[c].amount < state.locked[c].amount
            => PaidInFull(c, state, state')]_vars

-----------------------------------------------------------------------------
(* The escrow of the chain implements EscrowPromise. *)

Phase(status) ==
    CASE status = "NONE" -> "NONE"
      [] status = "LOCKED" -> "OPEN"
      [] status = "FROZEN" -> "FROZEN"
      [] status \in {"RELEASED", "REFUNDED"} -> "CLOSED"

Promise == INSTANCE EscrowPromise WITH
    Contracts <- ContractId,
    Deposits <- {n \in Amounts : n > 0},
    phase <- [c \in ContractId |-> Phase(state.locked[c].status)],
    held <- [c \in ContractId |-> state.locked[c].amount],
    paid <- paid

\* Escrow locks behave as the parties are promised: a frozen escrow pays
\* only by a ruling or a refund, and a closed one stays closed.
KeepsPromise == Promise!Spec
=============================================================================

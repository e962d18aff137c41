------------------------------- MODULE Ledger -------------------------------
(***************************************************************************)
(* The transaction rules of internal/blockchain: what makes a transaction  *)
(* valid against a world state (ValidateTransaction) and what it does to   *)
(* that state (ApplyTransaction).  The module has no variables; every      *)
(* state machine of the project that keeps a world state uses it.          *)
(*                                                                         *)
(* Go maps are total functions here: a missing balance or nonce reads as   *)
(* 0, a missing lock reads as nil, which is the record NoLock.             *)
(***************************************************************************)
EXTENDS Integers

CONSTANTS
    Addr,        \* addresses derived from public keys
    NoAddr,      \* the empty address ""
    ContractId,  \* escrow contract ids
    NoContract,  \* the empty contract id ""
    TxId,        \* transaction ids: a client writes the id of its transaction
    MaxInt64     \* the largest int64, 2^63 - 1 in the program

ASSUME LedgerAssumption ==
    /\ NoAddr \notin Addr
    /\ NoContract \notin ContractId
    /\ MaxInt64 \in Nat \ {0}

\* A recipient is never checked to be non-empty (MINT excepted), so ""
\* can hold a balance like any other key of State.Balances.
Account == Addr \cup {NoAddr}
ContractRef == ContractId \cup {NoContract}

Int64 == -(MaxInt64 + 1) .. MaxInt64

\* Two's complement result of an addition of two int64 values that can only
\* overflow upwards (amounts are positive).
Wrap(n) == IF n > MaxInt64 THEN n - 2 * (MaxInt64 + 1) ELSE n

-----------------------------------------------------------------------------
(* Transactions and world states *)

TxType == {"MINT", "TRANSFER", "LOCK", "RELEASE_MILESTONE", "REFUND",
           "FREEZE_DISPUTE", "ARBITRATE"}

\* id is not among the fields that are hashed and signed: two transactions may
\* have one id, and one transaction may be sent under two.
\* signer is the address of the attached public key when the signature over
\* the transaction hash verifies under it, and NoAddr when the signature is
\* missing or does not verify.
Tx == [id: TxId, type: TxType, from: Account, to: Account, amount: Int64,
       contract: ContractRef, nonce: Int64, signer: Account]

LockStatus == {"LOCKED", "FROZEN", "RELEASED", "REFUNDED"}
EscrowLock == [investor: Account, founder: Account, amount: Int64,
               status: LockStatus]
NoLock == [investor |-> NoAddr, founder |-> NoAddr, amount |-> 0,
           status |-> "NONE"]

State == [balances: [Account -> Int64],
          locked: [ContractId -> EscrowLock \cup {NoLock}],
          nonces: [Account -> Nat]]

NewState(allocations) ==
    [balances |-> allocations,
     locked   |-> [c \in ContractId |-> NoLock],
     nonces   |-> [a \in Account |-> 0]]

GetLock(s, c) == IF c \in ContractId THEN s.locked[c] ELSE NoLock

-----------------------------------------------------------------------------
(* ValidateTransaction *)

VerifySignature(tx) ==
    tx.type = "MINT" \/ (tx.signer # NoAddr /\ tx.signer = tx.from)

\* Faulty variant: the nonce of a signed spend is not compared.
CheckSenderFundsAnyNonce(tx, s) ==
    /\ tx.from # NoAddr
    /\ s.balances[tx.from] >= tx.amount

\* Faulty variant: the balance of the sender is not compared.
CheckSenderFundsUnfunded(tx, s) ==
    /\ tx.from # NoAddr
    /\ tx.nonce = s.nonces[tx.from]

CheckSenderFunds(tx, s) ==
    /\ tx.from # NoAddr
    /\ s.balances[tx.from] >= tx.amount
    /\ tx.nonce = s.nonces[tx.from]

\* Faulty variant: a contract id whose escrow was settled can be locked again.
LockValidAfterSettlement(tx, s) ==
    /\ tx.contract # NoContract
    /\ GetLock(s, tx.contract).status \notin {"LOCKED", "FROZEN"}
    /\ CheckSenderFunds(tx, s)

\* Faulty variant: a contract id that holds an open escrow can be locked again.
LockValidOverwrites(tx, s) ==
    /\ tx.contract # NoContract
    /\ CheckSenderFunds(tx, s)

LockValid(tx, s) ==
    /\ tx.contract # NoContract
    /\ GetLock(s, tx.contract) = NoLock
    /\ CheckSenderFunds(tx, s)

\* Faulty variant: a release is accepted while the escrow is frozen.
ReleaseValidFrozen(tx, lock) ==
    /\ lock.status \in {"LOCKED", "FROZEN"}
    /\ tx.amount <= lock.amount
    /\ tx.to = lock.founder

\* Faulty variant: a release is not capped by what the escrow still holds.
ReleaseValidUncapped(tx, lock) ==
    /\ lock.status = "LOCKED"
    /\ tx.to = lock.founder

ReleaseValid(tx, lock) ==
    /\ lock.status = "LOCKED"
    /\ tx.amount <= lock.amount
    /\ tx.to = lock.founder

RefundValid(tx, lock) ==
    /\ lock.status \in {"LOCKED", "FROZEN"}
    /\ tx.to = lock.investor

FreezeValid(tx, lock) == lock.status = "LOCKED"

\* Faulty variant: the award may go to any account.
ArbitrateValidAnyParty(tx, lock) ==
    /\ lock.status = "FROZEN"
    /\ tx.amount <= lock.amount

ArbitrateValid(tx, lock) ==
    /\ lock.status = "FROZEN"
    /\ tx.amount <= lock.amount
    /\ tx.to \in {lock.founder, lock.investor}

ValidateTransaction(tx, s) ==
    LET lock == GetLock(s, tx.contract) IN
    /\ VerifySignature(tx)
    /\ tx.amount > 0
    /\ \/ tx.type = "MINT" /\ tx.to # NoAddr
       \/ tx.type = "TRANSFER" /\ CheckSenderFunds(tx, s)
       \/ tx.type = "LOCK" /\ LockValid(tx, s)
       \/ tx.type = "RELEASE_MILESTONE" /\ ReleaseValid(tx, lock)
       \/ tx.type = "REFUND" /\ RefundValid(tx, lock)
       \/ tx.type = "FREEZE_DISPUTE" /\ FreezeValid(tx, lock)
       \/ tx.type = "ARBITRATE" /\ ArbitrateValid(tx, lock)

-----------------------------------------------------------------------------
(* ApplyTransaction *)

Credit(s, a, n) == [s EXCEPT !.balances[a] = Wrap(@ + n)]

\* Faulty variant: the sender pays and keeps its nonce.
SpendKeepsNonce(s, a, n) == [s EXCEPT !.balances[a] = @ - n]

\* The sender of a TRANSFER or a LOCK pays and uses up its nonce.
Spend(s, a, n) == [s EXCEPT !.balances[a] = @ - n, !.nonces[a] = @ + 1]

\* n tokens leave a lock, whose status becomes st.
Reduced(lock, n, st) ==
    [investor |-> lock.investor, founder |-> lock.founder,
     amount |-> lock.amount - n, status |-> st]

SetLock(s, c, lock) == [s EXCEPT !.locked[c] = lock]

PayOut(s, c, n, st) == SetLock(s, c, Reduced(s.locked[c], n, st))

ApplyTransfer(tx, s) == Credit(Spend(s, tx.from, tx.amount), tx.to, tx.amount)

ApplyLock(tx, s) ==
    SetLock(Spend(s, tx.from, tx.amount), tx.contract,
            [investor |-> tx.from, founder |-> tx.to, amount |-> tx.amount,
             status |-> "LOCKED"])

\* Faulty variant: the lock stays LOCKED when its last token is released.
ApplyReleaseStaysLocked(tx, s) ==
    Credit(PayOut(s, tx.contract, tx.amount, s.locked[tx.contract].status),
           tx.to, tx.amount)

ApplyRelease(tx, s) ==
    LET lock == s.locked[tx.contract] IN
    Credit(PayOut(s, tx.contract, tx.amount,
                  IF lock.amount = tx.amount THEN "RELEASED" ELSE lock.status),
           tx.to, tx.amount)

\* Faulty variant: the refund pays tx.Amount, the field RefundValid ignores,
\* but empties the lock.
ApplyRefundStatedAmount(tx, s) ==
    LET held == s.locked[tx.contract].amount IN
    Credit(PayOut(s, tx.contract, held, "REFUNDED"), tx.to, tx.amount)

ApplyRefund(tx, s) ==
    LET held == s.locked[tx.contract].amount IN
    Credit(PayOut(s, tx.contract, held, "REFUNDED"), tx.to, held)

\* Only the status changes: nothing leaves the lock.
ApplyFreeze(tx, s) == PayOut(s, tx.contract, 0, "FROZEN")

ApplyArbitrate(tx, s) ==
    LET lock == s.locked[tx.contract] IN
    Credit(PayOut(s, tx.contract, tx.amount,
                  IF lock.amount = tx.amount THEN "RELEASED" ELSE "LOCKED"),
           tx.to, tx.amount)

ApplyTransaction(tx, s) ==
    CASE tx.type = "MINT" -> Credit(s, tx.to, tx.amount)
      [] tx.type = "TRANSFER" -> ApplyTransfer(tx, s)
      [] tx.type = "LOCK" -> ApplyLock(tx, s)
      [] tx.type = "RELEASE_MILESTONE" -> ApplyRelease(tx, s)
      [] tx.type = "REFUND" -> ApplyRefund(tx, s)
      [] tx.type = "FREEZE_DISPUTE" -> ApplyFreeze(tx, s)
      [] tx.type = "ARBITRATE" -> ApplyArbitrate(tx, s)
=============================================================================

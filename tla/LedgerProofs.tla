---------------------------- MODULE LedgerProofs ----------------------------
(***************************************************************************)
(* Lemmas about the transaction rules of Ledger, for every set of accounts *)
(* and contracts and every width of the integers.                          *)
(***************************************************************************)
EXTENDS Ledger, TLAPS

-----------------------------------------------------------------------------
(* What the helpers of ApplyTransaction do to the parts of a state.  t is    *)
(* the state that s becomes.                                                 *)

Credited(s, t, a, n) ==
    /\ t \in State
    /\ t.balances = [s.balances EXCEPT ![a] = Wrap(s.balances[a] + n)]
    /\ t.locked = s.locked
    /\ t.nonces = s.nonces

Spends(s, t, a, n) ==
    /\ t \in State
    /\ t.balances = [s.balances EXCEPT ![a] = s.balances[a] - n]
    /\ t.locked = s.locked
    /\ t.nonces = [s.nonces EXCEPT ![a] = s.nonces[a] + 1]

Relocked(s, t, c, lock) ==
    /\ t \in State
    /\ t.balances = s.balances
    /\ t.locked = [s.locked EXCEPT ![c] = lock]
    /\ t.nonces = s.nonces

\* A credit stays within int64 and touches one balance.
LEMMA CreditEffect ==
    ASSUME NEW s \in State, NEW a \in Account, NEW n \in 0 .. MaxInt64
    PROVE  Credited(s, Credit(s, a, n), a, n)
<1>1. Wrap(s.balances[a] + n) \in Int64
  BY LedgerAssumption DEF Wrap, State, Int64
<1>. QED  BY <1>1 DEF Credit, State, Credited

\* A covered spend stays within int64 and uses up one nonce.
LEMMA SpendEffect ==
    ASSUME NEW s \in State, NEW a \in Account,
           NEW n \in 1 .. MaxInt64, n <= s.balances[a]
    PROVE  Spends(s, Spend(s, a, n), a, n)
<1>1. s.balances[a] - n \in Int64
  BY LedgerAssumption DEF State, Int64
<1>2. s.nonces[a] + 1 \in Nat
  BY DEF State
<1>. QED  BY <1>1, <1>2 DEF Spend, State, Spends

\* Writing one lock changes nothing else.
LEMMA SetLockEffect ==
    ASSUME NEW s \in State, NEW c \in ContractId, NEW lock \in EscrowLock
    PROVE  Relocked(s, SetLock(s, c, lock), c, lock)
  BY DEF State, SetLock, Relocked

\* What is left of a lock is a lock.
LEMMA ReducedLock ==
    ASSUME NEW lock \in EscrowLock, NEW n \in 0 .. lock.amount,
           NEW st \in LockStatus
    PROVE  /\ Reduced(lock, n, st) \in EscrowLock
           /\ Reduced(lock, n, st).amount = lock.amount - n
           /\ Reduced(lock, n, st).status = st
           /\ Reduced(lock, n, st).investor = lock.investor
           /\ Reduced(lock, n, st).founder = lock.founder
  BY LedgerAssumption DEF EscrowLock, Int64, Reduced

\* What a transaction of each type does when AddBlock applies it ...
LEMMA ApplyCases ==
    ASSUME NEW tx, NEW s
    PROVE  /\ tx.type = "MINT" =>
                ApplyTransaction(tx, s) = Credit(s, tx.to, tx.amount)
           /\ tx.type = "TRANSFER" =>
                ApplyTransaction(tx, s) = ApplyTransfer(tx, s)
           /\ tx.type = "LOCK" => ApplyTransaction(tx, s) = ApplyLock(tx, s)
           /\ tx.type = "RELEASE_MILESTONE" =>
                ApplyTransaction(tx, s) = ApplyRelease(tx, s)
           /\ tx.type = "REFUND" =>
                ApplyTransaction(tx, s) = ApplyRefund(tx, s)
           /\ tx.type = "FREEZE_DISPUTE" =>
                ApplyTransaction(tx, s) = ApplyFreeze(tx, s)
           /\ tx.type = "ARBITRATE" =>
                ApplyTransaction(tx, s) = ApplyArbitrate(tx, s)
  BY DEF ApplyTransaction

\* ... and what its validation has made sure of.
LEMMA ValidCases ==
    ASSUME NEW tx, NEW s, ValidateTransaction(tx, s)
    PROVE  /\ tx.amount > 0
           /\ tx.type = "TRANSFER" => CheckSenderFunds(tx, s)
           /\ tx.type = "LOCK" => LockValid(tx, s)
           /\ tx.type = "RELEASE_MILESTONE" =>
                ReleaseValid(tx, GetLock(s, tx.contract))
           /\ tx.type = "REFUND" => RefundValid(tx, GetLock(s, tx.contract))
           /\ tx.type = "FREEZE_DISPUTE" =>
                FreezeValid(tx, GetLock(s, tx.contract))
           /\ tx.type = "ARBITRATE" =>
                ArbitrateValid(tx, GetLock(s, tx.contract))
  BY DEF ValidateTransaction

-----------------------------------------------------------------------------
(* A valid transaction takes a sound state to a sound state.               *)

\* Types alone are not preserved: that what a release leaves in a lock is an
\* int64 again needs a lock that holds no negative amount.
SoundState == {s \in State : \A c \in ContractId : s.locked[c].amount >= 0}

\* A credit leaves the locks alone.
LEMMA CreditSound ==
    ASSUME NEW s \in SoundState, NEW a \in Account, NEW n \in 0 .. MaxInt64
    PROVE  Credit(s, a, n) \in SoundState
  <1>1. s \in State
    BY DEF SoundState
  <1> QED
    BY <1>1, CreditEffect DEF Credited, SoundState

\* So does a covered spend.
LEMMA SpendSound ==
    ASSUME NEW s \in SoundState, NEW a \in Account,
           NEW n \in 1 .. MaxInt64, n <= s.balances[a]
    PROVE  Spend(s, a, n) \in SoundState
  <1>1. s \in State /\ \A c \in ContractId : s.locked[c].amount >= 0
    BY DEF SoundState
  <1>2. PICK u : u = Spend(s, a, n)
    OBVIOUS
  <1>3. Spends(s, u, a, n)
    BY <1>1, <1>2, SpendEffect
  <1>4. u \in State /\ u.locked = s.locked
    BY <1>3 DEF Spends
  <1>5. u \in SoundState
    BY <1>1, <1>4 DEF SoundState
  <1> QED
    BY <1>2, <1>5

\* A lock that is written holds what it is given.
LEMMA SetLockSound ==
    ASSUME NEW s \in SoundState, NEW c \in ContractId,
           NEW lock \in EscrowLock, lock.amount >= 0
    PROVE  SetLock(s, c, lock) \in SoundState
  <1>1. s \in State /\ s.locked \in [ContractId -> EscrowLock \cup {NoLock}]
    BY DEF SoundState, State
  <1>2. Relocked(s, SetLock(s, c, lock), c, lock)
    BY <1>1, SetLockEffect
  <1> QED
    BY <1>1, <1>2 DEF Relocked, SoundState

\* The lock of a payout and what it pays.
LEMMA PayOutSound ==
    ASSUME NEW s \in SoundState, NEW c \in ContractId, NEW a \in Account,
           s.locked[c] \in EscrowLock,
           NEW n \in 0 .. s.locked[c].amount, NEW st \in LockStatus
    PROVE  /\ PayOut(s, c, n, st) \in SoundState
           /\ Credit(PayOut(s, c, n, st), a, n) \in SoundState
  <1>1. /\ Reduced(s.locked[c], n, st) \in EscrowLock
        /\ Reduced(s.locked[c], n, st).amount = s.locked[c].amount - n
    BY ReducedLock
  <1>2. n \in 0 .. MaxInt64 /\ s.locked[c].amount \in Int
    BY LedgerAssumption DEF EscrowLock, Int64
  <1>3. PayOut(s, c, n, st) \in SoundState
    BY <1>1, <1>2, SetLockSound DEF PayOut
  <1> QED
    BY <1>2, <1>3, CreditSound

\* What the rules read of a transaction, but for its nonce.
Signed(tx) ==
    /\ tx.type \in TxType /\ tx.from \in Account /\ tx.to \in Account
    /\ tx.amount \in Int64 /\ tx.contract \in ContractRef

\* The rules keep a state sound, whatever the nonce is.
LEMMA ApplySignedSound ==
    ASSUME NEW s \in SoundState, NEW tx, Signed(tx), ValidateTransaction(tx, s)
    PROVE  ApplyTransaction(tx, s) \in SoundState
  <1>1. /\ tx.amount \in 1 .. MaxInt64 /\ tx.from \in Account /\ tx.to \in Account
        /\ tx.type \in TxType
    BY ValidCases, LedgerAssumption DEF Signed, Int64
  <1>2. s.balances \in [Account -> Int64]
    BY DEF SoundState, State
  <1> DEFINE lock == GetLock(s, tx.contract)
  <1>3. ASSUME lock.status # "NONE"
        PROVE  /\ tx.contract \in ContractId /\ lock = s.locked[tx.contract]
               /\ lock \in EscrowLock /\ lock.amount \in 0 .. MaxInt64
    <2>1. tx.contract \in ContractId /\ lock = s.locked[tx.contract] /\ lock \in EscrowLock
      BY <1>3 DEF SoundState, State, GetLock, NoLock
    <2> QED
      BY <2>1, LedgerAssumption DEF SoundState, EscrowLock, Int64
  <1>4. CASE tx.type = "MINT"
    BY <1>1, <1>4, ApplyCases, CreditSound
  <1>5. ASSUME CheckSenderFunds(tx, s)
        PROVE  tx.amount <= s.balances[tx.from]
    BY <1>1, <1>2, <1>5 DEF CheckSenderFunds, Int64
  <1>6. CASE tx.type = "TRANSFER"
    <2>1. Spend(s, tx.from, tx.amount) \in SoundState
      BY <1>1, <1>5, <1>6, ValidCases, SpendSound
    <2> QED
      BY <1>1, <1>6, <2>1, ApplyCases, CreditSound DEF ApplyTransfer
  <1>7. CASE tx.type = "LOCK"
    <2> DEFINE new == [investor |-> tx.from, founder |-> tx.to,
                       amount |-> tx.amount, status |-> "LOCKED"]
    <2>1. LockValid(tx, s)
      BY <1>7, ValidCases
    <2>2. Spend(s, tx.from, tx.amount) \in SoundState
      BY <1>1, <1>5, <2>1, SpendSound DEF LockValid
    <2>3. tx.contract \in ContractId
      BY <2>1 DEF LockValid, Signed, ContractRef
    <2>4. new \in EscrowLock /\ new.amount >= 0
      BY <1>1, LedgerAssumption DEF EscrowLock, LockStatus, Int64
    <2>5. SetLock(Spend(s, tx.from, tx.amount), tx.contract, new) \in SoundState
      BY <2>2, <2>3, <2>4, SetLockSound
    <2> QED
      BY <1>7, <2>5, ApplyCases DEF ApplyLock
  <1>8. CASE tx.type = "RELEASE_MILESTONE"
    <2>1. lock.status = "LOCKED" /\ tx.amount <= lock.amount
      BY <1>8, ValidCases DEF ReleaseValid
    <2>2. tx.amount \in 0 .. lock.amount
      BY <1>1, <1>3, <2>1
    <2>3. (IF lock.amount = tx.amount THEN "RELEASED" ELSE lock.status) \in LockStatus
      BY <2>1 DEF LockStatus
    <2> QED
      BY <1>1, <1>3, <1>8, <2>1, <2>2, <2>3, ApplyCases, PayOutSound DEF ApplyRelease
  <1>9. CASE tx.type = "REFUND"
    <2>1. lock.status \in {"LOCKED", "FROZEN"}
      BY <1>9, ValidCases DEF RefundValid
    <2>2. lock.amount \in 0 .. lock.amount /\ "REFUNDED" \in LockStatus
      BY <1>3, <2>1 DEF LockStatus
    <2> QED
      BY <1>1, <1>3, <1>9, <2>1, <2>2, ApplyCases, PayOutSound DEF ApplyRefund
  <1>10. CASE tx.type = "FREEZE_DISPUTE"
    <2>1. lock.status = "LOCKED"
      BY <1>10, ValidCases DEF FreezeValid
    <2>2. 0 \in 0 .. lock.amount /\ "FROZEN" \in LockStatus
      BY <1>3, <2>1 DEF LockStatus
    <2> QED
      BY <1>1, <1>3, <1>10, <2>1, <2>2, ApplyCases, PayOutSound DEF ApplyFreeze
  <1>11. CASE tx.type = "ARBITRATE"
    <2>1. lock.status = "FROZEN" /\ tx.amount <= lock.amount
      BY <1>11, ValidCases DEF ArbitrateValid
    <2>2. tx.amount \in 0 .. lock.amount
      BY <1>1, <1>3, <2>1
    <2>3. (IF lock.amount = tx.amount THEN "RELEASED" ELSE "LOCKED") \in LockStatus
      BY DEF LockStatus
    <2> QED
      BY <1>1, <1>3, <1>11, <2>1, <2>2, <2>3, ApplyCases, PayOutSound DEF ApplyArbitrate
  <1> QED
    BY <1>1, <1>4, <1>6, <1>7, <1>8, <1>9, <1>10, <1>11 DEF TxType

\* ApplyTransaction of a transaction that ValidateTransaction accepted leaves
\* balances and amounts within int64 and no lock below zero.
THEOREM ApplySound ==
    ASSUME NEW s \in SoundState, NEW tx \in Tx, ValidateTransaction(tx, s)
    PROVE  ApplyTransaction(tx, s) \in SoundState
  BY ApplySignedSound DEF Signed, Tx

-----------------------------------------------------------------------------
(* Nonces                                                                  *)

IsSpend(tx) == tx.type \in {"TRANSFER", "LOCK"}

WellFormed(s) == DOMAIN s = {"balances", "locked", "nonces"}

\* A credit and a change of a lock leave the nonces alone, and a spend raises
\* the nonce of its sender.
LEMMA CreditNonces ==
    ASSUME NEW s, NEW a, NEW n, WellFormed(s)
    PROVE  WellFormed(Credit(s, a, n)) /\ Credit(s, a, n).nonces = s.nonces
  BY DEF Credit, WellFormed

\* A spend uses up one nonce of its sender and no other.
LEMMA SpendNonces ==
    ASSUME NEW s, NEW a, NEW n, WellFormed(s)
    PROVE  /\ WellFormed(Spend(s, a, n))
           /\ Spend(s, a, n).nonces = [s.nonces EXCEPT ![a] = @ + 1]
  BY DEF Spend, WellFormed

\* Writing a lock leaves the nonces alone.
LEMMA SetLockNonces ==
    ASSUME NEW s, NEW c, NEW lock, WellFormed(s)
    PROVE  WellFormed(SetLock(s, c, lock)) /\ SetLock(s, c, lock).nonces = s.nonces
  BY DEF SetLock, WellFormed

\* Taking money out of a lock leaves the nonces alone.
LEMMA PayOutNonces ==
    ASSUME NEW s, NEW c, NEW n, NEW st, WellFormed(s)
    PROVE  WellFormed(PayOut(s, c, n, st)) /\ PayOut(s, c, n, st).nonces = s.nonces
  BY SetLockNonces DEF PayOut

\* Only a spend moves a nonce, and it moves that of its sender by one.
LEMMA ApplyNonces ==
    ASSUME NEW s, NEW tx, WellFormed(s), tx.type \in TxType
    PROVE  ApplyTransaction(tx, s).nonces =
                IF IsSpend(tx) THEN [s.nonces EXCEPT ![tx.from] = @ + 1] ELSE s.nonces
  <1>1. CASE tx.type = "MINT"
    BY <1>1, ApplyCases, CreditNonces DEF IsSpend
  <1>2. CASE tx.type = "TRANSFER"
    <2> DEFINE r == Spend(s, tx.from, tx.amount)
    <2>1. ApplyTransaction(tx, s) = Credit(r, tx.to, tx.amount)
      BY <1>2, ApplyCases DEF ApplyTransfer
    <2>2. WellFormed(r) /\ r.nonces = [s.nonces EXCEPT ![tx.from] = @ + 1]
      BY SpendNonces
    <2> HIDE DEF r
    <2>3. Credit(r, tx.to, tx.amount).nonces = r.nonces
      BY <2>2, CreditNonces
    <2> QED
      BY <1>2, <2>1, <2>2, <2>3, Zenon DEF IsSpend
  <1>3. CASE tx.type = "LOCK"
    <2> DEFINE r == Spend(s, tx.from, tx.amount)
               new == [investor |-> tx.from, founder |-> tx.to,
                       amount |-> tx.amount, status |-> "LOCKED"]
    <2>1. ApplyTransaction(tx, s) = SetLock(r, tx.contract, new)
      BY <1>3, ApplyCases DEF ApplyLock
    <2>2. WellFormed(r) /\ r.nonces = [s.nonces EXCEPT ![tx.from] = @ + 1]
      BY SpendNonces
    <2> HIDE DEF r, new
    <2>3. SetLock(r, tx.contract, new).nonces = r.nonces
      BY <2>2, SetLockNonces
    <2> QED
      BY <1>3, <2>1, <2>2, <2>3, Zenon DEF IsSpend
  <1>4. CASE tx.type = "RELEASE_MILESTONE"
    BY <1>4, ApplyCases, CreditNonces, PayOutNonces
       DEF IsSpend, ApplyRelease
  <1>5. CASE tx.type = "REFUND"
    BY <1>5, ApplyCases, CreditNonces, PayOutNonces
       DEF IsSpend, ApplyRefund
  <1>6. CASE tx.type = "FREEZE_DISPUTE"
    BY <1>6, ApplyCases, PayOutNonces DEF IsSpend, ApplyFreeze
  <1>7. CASE tx.type = "ARBITRATE"
    BY <1>7, ApplyCases, CreditNonces, PayOutNonces
       DEF IsSpend, ApplyArbitrate
  <1> QED
    BY <1>1, <1>2, <1>3, <1>4, <1>5, <1>6, <1>7 DEF TxType

\* A spend is valid only at its nonce, which is no longer the nonce of the
\* sender once the spend is applied; no transaction lowers a nonce.
LEMMA NoncesGrow ==
    ASSUME NEW s \in SoundState, NEW tx \in Tx, ValidateTransaction(tx, s)
    PROVE  /\ \A a \in Account : s.nonces[a] <= ApplyTransaction(tx, s).nonces[a]
           /\ IsSpend(tx) => /\ tx.nonce = s.nonces[tx.from]
                             /\ tx.nonce < ApplyTransaction(tx, s).nonces[tx.from]
  <1>1. s \in State /\ WellFormed(s) /\ s.nonces \in [Account -> Nat]
    BY DEF SoundState, State, WellFormed
  <1>2. tx.type \in TxType /\ tx.from \in Account
    BY DEF Tx
  <1>3. ApplyTransaction(tx, s).nonces =
            IF IsSpend(tx) THEN [s.nonces EXCEPT ![tx.from] = @ + 1] ELSE s.nonces
    BY <1>1, <1>2, ApplyNonces
  <1>4. IsSpend(tx) => tx.nonce = s.nonces[tx.from]
    BY ValidCases DEF IsSpend, LockValid, CheckSenderFunds
  <1> QED
    BY <1>1, <1>2, <1>3, <1>4
=============================================================================

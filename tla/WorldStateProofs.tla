-------------------------- MODULE WorldStateProofs --------------------------
(***************************************************************************)
(* Theorems about WorldState, for every set of accounts and contracts,     *)
(* every width of the integers and every bound.                            *)
(***************************************************************************)
EXTENDS WorldState, LedgerProofs, SumTheorems

-----------------------------------------------------------------------------
(* The five ways a step changes the state.  A step of Next is one of them   *)
(* for values that the transaction's validation guarantees.                 *)

Positive == 1 .. MaxInt64

MintStep(to, n) ==
    /\ state' = Credit(state, to, n)
    /\ minted' = minted + n
    /\ UNCHANGED <<spent, deposit, paid>>

TransferStep(from, to, n) ==
    /\ n <= state.balances[from]
    /\ state' = Credit(Spend(state, from, n), to, n)
    /\ spent' = [spent EXCEPT ![from] = @ \cup {state.nonces[from]}]
    /\ UNCHANGED <<minted, deposit, paid>>

LockStep(from, to, n, c) ==
    /\ n \in Amounts
    /\ n <= state.balances[from]
    /\ state.locked[c] = NoLock
    /\ state' = SetLock(Spend(state, from, n), c,
                        [investor |-> from, founder |-> to, amount |-> n,
                         status |-> "LOCKED"])
    /\ spent' = [spent EXCEPT ![from] = @ \cup {state.nonces[from]}]
    /\ deposit' = [deposit EXCEPT ![c] = @ + n]
    /\ UNCHANGED <<minted, paid>>

FreezeStep(c) ==
    /\ state.locked[c].status = "LOCKED"
    /\ state' = PayOut(state, c, 0, "FROZEN")
    /\ UNCHANGED <<minted, spent, deposit, paid>>

\* RELEASE_MILESTONE, REFUND and ARBITRATE: n leaves the open or frozen
\* escrow of c for one of its parties.
PayOutStep(c, to, n, st) ==
    LET lock == state.locked[c] IN
    /\ lock.status \in {"LOCKED", "FROZEN"}
    /\ n \in 1 .. lock.amount
    /\ to \in {lock.investor, lock.founder}
    /\ st \in IF n = lock.amount THEN {"RELEASED", "REFUNDED"} ELSE {"LOCKED"}
    /\ state' = Credit(PayOut(state, c, n, st), to, n)
    /\ paid' = [paid EXCEPT ![c] = @ + n]
    /\ UNCHANGED <<minted, spent, deposit>>

IInv == TypeOK /\ EscrowConservation /\ SettledIffEmpty /\ NoReplayedSpend

\* A lock that is not NoLock is a record of EscrowLock.
LEMMA LockTyped ==
    ASSUME TypeOK, NEW c \in ContractRef,
           GetLock(state, c).status # "NONE"
    PROVE  /\ c \in ContractId
           /\ GetLock(state, c) = state.locked[c]
           /\ state.locked[c] \in EscrowLock
  BY DEF TypeOK, State, GetLock, NoLock

\* A committed MINT credits its receiver with a positive amount.
LEMMA MintSteps ==
    ASSUME TypeOK, Mint
    PROVE  \E to \in Account, n \in Positive : MintStep(to, n)
<1>1. PICK to \in Account, amount \in Amounts :
        /\ Commit([type |-> "MINT", from |-> NoAddr, to |-> to,
                   amount |-> amount, contract |-> NoContract, nonce |-> 0,
                   signer |-> NoAddr])
        /\ minted' = minted + amount
        /\ UNCHANGED <<spent, deposit, paid>>
  BY DEF Mint
<1>2. amount > 0 /\ state' = Credit(state, to, amount)
  BY <1>1, ApplyCases, ValidCases DEF Commit
<1>3. amount \in Positive
  BY <1>2, WorldStateAssumption, LedgerAssumption DEF Positive, Int64
<1>. QED  BY <1>1, <1>2, <1>3 DEF MintStep

\* A committed TRANSFER moves money that the sender has, under the sender's
\* nonce.
LEMMA TransferSteps ==
    ASSUME TypeOK, Transfer
    PROVE  \E from, to \in Account, n \in Positive : TransferStep(from, to, n)
<1>1. PICK from \in Account, to \in Account, signer \in Account,
           amount \in Amounts, k \in Nonces :
        /\ Commit([type |-> "TRANSFER", from |-> from, to |-> to,
                   amount |-> amount, contract |-> NoContract, nonce |-> k,
                   signer |-> signer])
        /\ spent' = [spent EXCEPT ![from] = @ \cup {k}]
        /\ UNCHANGED <<minted, deposit, paid>>
  BY DEF Transfer
<1>2. /\ amount > 0 /\ amount <= state.balances[from]
      /\ k = state.nonces[from]
      /\ state' = Credit(Spend(state, from, amount), to, amount)
  <2>1. /\ amount > 0 /\ state.balances[from] >= amount
        /\ k = state.nonces[from]
        /\ state' = Credit(Spend(state, from, amount), to, amount)
    BY <1>1, ApplyCases, ValidCases
       DEF Commit, CheckSenderFunds, ApplyTransfer
  <2>2. amount \in Int /\ state.balances[from] \in Int
    BY WorldStateAssumption DEF TypeOK, State, Int64
  <2>. QED  BY <2>1, <2>2
<1>3. amount \in Positive
  BY <1>2, WorldStateAssumption, LedgerAssumption DEF Positive, Int64
<1>. QED  BY <1>1, <1>2, <1>3 DEF TransferStep

\* A committed LOCK funds an escrow that nobody has used, from money that
\* the investor has.
LEMMA LockSteps ==
    ASSUME TypeOK, Lock
    PROVE  \E from, to \in Account, n \in Positive, c \in ContractId :
               LockStep(from, to, n, c)
<1>1. PICK from \in Account, to \in Account, signer \in Account,
           amount \in Amounts, c \in ContractRef, k \in Nonces :
        /\ Commit([type |-> "LOCK", from |-> from, to |-> to,
                   amount |-> amount, contract |-> c, nonce |-> k,
                   signer |-> signer])
        /\ spent' = [spent EXCEPT ![from] = @ \cup {k}]
        /\ deposit' = [deposit EXCEPT ![c] = @ + amount]
        /\ UNCHANGED <<minted, paid>>
  BY DEF Lock
<1>2. /\ amount > 0 /\ state.balances[from] >= amount
      /\ c # NoContract /\ GetLock(state, c) = NoLock
      /\ k = state.nonces[from]
      /\ state' = SetLock(Spend(state, from, amount), c,
                          [investor |-> from, founder |-> to,
                           amount |-> amount, status |-> "LOCKED"])
  BY <1>1, ApplyCases, ValidCases
     DEF Commit, LockValid, CheckSenderFunds, ApplyLock
<1>3. c \in ContractId /\ state.locked[c] = NoLock
  BY <1>2 DEF ContractRef, GetLock
<1>4. amount \in Positive /\ amount <= state.balances[from]
  BY <1>2, WorldStateAssumption, LedgerAssumption
     DEF Positive, Int64, TypeOK, State
<1>. QED  BY <1>1, <1>2, <1>3, <1>4 DEF LockStep

\* A committed FREEZE_DISPUTE freezes an open escrow.
LEMMA FreezeSteps ==
    ASSUME TypeOK, FreezeDispute
    PROVE  \E c \in ContractId : FreezeStep(c)
<1>1. PICK from \in Account, to \in Account, amount \in Amounts,
           c \in ContractRef :
        /\ Payout("FREEZE_DISPUTE", from, to, amount, c)
        /\ UNCHANGED <<minted, spent, deposit, paid>>
  BY DEF FreezeDispute
<1>2. /\ GetLock(state, c).status = "LOCKED"
      /\ state' = PayOut(state, c, 0, "FROZEN")
  BY <1>1, ApplyCases, ValidCases DEF Payout, Commit, FreezeValid, ApplyFreeze
<1>. QED  BY <1>1, <1>2, LockTyped DEF FreezeStep
\* A committed RELEASE_MILESTONE pays the founder no more than the open
\* escrow holds.
LEMMA ReleaseMilestoneSteps ==
    ASSUME TypeOK, SettledIffEmpty, ReleaseMilestone
    PROVE  \E c \in ContractId, to \in Account, n \in Positive, st \in LockStatus :
               PayOutStep(c, to, n, st)
<1>1. PICK from \in Account, to \in Account, amount \in Amounts,
           c \in ContractRef :
        /\ Payout("RELEASE_MILESTONE", from, to, amount, c)
        /\ paid' = [paid EXCEPT ![c] = @ + amount]
        /\ UNCHANGED <<minted, spent, deposit>>
  BY DEF ReleaseMilestone
<1>. DEFINE lock == GetLock(state, c)
<1>2. /\ amount > 0 /\ lock.status = "LOCKED"
      /\ amount <= lock.amount /\ to = lock.founder
  BY <1>1, ApplyCases, ValidCases DEF Payout, Commit, ReleaseValid
<1>3. c \in ContractId /\ lock = state.locked[c] /\ lock \in EscrowLock
  BY <1>2, LockTyped
<1>. DEFINE st == IF lock.amount = amount THEN "RELEASED" ELSE lock.status
<1>4. state' = Credit(PayOut(state, c, amount, st), to, amount)
  BY <1>1, <1>3, ApplyCases DEF Payout, Commit, ApplyRelease
<1>5. amount \in 1 .. lock.amount /\ amount \in Positive
  BY <1>2, <1>3, WorldStateAssumption, LedgerAssumption
     DEF Positive, EscrowLock, Int64
<1>6. st \in LockStatus
      /\ st \in IF amount = lock.amount THEN {"RELEASED", "REFUNDED"}
                                       ELSE {"LOCKED"}
  BY <1>2 DEF LockStatus
<1>7. PayOutStep(c, to, amount, st)
  BY <1>1, <1>2, <1>3, <1>4, <1>5, <1>6 DEF PayOutStep
<1>. QED  BY <1>3, <1>5, <1>6, <1>7

\* A committed ARBITRATE pays one of the parties of a frozen escrow.
LEMMA ArbitrateSteps ==
    ASSUME TypeOK, SettledIffEmpty, Arbitrate
    PROVE  \E c \in ContractId, to \in Account, n \in Positive, st \in LockStatus :
               PayOutStep(c, to, n, st)
<1>1. PICK from \in Account, to \in Account, amount \in Amounts,
           c \in ContractRef :
        /\ Payout("ARBITRATE", from, to, amount, c)
        /\ paid' = [paid EXCEPT ![c] = @ + amount]
        /\ UNCHANGED <<minted, spent, deposit>>
  BY DEF Arbitrate
<1>. DEFINE lock == GetLock(state, c)
<1>2. /\ amount > 0 /\ lock.status = "FROZEN"
      /\ amount <= lock.amount /\ to \in {lock.founder, lock.investor}
  BY <1>1, ApplyCases, ValidCases DEF Payout, Commit, ArbitrateValid
<1>3. c \in ContractId /\ lock = state.locked[c] /\ lock \in EscrowLock
  BY <1>2, LockTyped
<1>. DEFINE st == IF lock.amount = amount THEN "RELEASED" ELSE "LOCKED"
<1>4. state' = Credit(PayOut(state, c, amount, st), to, amount)
  BY <1>1, <1>3, ApplyCases DEF Payout, Commit, ApplyArbitrate
<1>5. amount \in 1 .. lock.amount /\ amount \in Positive
  BY <1>2, <1>3, WorldStateAssumption, LedgerAssumption
     DEF Positive, EscrowLock, Int64
<1>6. st \in LockStatus
      /\ st \in IF amount = lock.amount THEN {"RELEASED", "REFUNDED"}
                                       ELSE {"LOCKED"}
  BY DEF LockStatus
<1>7. PayOutStep(c, to, amount, st)
  BY <1>1, <1>2, <1>3, <1>4, <1>5, <1>6 DEF PayOutStep
<1>. QED  BY <1>3, <1>5, <1>6, <1>7

\* A committed REFUND pays the investor all that the escrow holds.
LEMMA RefundSteps ==
    ASSUME TypeOK, SettledIffEmpty, Refund
    PROVE  \E c \in ContractId, to \in Account, n \in Positive, st \in LockStatus :
               PayOutStep(c, to, n, st)
<1>1. PICK from \in Account, to \in Account, amount \in Amounts,
           c \in ContractRef :
        /\ Payout("REFUND", from, to, amount, c)
        /\ paid' = [paid EXCEPT ![c] = @ + GetLock(state, c).amount]
        /\ UNCHANGED <<minted, spent, deposit>>
  BY DEF Refund
<1>. DEFINE lock == GetLock(state, c)
<1>2. lock.status \in {"LOCKED", "FROZEN"} /\ to = lock.investor
  BY <1>1, ApplyCases, ValidCases DEF Payout, Commit, RefundValid
<1>3. c \in ContractId /\ lock = state.locked[c] /\ lock \in EscrowLock
  BY <1>2, LockTyped
<1>4. state' = Credit(PayOut(state, c, lock.amount, "REFUNDED"), to, lock.amount)
  BY <1>1, <1>3, ApplyCases DEF Payout, Commit, ApplyRefund
<1>5. lock.amount \in 1 .. lock.amount /\ lock.amount \in Positive
  <2>1. lock.amount > 0
    BY <1>2, <1>3 DEF SettledIffEmpty
  <2>. QED  BY <2>1, <1>3, LedgerAssumption DEF Positive, EscrowLock, Int64
<1>6. "REFUNDED" \in LockStatus
  BY DEF LockStatus
<1>7. PayOutStep(c, to, lock.amount, "REFUNDED")
  BY <1>1, <1>2, <1>3, <1>4, <1>5 DEF PayOutStep
<1>. QED  BY <1>3, <1>5, <1>6, <1>7
\* Every step is one of the five.
LEMMA NextSteps ==
    ASSUME TypeOK, SettledIffEmpty, Next
    PROVE  \/ \E to \in Account, n \in Positive : MintStep(to, n)
           \/ \E from, to \in Account, n \in Positive : TransferStep(from, to, n)
           \/ \E from, to \in Account, n \in Positive, c \in ContractId :
                  LockStep(from, to, n, c)
           \/ \E c \in ContractId : FreezeStep(c)
           \/ \E c \in ContractId, to \in Account, n \in Positive,
                 st \in LockStatus : PayOutStep(c, to, n, st)
  BY MintSteps, TransferSteps, LockSteps, FreezeSteps, ReleaseMilestoneSteps,
     RefundSteps, ArbitrateSteps DEF Next

-----------------------------------------------------------------------------
(* The inductive invariant *)

\* The genesis state has no escrow and no spent nonce.
LEMMA InitInv == Init => IInv
<1>. SUFFICES ASSUME Init PROVE IInv
  OBVIOUS
<1>. USE DEF Init, NewState
<1>1. TypeOK
  <2>1. Allocations \in [Account -> Int64]
    BY WorldStateAssumption, LedgerAssumption DEF Int64
  <2>. QED  BY <2>1 DEF TypeOK, State
<1>2. EscrowConservation
  BY DEF EscrowConservation, NoLock
<1>3. SettledIffEmpty
  BY DEF SettledIffEmpty, NoLock
<1>4. NoReplayedSpend
  BY DEF NoReplayedSpend
<1>. QED  BY <1>1, <1>2, <1>3, <1>4 DEF IInv

\* What a MINT leaves behind.
LEMMA MintEffect ==
    ASSUME TypeOK, NEW to \in Account, NEW n \in Positive, MintStep(to, n)
    PROVE  Credited(state, state', to, n)
<1>1. state \in State /\ n \in 0 .. MaxInt64
  BY LedgerAssumption DEF TypeOK, Positive
<1>. QED  BY <1>1, CreditEffect DEF MintStep

\* MINT adds to one balance only.
LEMMA MintInv ==
    ASSUME IInv, NEW to \in Account, NEW n \in Positive, MintStep(to, n)
    PROVE  IInv'
<1>1. n \in Nat
  BY DEF Positive
<1>2. Credited(state, state', to, n)
  BY MintEffect DEF IInv
<1>3. TypeOK'
  BY <1>1, <1>2 DEF IInv, TypeOK, MintStep, Credited
<1>. QED  BY <1>2, <1>3 DEF IInv, MintStep, Credited, EscrowConservation,
                            SettledIffEmpty, NoReplayedSpend

\* The nonce a spend uses up is the next one.
LEMMA NonceUsed ==
    ASSUME TypeOK, NoReplayedSpend, NEW from \in Account,
           state'.nonces = [state.nonces EXCEPT ![from] = state.nonces[from] + 1],
           spent' = [spent EXCEPT ![from] = @ \cup {state.nonces[from]}]
    PROVE  NoReplayedSpend' /\ spent' \in [Account -> SUBSET Nat]
<1>1. state.nonces \in [Account -> Nat] /\ spent \in [Account -> SUBSET Nat]
  BY DEF TypeOK, State
<1>2. ASSUME NEW a \in Account
      PROVE  spent'[a] = 0 .. state'.nonces[a] - 1
  <2>1. spent[a] = 0 .. state.nonces[a] - 1
    BY DEF NoReplayedSpend
  <2>2. CASE a = from
    <3>1. spent'[a] = spent[a] \cup {state.nonces[a]}
      BY <1>1, <2>2
    <3>2. state'.nonces[a] = state.nonces[a] + 1 /\ state.nonces[a] \in Nat
      BY <1>1, <2>2
    <3>3. \A m \in Nat : (0 .. m - 1) \cup {m} = 0 .. (m + 1) - 1
      OBVIOUS
    <3>. QED  BY <2>1, <2>2, <3>1, <3>2, <3>3
  <2>3. CASE a # from
    BY <1>1, <2>1, <2>3
  <2>. QED  BY <2>2, <2>3
<1>3. spent' \in [Account -> SUBSET Nat]
  BY <1>1
<1>. QED  BY <1>2, <1>3 DEF NoReplayedSpend

\* What a transfer leaves behind; s is the state after the debit.
LEMMA TransferEffect ==
    ASSUME TypeOK, NEW from \in Account, NEW to \in Account,
           NEW n \in Positive, TransferStep(from, to, n)
    PROVE  \E s \in State : /\ Spends(state, s, from, n)
                            /\ Credited(s, state', to, n)
<1>. DEFINE s == Spend(state, from, n)
<1>1. state \in State /\ n \in 0 .. MaxInt64 /\ n \in 1 .. MaxInt64
  BY LedgerAssumption DEF TypeOK, Positive
<1>2. Spends(state, s, from, n)
  BY <1>1, SpendEffect DEF TransferStep
<1>3. state' = Credit(s, to, n)
  BY DEF TransferStep
<1>. HIDE DEF s
<1>4. s \in State
  BY <1>2 DEF Spends
<1>5. Credited(s, state', to, n)
  BY <1>1, <1>3, <1>4, CreditEffect
<1>. QED  BY <1>2, <1>4, <1>5

\* TRANSFER uses up the nonce that it adds to the history.
LEMMA TransferInv ==
    ASSUME IInv, NEW from \in Account, NEW to \in Account, NEW n \in Positive,
           TransferStep(from, to, n)
    PROVE  IInv'
<1>1. PICK s \in State : Spends(state, s, from, n) /\ Credited(s, state', to, n)
  BY TransferEffect DEF IInv
<1>2. /\ state' \in State /\ state'.locked = state.locked
      /\ state'.nonces = [state.nonces EXCEPT ![from] = state.nonces[from] + 1]
  BY <1>1 DEF Spends, Credited
<1>3. NoReplayedSpend' /\ spent' \in [Account -> SUBSET Nat]
  BY <1>2, NonceUsed DEF IInv, TransferStep
<1>4. TypeOK'
  BY <1>2, <1>3 DEF IInv, TypeOK, TransferStep
<1>. QED  BY <1>2, <1>3, <1>4
             DEF IInv, TransferStep, EscrowConservation, SettledIffEmpty

Locking(from, to, n) ==
    [investor |-> from, founder |-> to, amount |-> n, status |-> "LOCKED"]

\* What a LOCK leaves behind; s is the state after the debit.
LEMMA LockEffect ==
    ASSUME TypeOK, NEW from \in Account, NEW to \in Account,
           NEW n \in Positive, NEW c \in ContractId, LockStep(from, to, n, c)
    PROVE  \E s \in State : /\ Spends(state, s, from, n)
                            /\ Relocked(s, state', c, Locking(from, to, n))
<1>. DEFINE s == Spend(state, from, n)
<1>1. state \in State /\ n \in 1 .. MaxInt64
  BY DEF TypeOK, Positive
<1>2. Spends(state, s, from, n)
  BY <1>1, SpendEffect DEF LockStep
<1>3. state' = SetLock(s, c, Locking(from, to, n))
  BY DEF LockStep, Locking
<1>4. Locking(from, to, n) \in EscrowLock
  BY <1>1, LedgerAssumption DEF Locking, EscrowLock, LockStatus, Int64
<1>. HIDE DEF s
<1>5. s \in State
  BY <1>2 DEF Spends
<1>6. Relocked(s, state', c, Locking(from, to, n))
  BY <1>3, <1>4, <1>5, SetLockEffect
<1>. QED  BY <1>2, <1>5, <1>6

\* LOCK deposits what the new escrow then holds.
LEMMA LockInv ==
    ASSUME IInv, NEW from \in Account, NEW to \in Account, NEW n \in Positive,
           NEW c \in ContractId, LockStep(from, to, n, c)
    PROVE  IInv'
<1>. DEFINE new == Locking(from, to, n)
<1>1. PICK s \in State : Spends(state, s, from, n) /\ Relocked(s, state', c, new)
  BY LockEffect DEF IInv
<1>2. new.amount = n /\ new.status = "LOCKED" /\ n \in Nat /\ n > 0
  BY DEF Locking, Positive
<1>. HIDE DEF new
<1>3. /\ state' \in State /\ state'.locked = [state.locked EXCEPT ![c] = new]
      /\ state'.nonces = [state.nonces EXCEPT ![from] = state.nonces[from] + 1]
  BY <1>1 DEF Spends, Relocked
<1>4. NoReplayedSpend' /\ spent' \in [Account -> SUBSET Nat]
  BY <1>3, NonceUsed DEF IInv, LockStep
<1>5. deposit' = [deposit EXCEPT ![c] = deposit[c] + n] /\ UNCHANGED <<minted, paid>>
  BY DEF LockStep
<1>6. TypeOK'
  BY <1>2, <1>3, <1>4, <1>5 DEF IInv, TypeOK
<1>7. deposit[c] = paid[c]
  BY DEF IInv, EscrowConservation, NoLock, TypeOK, LockStep
<1>8. EscrowConservation'
  BY <1>2, <1>3, <1>5, <1>7 DEF IInv, EscrowConservation, TypeOK, State
<1>9. SettledIffEmpty'
  BY <1>2, <1>3 DEF IInv, SettledIffEmpty, TypeOK, State
<1>. QED  BY <1>4, <1>6, <1>8, <1>9 DEF IInv

\* What a FREEZE_DISPUTE leaves behind.
LEMMA FreezeEffect ==
    ASSUME TypeOK, SettledIffEmpty, NEW c \in ContractId, FreezeStep(c)
    PROVE  /\ Relocked(state, state', c, Reduced(state.locked[c], 0, "FROZEN"))
           /\ state.locked[c] \in EscrowLock
           /\ state.locked[c].amount > 0
           /\ 0 \in 0 .. state.locked[c].amount
<1>1. state.locked[c] \in EscrowLock /\ state.locked[c].amount > 0
  BY DEF TypeOK, State, NoLock, SettledIffEmpty, FreezeStep
<1>2. "FROZEN" \in LockStatus /\ 0 \in 0 .. state.locked[c].amount
  BY <1>1 DEF LockStatus, EscrowLock, Int64
<1>3. Reduced(state.locked[c], 0, "FROZEN") \in EscrowLock
  BY <1>1, <1>2, ReducedLock
<1>. QED  BY <1>1, <1>2, <1>3, SetLockEffect DEF FreezeStep, PayOut, TypeOK

\* FREEZE_DISPUTE changes a status between two that hold money.
LEMMA FreezeInv ==
    ASSUME IInv, NEW c \in ContractId, FreezeStep(c)
    PROVE  IInv'
<1>. DEFINE old == state.locked[c]
            new == Reduced(old, 0, "FROZEN")
<1>1. /\ Relocked(state, state', c, new) /\ old \in EscrowLock
      /\ old.amount > 0 /\ 0 \in 0 .. old.amount
  BY FreezeEffect DEF IInv
<1>2. /\ new.status = "FROZEN"
      /\ new.amount = old.amount
  BY <1>1 DEF Reduced, EscrowLock, Int64
<1>3. UNCHANGED <<minted, spent, deposit, paid>>
  BY DEF FreezeStep
<1>. HIDE DEF new
<1>4. TypeOK'
  BY <1>1, <1>3 DEF IInv, TypeOK, Relocked
<1>5. EscrowConservation'
  BY <1>1, <1>2, <1>3 DEF IInv, EscrowConservation, TypeOK, State, Relocked
<1>6. SettledIffEmpty'
  BY <1>1, <1>2, <1>3 DEF IInv, SettledIffEmpty, TypeOK, State, Relocked
<1>. QED  BY <1>1, <1>3, <1>4, <1>5, <1>6 DEF IInv, NoReplayedSpend, Relocked

\* What a payout leaves behind; s is the state before the credit.
LEMMA PayOutEffect ==
    ASSUME TypeOK, NEW c \in ContractId, NEW to \in Account,
           NEW n \in Positive, NEW st \in LockStatus, PayOutStep(c, to, n, st)
    PROVE  /\ state.locked[c] \in EscrowLock
           /\ n \in 0 .. state.locked[c].amount
           /\ \E s \in State :
                /\ Relocked(state, s, c, Reduced(state.locked[c], n, st))
                /\ Credited(s, state', to, n)
<1>. DEFINE s == PayOut(state, c, n, st)
<1>1. state \in State /\ n \in 0 .. MaxInt64
  BY LedgerAssumption DEF TypeOK, Positive
<1>2. state.locked[c] \in EscrowLock
  BY DEF TypeOK, State, NoLock, PayOutStep
<1>3. n \in 0 .. state.locked[c].amount
  BY <1>2 DEF PayOutStep, EscrowLock, Int64
<1>4. Relocked(state, s, c, Reduced(state.locked[c], n, st))
  BY <1>1, <1>2, <1>3, ReducedLock, SetLockEffect DEF PayOut
<1>5. state' = Credit(s, to, n)
  BY DEF PayOutStep
<1>. HIDE DEF s
<1>6. s \in State
  BY <1>4 DEF Relocked
<1>7. Credited(s, state', to, n)
  BY <1>1, <1>5, <1>6, CreditEffect
<1>. QED  BY <1>2, <1>3, <1>4, <1>6, <1>7

\* A payout moves money from the escrow to the history of payments, and
\* settles the escrow exactly when it takes the rest.
LEMMA PayOutInv ==
    ASSUME IInv, NEW c \in ContractId, NEW to \in Account,
           NEW n \in Positive, NEW st \in LockStatus, PayOutStep(c, to, n, st)
    PROVE  IInv'
<1>. DEFINE old == state.locked[c]
            new == Reduced(old, n, st)
<1>1. PICK s \in State : Relocked(state, s, c, new) /\ Credited(s, state', to, n)
  BY PayOutEffect DEF IInv
<1>2. old \in EscrowLock /\ n \in 0 .. old.amount
  BY PayOutEffect DEF IInv
<1>3. /\ UNCHANGED <<minted, spent, deposit>>
      /\ paid' = [paid EXCEPT ![c] = paid[c] + n]
      /\ n \in 1 .. old.amount
      /\ st \in IF n = old.amount THEN {"RELEASED", "REFUNDED"} ELSE {"LOCKED"}
  BY DEF PayOutStep
<1>4. new.amount = old.amount - n /\ new.status = st /\ old.amount \in Int
  BY <1>2, ReducedLock DEF EscrowLock, Int64
<1>. HIDE DEF new
<1>5. /\ state' \in State /\ state'.locked = [state.locked EXCEPT ![c] = new]
      /\ state'.nonces = state.nonces
  BY <1>1 DEF Relocked, Credited
<1>6. TypeOK'
  BY <1>3, <1>5 DEF IInv, TypeOK
<1>7. EscrowConservation'
  BY <1>3, <1>4, <1>5 DEF IInv, EscrowConservation, TypeOK, State
<1>8. SettledIffEmpty'
  <2>1. /\ new.status \in {"LOCKED", "FROZEN"} => new.amount > 0
        /\ new.status \in {"RELEASED", "REFUNDED", "NONE"} => new.amount = 0
    BY <1>3, <1>4
  <2>. QED  BY <1>5, <2>1 DEF IInv, SettledIffEmpty, TypeOK, State
<1>. QED  BY <1>3, <1>5, <1>6, <1>7, <1>8 DEF IInv, NoReplayedSpend

\* The invariant is inductive.
LEMMA NextInv == IInv /\ [Next]_vars => IInv'
<1>. SUFFICES ASSUME IInv, [Next]_vars PROVE IInv'
  OBVIOUS
<1>1. CASE Next
  BY <1>1, NextSteps, MintInv, TransferInv, LockInv, FreezeInv, PayOutInv
     DEF IInv
<1>2. CASE UNCHANGED vars
  BY <1>2 DEF vars, IInv, TypeOK, EscrowConservation, SettledIffEmpty,
              NoReplayedSpend
<1>. QED  BY <1>1, <1>2

\* It holds for every sequence of committed transactions.
LEMMA Invariance == Spec => []IInv
  BY InitInv, NextInv, PTL DEF Spec

\* The world state and the histories keep their types: no transaction leaves
\* a negative lock, a status outside EscrowLock or a balance outside int64.
THEOREM TypeCorrect == Spec => []TypeOK
  BY Invariance, PTL DEF IInv

\* ApplyTransaction's lock.Amount bookkeeping neither loses nor invents
\* escrowed money.
THEOREM EscrowConserved == Spec => []EscrowConservation
  BY Invariance, PTL DEF IInv

\* A lock is RELEASED or REFUNDED exactly when it is empty.
THEOREM SettledExactlyWhenEmpty == Spec => []SettledIffEmpty
  BY Invariance, PTL DEF IInv

\* A nonce of an account is used by at most one committed spend.
THEOREM SpendsNotReplayed == Spec => []NoReplayedSpend
  BY Invariance, PTL DEF IInv

-----------------------------------------------------------------------------
(* Action properties *)

\* A step keeps the parties of every lock, never adds to it, and leaves a
\* settled one alone.
LEMMA LocksFinal ==
    ASSUME IInv, [Next]_vars
    PROVE  \A c \in ContractId : LockFinal(state.locked[c], state'.locked[c])
<1>. SUFFICES ASSUME NEW c \in ContractId
              PROVE  LockFinal(state.locked[c], state'.locked[c])
  OBVIOUS
<1>. USE DEF IInv
<1>0. state.locked \in [ContractId -> EscrowLock \cup {NoLock}]
  BY DEF TypeOK, State
<1>1. ASSUME state'.locked = state.locked
      PROVE  LockFinal(state.locked[c], state'.locked[c])
  BY <1>0, <1>1 DEF LockFinal, EscrowLock, NoLock, Int64
<1>2. ASSUME NEW to \in Account, NEW n \in Positive, MintStep(to, n)
      PROVE  LockFinal(state.locked[c], state'.locked[c])
  <2>1. state'.locked = state.locked
    BY <1>2, MintEffect DEF Credited
  <2>. QED  BY <1>1, <2>1
<1>3. ASSUME NEW from \in Account, NEW to \in Account, NEW n \in Positive,
             TransferStep(from, to, n)
      PROVE  LockFinal(state.locked[c], state'.locked[c])
  <2>1. state'.locked = state.locked
    BY <1>3, TransferEffect DEF Spends, Credited
  <2>. QED  BY <1>1, <2>1
<1>4. ASSUME NEW from \in Account, NEW to \in Account, NEW n \in Positive,
             NEW d \in ContractId, LockStep(from, to, n, d)
      PROVE  LockFinal(state.locked[c], state'.locked[c])
  <2>1. PICK s \in State : Spends(state, s, from, n)
                          /\ Relocked(s, state', d, Locking(from, to, n))
    BY <1>4, LockEffect
  <2>2. state'.locked = [state.locked EXCEPT ![d] = Locking(from, to, n)]
    BY <2>1 DEF Spends, Relocked
  <2>3. state.locked[d].status = "NONE"
    BY <1>4 DEF LockStep, NoLock
  <2>4. CASE c = d
    BY <2>3, <2>4 DEF LockFinal
  <2>5. CASE c # d
    BY <1>0, <1>1, <2>2, <2>5 DEF LockFinal, EscrowLock, NoLock, Int64
  <2>. QED  BY <2>4, <2>5
<1>5. ASSUME NEW d \in ContractId, FreezeStep(d)
      PROVE  LockFinal(state.locked[c], state'.locked[c])
  <2>. DEFINE new == Reduced(state.locked[d], 0, "FROZEN")
  <2>1. /\ Relocked(state, state', d, new) /\ state.locked[d] \in EscrowLock
        /\ 0 \in 0 .. state.locked[d].amount
    BY <1>5, FreezeEffect
  <2>2. state'.locked = [state.locked EXCEPT ![d] = new]
    BY <2>1 DEF Relocked
  <2>3. /\ new.status = "FROZEN" /\ state.locked[d].status = "LOCKED"
        /\ new.amount <= state.locked[d].amount
        /\ new.investor = state.locked[d].investor
        /\ new.founder = state.locked[d].founder
    BY <1>5, <2>1 DEF Reduced, FreezeStep, EscrowLock, Int64
  <2>. HIDE DEF new
  <2>4. CASE c = d
    BY <1>0, <2>2, <2>3, <2>4 DEF LockFinal
  <2>5. CASE c # d
    BY <1>0, <2>2, <2>5 DEF LockFinal, EscrowLock, NoLock, Int64
  <2>. QED  BY <2>4, <2>5
<1>6. ASSUME NEW d \in ContractId, NEW to \in Account, NEW n \in Positive,
             NEW st \in LockStatus, PayOutStep(d, to, n, st)
      PROVE  LockFinal(state.locked[c], state'.locked[c])
  <2>. DEFINE old == state.locked[d]
              new == Reduced(old, n, st)
  <2>1. PICK s \in State : Relocked(state, s, d, new) /\ Credited(s, state', to, n)
    BY <1>6, PayOutEffect
  <2>2. old \in EscrowLock /\ n \in 0 .. old.amount
    BY <1>6, PayOutEffect
  <2>3. state'.locked = [state.locked EXCEPT ![d] = new]
    BY <2>1 DEF Relocked, Credited
  <2>4. /\ new.status = st /\ st # "NONE"
        /\ new.amount <= old.amount
        /\ new.investor = old.investor /\ new.founder = old.founder
    BY <2>2, ReducedLock DEF EscrowLock, Int64, LockStatus
  <2>5. old.status \in {"LOCKED", "FROZEN"}
    BY <1>6 DEF PayOutStep
  <2>. HIDE DEF new
  <2>6. CASE c = d
    BY <1>0, <2>3, <2>4, <2>5, <2>6 DEF LockFinal
  <2>7. CASE c # d
    BY <1>0, <2>3, <2>7 DEF LockFinal, EscrowLock, NoLock, Int64
  <2>. QED  BY <2>6, <2>7
<1>7. CASE Next
  BY <1>2, <1>3, <1>4, <1>5, <1>6, <1>7, NextSteps
<1>8. CASE UNCHANGED vars
  BY <1>1, <1>8 DEF vars
<1>. QED  BY <1>7, <1>8

\* Escrows only shrink, keep their parties, and once settled never change.
THEOREM EscrowsAreFinal == Spec => EscrowFinality
<1>1. IInv /\ [Next]_vars =>
        [\A c \in ContractId : LockFinal(state.locked[c], state'.locked[c])]_vars
  BY LocksFinal
<1>. QED  BY <1>1, Invariance, PTL DEF Spec, EscrowFinality

\* A balance that falls and stays non-negative was debited by a spend.
LEMMA DebitsSpend ==
    ASSUME IInv, [Next]_vars, NEW a \in Account,
           state'.balances[a] < state.balances[a], state'.balances[a] >= 0
    PROVE  state'.nonces[a] = state.nonces[a] + 1
<1>. USE DEF IInv
<1>1. /\ state.balances \in [Account -> Int64] /\ state.balances[a] \in Int64
      /\ state.nonces \in [Account -> Nat]
  BY DEF TypeOK, State
\* An overflowing credit leaves a negative balance.
<1>2. ASSUME NEW b \in Int64, NEW n \in Positive, Wrap(b + n) < b
      PROVE  Wrap(b + n) < 0
  BY <1>2, LedgerAssumption DEF Wrap, Int64, Positive
<1>3. ASSUME NEW to \in Account, NEW n \in Positive, NEW s \in State,
             Credited(s, state', to, n), s.balances[a] = state.balances[a]
      PROVE  FALSE
  <2>1. state'.balances = [s.balances EXCEPT ![to] = Wrap(s.balances[to] + n)]
        /\ s.balances \in [Account -> Int64]
    BY <1>3 DEF Credited, State
  <2>2. a = to /\ state'.balances[a] = Wrap(state.balances[a] + n)
    BY <1>1, <1>3, <2>1 DEF Int64
  <2>3. Wrap(state.balances[a] + n) < 0
    BY <1>1, <1>2, <2>2
  <2>4. state'.balances[a] \in Int
    BY <1>1, <2>2, LedgerAssumption DEF Wrap, Int64, Positive
  <2>. QED  BY <2>2, <2>3, <2>4
<1>4. ASSUME NEW to \in Account, NEW n \in Positive, MintStep(to, n)
      PROVE  FALSE
  BY <1>1, <1>3, <1>4, MintEffect DEF TypeOK, Int64
<1>5. ASSUME NEW from \in Account, NEW to \in Account, NEW n \in Positive,
             TransferStep(from, to, n)
      PROVE  state'.nonces[a] = state.nonces[a] + 1
  <2>1. PICK s \in State : Spends(state, s, from, n) /\ Credited(s, state', to, n)
    BY <1>5, TransferEffect
  <2>2. CASE a = from
    BY <1>1, <2>1, <2>2 DEF Spends, Credited
  <2>3. CASE a # from
    <3>1. s.balances[a] = state.balances[a]
      BY <1>1, <2>1, <2>3 DEF Spends
    <3>. QED  BY <1>1, <1>3, <2>1, <3>1 DEF Int64
  <2>. QED  BY <2>2, <2>3
<1>6. ASSUME NEW from \in Account, NEW to \in Account, NEW n \in Positive,
             NEW c \in ContractId, LockStep(from, to, n, c)
      PROVE  state'.nonces[a] = state.nonces[a] + 1
  <2>1. PICK s \in State : Spends(state, s, from, n)
                          /\ Relocked(s, state', c, Locking(from, to, n))
    BY <1>6, LockEffect
  <2>2. CASE a = from
    BY <1>1, <2>1, <2>2 DEF Spends, Relocked
  <2>3. CASE a # from
    BY <1>1, <2>1, <2>3 DEF Spends, Relocked, Int64
  <2>. QED  BY <2>2, <2>3
<1>7. ASSUME NEW c \in ContractId, FreezeStep(c)
      PROVE  FALSE
  <2>1. state'.balances = state.balances
    BY <1>7, FreezeEffect DEF Relocked
  <2>. QED  BY <1>1, <2>1 DEF Int64
<1>8. ASSUME NEW c \in ContractId, NEW to \in Account, NEW n \in Positive,
             NEW st \in LockStatus, PayOutStep(c, to, n, st)
      PROVE  FALSE
  <2>1. PICK s \in State :
          /\ Relocked(state, s, c, Reduced(state.locked[c], n, st))
          /\ Credited(s, state', to, n)
    BY <1>8, PayOutEffect
  <2>2. s.balances[a] = state.balances[a]
    BY <2>1 DEF Relocked
  <2>. QED  BY <1>1, <1>3, <2>1, <2>2 DEF Int64
<1>9. CASE Next
  BY <1>4, <1>5, <1>6, <1>7, <1>8, <1>9, NextSteps
<1>10. CASE UNCHANGED vars
  BY <1>1, <1>10 DEF vars, Int64
<1>. QED  BY <1>9, <1>10

\* Only a transaction an account signed takes money from it, once.
THEOREM DebitsAreSigned == Spec => DebitSpendsNonce
<1>1. IInv /\ [Next]_vars =>
        [\A a \in Account :
            state'.balances[a] < state.balances[a] /\ state'.balances[a] >= 0
                => state'.nonces[a] = state.nonces[a] + 1]_vars
  BY DebitsSpend
<1>. QED  BY <1>1, Invariance, PTL DEF Spec, DebitSpendsNonce

\* What a payout takes out of a lock is what the recipient gets.
LEMMA PaysParties ==
    ASSUME IInv, [Next]_vars, NEW c \in ContractId,
           state'.locked[c].amount < state.locked[c].amount
    PROVE  PaidInFull(c, state, state')
<1>. USE DEF IInv
<1>1. /\ state.locked \in [ContractId -> EscrowLock \cup {NoLock}]
      /\ state.locked[c].amount \in Int
  BY DEF TypeOK, State, EscrowLock, NoLock, Int64
<1>2. state'.locked[c] # state.locked[c]
  BY <1>1
<1>3. ASSUME NEW to \in Account, NEW n \in Positive, MintStep(to, n)
      PROVE  FALSE
  BY <1>2, <1>3, MintEffect DEF Credited
<1>4. ASSUME NEW from \in Account, NEW to \in Account, NEW n \in Positive,
             TransferStep(from, to, n)
      PROVE  FALSE
  BY <1>2, <1>4, TransferEffect DEF Spends, Credited
<1>5. ASSUME NEW from \in Account, NEW to \in Account, NEW n \in Positive,
             NEW d \in ContractId, LockStep(from, to, n, d)
      PROVE  FALSE
  <2>1. PICK s \in State : Spends(state, s, from, n)
                          /\ Relocked(s, state', d, Locking(from, to, n))
    BY <1>5, LockEffect
  <2>2. state'.locked = [state.locked EXCEPT ![d] = Locking(from, to, n)]
    BY <2>1 DEF Spends, Relocked
  <2>3. c = d
    BY <1>1, <1>2, <2>2
  <2>4. state.locked[c].amount = 0
    BY <1>5, <2>3 DEF LockStep, NoLock
  <2>5. state'.locked[c] = Locking(from, to, n)
    BY <1>1, <2>2, <2>3
  <2>6. state'.locked[c].amount = n /\ n > 0
    BY <2>5 DEF Locking, Positive
  <2>. QED  BY <2>4, <2>6 DEF Positive
<1>6. ASSUME NEW d \in ContractId, FreezeStep(d)
      PROVE  FALSE
  <2>. DEFINE new == Reduced(state.locked[d], 0, "FROZEN")
  <2>1. Relocked(state, state', d, new) /\ state.locked[d] \in EscrowLock
    BY <1>6, FreezeEffect
  <2>2. new.amount = state.locked[d].amount
    BY <2>1 DEF Reduced, EscrowLock, Int64
  <2>. HIDE DEF new
  <2>. QED  BY <1>1, <1>2, <2>1, <2>2 DEF Relocked
<1>7. ASSUME NEW d \in ContractId, NEW to \in Account, NEW n \in Positive,
             NEW st \in LockStatus, PayOutStep(d, to, n, st)
      PROVE  PaidInFull(c, state, state')
  <2>. DEFINE old == state.locked[d]
              new == Reduced(old, n, st)
  <2>1. PICK s \in State : Relocked(state, s, d, new) /\ Credited(s, state', to, n)
    BY <1>7, PayOutEffect
  <2>2. old \in EscrowLock /\ n \in 0 .. old.amount
    BY <1>7, PayOutEffect
  <2>3. new.amount = old.amount - n /\ old.amount \in Int
    BY <2>2, ReducedLock DEF EscrowLock, Int64
  <2>. HIDE DEF new
  <2>4. state'.locked = [state.locked EXCEPT ![d] = new]
    BY <2>1 DEF Relocked, Credited
  <2>5. c = d
    BY <1>1, <1>2, <2>4
  <2>6. state'.locked[c] = new
    BY <1>1, <2>4, <2>5
  <2>7. old.amount - state'.locked[c].amount = n
    BY <2>2, <2>3, <2>6
  <2>8. state'.balances = [state.balances EXCEPT
                                ![to] = Wrap(state.balances[to] + n)]
    BY <2>1 DEF Relocked, Credited
  <2>9. to \in {state.locked[c].investor, state.locked[c].founder}
    BY <1>7, <2>5 DEF PayOutStep
  <2>. QED  BY <2>5, <2>7, <2>8, <2>9 DEF PaidInFull
<1>8. CASE Next
  BY <1>3, <1>4, <1>5, <1>6, <1>7, <1>8, NextSteps
<1>9. CASE UNCHANGED vars
  BY <1>2, <1>9 DEF vars
<1>. QED  BY <1>8, <1>9

\* Money that leaves an escrow arrives in full at one of its two parties.
THEOREM PayoutsReachParties == Spec => EscrowPaysParties
<1>1. IInv /\ [Next]_vars =>
        [\A c \in ContractId :
            state'.locked[c].amount < state.locked[c].amount
                => PaidInFull(c, state, state')]_vars
  BY PaysParties
<1>. QED  BY <1>1, Invariance, PTL DEF Spec, EscrowPaysParties

-----------------------------------------------------------------------------
(* The total supply: what genesis and MINT issued is what accounts and      *)
(* escrows hold.  The sums are over the keys of Go maps, which are finite.  *)

FiniteNames == IsFiniteSet(Account) /\ IsFiniteSet(ContractId)

\* The total is a number, computed from numbers.
LEMMA SupplyTerms ==
    ASSUME FiniteNames, NEW s \in State
    PROVE  /\ TotalSupply(s) = SumFunctionOnSet(s.balances, Account)
                             + SumFunctionOnSet(Escrowed(s), ContractId)
           /\ SumFunctionOnSet(s.balances, Account) \in Int
           /\ SumFunctionOnSet(Escrowed(s), ContractId) \in Int
           /\ \A a \in Account : s.balances[a] \in Int
           /\ \A c \in ContractId : Escrowed(s)[c] \in Int
  <1>1. /\ DOMAIN s.balances = Account
        /\ \A a \in Account : s.balances[a] \in Int
    BY DEF State, Int64
  <1>2. /\ DOMAIN Escrowed(s) = ContractId
        /\ \A c \in ContractId : Escrowed(s)[c] \in Int
    BY DEF State, Escrowed, EscrowLock, NoLock, Int64
  <1>3. TotalSupply(s) = SumFunctionOnSet(s.balances, Account)
                       + SumFunctionOnSet(Escrowed(s), ContractId)
    BY <1>1, <1>2 DEF TotalSupply, SumFunction
  <1>4. SumFunctionOnSet(s.balances, Account) \in Int
    BY <1>1, SumType DEF FiniteNames
  <1>5. SumFunctionOnSet(Escrowed(s), ContractId) \in Int
    BY <1>2, SumType DEF FiniteNames
  <1> QED
    BY <1>1, <1>2, <1>3, <1>4, <1>5

\* A change of one balance changes the total by as much.
LEMMA BalanceSupply ==
    ASSUME FiniteNames, NEW s \in State, NEW t \in State, NEW a \in Account,
           t.locked = s.locked,
           \A b \in Account : b # a => t.balances[b] = s.balances[b]
    PROVE  TotalSupply(t) = TotalSupply(s) - s.balances[a] + t.balances[a]
  <1>1. Escrowed(t) = Escrowed(s)
    BY DEF Escrowed
  <1>2. PICK f, e : f = s.balances /\ e = t.balances
    OBVIOUS
  <1>3. /\ \A b \in Account : f[b] \in Int
        /\ e[a] \in Int /\ \A b \in Account : b # a => e[b] = f[b]
    BY <1>2, SupplyTerms
  <1>4. SumFunctionOnSet(e, Account) = SumFunctionOnSet(f, Account) - f[a] + e[a]
    BY <1>3, SumChange DEF FiniteNames
  <1>5. /\ TotalSupply(s) = SumFunctionOnSet(f, Account)
                          + SumFunctionOnSet(Escrowed(s), ContractId)
        /\ TotalSupply(t) = SumFunctionOnSet(e, Account)
                          + SumFunctionOnSet(Escrowed(s), ContractId)
        /\ SumFunctionOnSet(f, Account) \in Int
        /\ SumFunctionOnSet(Escrowed(s), ContractId) \in Int
    BY <1>1, <1>2, SupplyTerms
  <1> QED
    BY <1>2, <1>3, <1>4, <1>5

\* So does a change of one lock.
LEMMA RelockSupply ==
    ASSUME FiniteNames, NEW s \in State, NEW t, NEW c \in ContractId, NEW lock,
           Relocked(s, t, c, lock)
    PROVE  TotalSupply(t) = TotalSupply(s) - s.locked[c].amount + lock.amount
  <1>1. /\ t \in State /\ t.balances = s.balances
        /\ t.locked = [s.locked EXCEPT ![c] = lock]
        /\ DOMAIN s.locked = ContractId
    BY DEF Relocked, State
  <1>2. PICK f, e : f = Escrowed(s) /\ e = Escrowed(t)
    OBVIOUS
  <1>3. /\ f[c] = s.locked[c].amount /\ e[c] = lock.amount
        /\ \A d \in ContractId : d # c => e[d] = f[d]
    BY <1>1, <1>2 DEF Escrowed
  <1>4. e[c] \in Int /\ \A d \in ContractId : f[d] \in Int
    BY <1>1, <1>2, SupplyTerms
  <1>5. SumFunctionOnSet(e, ContractId) = SumFunctionOnSet(f, ContractId) - f[c] + e[c]
    BY <1>3, <1>4, SumChange DEF FiniteNames
  <1>6. /\ TotalSupply(s) = SumFunctionOnSet(s.balances, Account)
                          + SumFunctionOnSet(f, ContractId)
        /\ TotalSupply(t) = SumFunctionOnSet(s.balances, Account)
                          + SumFunctionOnSet(e, ContractId)
        /\ SumFunctionOnSet(s.balances, Account) \in Int
        /\ SumFunctionOnSet(f, ContractId) \in Int
    BY <1>1, <1>2, SupplyTerms
  <1> QED
    BY <1>3, <1>4, <1>5, <1>6

\* A debit takes its amount out of the total.
LEMMA SpendSupply ==
    ASSUME FiniteNames, NEW s \in State, NEW t, NEW a \in Account, NEW n \in Nat,
           Spends(s, t, a, n)
    PROVE  t \in State /\ TotalSupply(t) = TotalSupply(s) - n
  <1>1. /\ t \in State /\ t.locked = s.locked
        /\ t.balances = [s.balances EXCEPT ![a] = s.balances[a] - n]
        /\ DOMAIN s.balances = Account /\ s.balances[a] \in Int
    BY DEF Spends, State, Int64
  <1>2. /\ t.balances[a] = s.balances[a] - n
        /\ \A b \in Account : b # a => t.balances[b] = s.balances[b]
    BY <1>1
  <1>3. TotalSupply(t) = TotalSupply(s) - s.balances[a] + t.balances[a]
    BY <1>1, <1>2, BalanceSupply
  <1>4. TotalSupply(s) \in Int
    BY SupplyTerms
  <1> QED
    BY <1>1, <1>2, <1>3, <1>4

Width == 2 * (MaxInt64 + 1)

\* A credit adds its amount to the total, less the width of int64 when the
\* balance overflows.  It cannot when nothing is below zero and the total with
\* the credit is an int64.
LEMMA CreditSupply ==
    ASSUME FiniteNames, NEW s \in State, NEW t, NEW a \in Account, NEW n \in Nat,
           Credited(s, t, a, n)
    PROVE  /\ t \in State
           /\ TotalSupply(t) \in {TotalSupply(s) + n, TotalSupply(s) + n - Width}
           /\ /\ \A b \in Account : s.balances[b] >= 0
              /\ \A c \in ContractId : s.locked[c].amount >= 0
              /\ TotalSupply(s) + n <= MaxInt64
              => /\ TotalSupply(t) = TotalSupply(s) + n
                 /\ \A b \in Account : t.balances[b] >= 0
  <1>1. /\ t \in State /\ t.locked = s.locked
        /\ t.balances = [s.balances EXCEPT ![a] = Wrap(s.balances[a] + n)]
        /\ DOMAIN s.balances = Account /\ s.balances[a] \in Int
    BY DEF Credited, State, Int64
  <1>2. /\ t.balances[a] = Wrap(s.balances[a] + n)
        /\ \A b \in Account : b # a => t.balances[b] = s.balances[b]
    BY <1>1
  <1>3. TotalSupply(t) = TotalSupply(s) - s.balances[a] + t.balances[a]
    BY <1>1, <1>2, BalanceSupply
  <1>4. TotalSupply(s) \in Int
    BY SupplyTerms
  <1>5. /\ Wrap(s.balances[a] + n) \in {s.balances[a] + n, s.balances[a] + n - Width}
        /\ s.balances[a] + n <= MaxInt64 => Wrap(s.balances[a] + n) = s.balances[a] + n
        /\ Width \in Int
    BY <1>1, LedgerAssumption DEF Wrap, Width
  <1>6. ASSUME \A b \in Account : s.balances[b] >= 0,
               \A c \in ContractId : s.locked[c].amount >= 0
        PROVE  s.balances[a] <= TotalSupply(s)
    <2>1. PICK f, e : f = s.balances /\ e = Escrowed(s)
      OBVIOUS
    <2>2. (\A b \in Account : f[b] \in Nat) /\ \A c \in ContractId : e[c] \in Nat
      <3>1. /\ \A b \in Account : f[b] \in Int /\ f[b] >= 0
            /\ \A c \in ContractId : e[c] \in Int
        BY <1>6, <2>1, SupplyTerms
      <3>2. \A c \in ContractId : e[c] = s.locked[c].amount
        BY <2>1 DEF Escrowed
      <3>3. \A c \in ContractId : e[c] >= 0
        BY <1>6, <3>2
      <3> QED
        BY <3>1, <3>3
    <2>3. f[a] <= SumFunctionOnSet(f, Account) /\ SumFunctionOnSet(f, Account) \in Nat
      BY <2>2, SumBounds DEF FiniteNames
    <2>4. SumFunctionOnSet(e, ContractId) \in Nat
      BY <2>2, SumBounds DEF FiniteNames
    <2>5. TotalSupply(s) = SumFunctionOnSet(f, Account) + SumFunctionOnSet(e, ContractId)
      BY <2>1, SupplyTerms
    <2> QED
      BY <2>1, <2>2, <2>3, <2>4, <2>5
  <1>7. TotalSupply(t) \in {TotalSupply(s) + n, TotalSupply(s) + n - Width}
    BY <1>1, <1>2, <1>3, <1>4, <1>5
  <1>8. ASSUME \A b \in Account : s.balances[b] >= 0,
               \A c \in ContractId : s.locked[c].amount >= 0,
               TotalSupply(s) + n <= MaxInt64
        PROVE  /\ TotalSupply(t) = TotalSupply(s) + n
               /\ \A b \in Account : t.balances[b] >= 0
    <2>1. s.balances[a] + n <= MaxInt64 /\ s.balances[a] >= 0
      BY <1>1, <1>4, <1>6, <1>8, LedgerAssumption
    <2>2. t.balances[a] = s.balances[a] + n
      BY <1>2, <1>5, <2>1
    <2>3. \A b \in Account : t.balances[b] >= 0
      BY <1>1, <1>2, <1>8, <2>1, <2>2
    <2> QED
      BY <1>1, <1>3, <1>4, <2>2, <2>3
  <1> QED
    BY <1>1, <1>7, <1>8

\* Until 2^63 tokens are issued the total is exact.
SupplyExact ==
    Issued <= MaxInt64 =>
        /\ TotalSupply(state) = Issued
        /\ \A a \in Account : state.balances[a] >= 0

SupplyInv == SupplyConserved /\ SupplyExact

\* Nothing is in escrow at genesis.
LEMMA SupplyInit == FiniteNames /\ Init => SupplyInv
  <1> SUFFICES ASSUME FiniteNames, Init PROVE SupplyInv
    OBVIOUS
  <1>1. state \in State
    BY InitInv DEF IInv, TypeOK
  <1>2. /\ state.balances = Allocations /\ DOMAIN Allocations = Account
        /\ \A a \in Account : Allocations[a] \in Nat
        /\ minted = 0
    BY WorldStateAssumption DEF Init, NewState
  <1>3. SumFunctionOnSet(Escrowed(state), ContractId) = 0
    <2>1. PICK e : e = Escrowed(state)
      OBVIOUS
    <2>2. \A c \in ContractId : e[c] = 0
      BY <2>1 DEF Escrowed, Init, NewState, NoLock
    <2> QED
      BY <2>1, <2>2, SumZero DEF FiniteNames
  <1>4. /\ TotalSupply(state) = SumFunctionOnSet(Allocations, Account)
        /\ Issued = SumFunctionOnSet(Allocations, Account)
        /\ Issued \in Int
    BY <1>1, <1>2, <1>3, SupplyTerms DEF Issued, SumFunction
  <1>5. Width \in Nat \ {0} /\ 0 % Width = 0
    BY LedgerAssumption DEF Width
  <1>6. SupplyConserved
    BY <1>4, <1>5 DEF SupplyConserved, Width
  <1> QED
    BY <1>2, <1>4, <1>6 DEF SupplyInv, SupplyExact

\* What is issued is a number, and issuing more adds to it.
LEMMA IssuedType ==
    ASSUME FiniteNames, TypeOK
    PROVE  /\ Issued \in Int
           /\ \A n \in Nat : minted' = minted + n => Issued' = Issued + n
           /\ UNCHANGED minted => Issued' = Issued
  <1>1. DOMAIN Allocations = Account /\ \A a \in Account : Allocations[a] \in Int
    BY WorldStateAssumption
  <1>2. SumFunction(Allocations) \in Int
    BY <1>1, SumType DEF SumFunction, FiniteNames
  <1>3. PICK k \in Int : k = SumFunction(Allocations)
    BY <1>2
  <1>4. Issued = k + minted /\ Issued' = k + minted'
    BY <1>3 DEF Issued
  <1> QED
    BY <1>4 DEF TypeOK

\* A step moves what is held and what is issued by the same amount, but for
\* the width of int64 when a balance overflows.
LEMMA SupplyMoves ==
    ASSUME FiniteNames, TypeOK, TypeOK', SupplyInv, NEW n \in Nat,
           Issued' = Issued + n,
           TotalSupply(state') \in {TotalSupply(state) + n,
                                    TotalSupply(state) + n - Width},
           Issued' <= MaxInt64 =>
                /\ TotalSupply(state') = TotalSupply(state) + n
                /\ \A a \in Account : state'.balances[a] >= 0
    PROVE  SupplyInv'
  <1>1. state \in State
    BY DEF TypeOK
  <1>2. PICK i \in Int : i = Issued
    BY IssuedType
  <1>3. PICK u \in Int : u = TotalSupply(state)
    BY <1>1, SupplyTerms
  <1>4. PICK w \in Int : w = Width /\ w > 0
    BY LedgerAssumption DEF Width
  <1>5. PICK x \in Int : x = u - i /\ x % w = 0
    BY <1>2, <1>3, <1>4 DEF SupplyInv, SupplyConserved, Width
  <1>6. TotalSupply(state') - Issued' \in {x, x - w}
    BY <1>2, <1>3, <1>4, <1>5
  <1>7. (x - w) % w = x % w
    BY <1>4, ModShift
  <1>8. (TotalSupply(state') - Issued') % w = 0
    BY <1>5, <1>6, <1>7
  <1>9. SupplyConserved'
    BY <1>4, <1>8 DEF SupplyConserved, Width
  <1>10. SupplyExact'
    <2>1. Issued' <= MaxInt64 => Issued <= MaxInt64
      BY <1>2, LedgerAssumption
    <2> QED
      BY <1>2, <1>3, <2>1 DEF SupplyInv, SupplyExact
  <1> QED
    BY <1>9, <1>10 DEF SupplyInv

\* No escrow holds a negative amount.
LEMMA LockNotNegative ==
    ASSUME TypeOK, SettledIffEmpty, NEW c \in ContractId
    PROVE  state.locked[c].amount \in Int /\ state.locked[c].amount >= 0
  <1>1. state.locked[c] \in EscrowLock \cup {NoLock}
    BY DEF TypeOK, State
  <1>2. /\ state.locked[c].amount \in Int
        /\ state.locked[c].status \in {"LOCKED", "FROZEN", "RELEASED", "REFUNDED", "NONE"}
    BY <1>1 DEF EscrowLock, LockStatus, NoLock, Int64
  <1> QED
    BY <1>2 DEF SettledIffEmpty

\* A covered spend overdraws no balance.
LEMMA SpendNotNegative ==
    ASSUME NEW s \in State, NEW t, NEW a \in Account, NEW n \in Nat,
           Spends(s, t, a, n), n <= s.balances[a],
           NEW b \in Account, s.balances[b] >= 0
    PROVE  t.balances[b] >= 0
  <1>1. s.balances \in [Account -> Int]
    BY DEF State, Int64
  <1>2. t.balances = [s.balances EXCEPT ![a] = s.balances[a] - n]
    BY DEF Spends
  <1> QED
    BY <1>1, <1>2

\* Every step keeps the total.
LEMMA SupplyStep == FiniteNames /\ IInv /\ SupplyInv /\ [Next]_vars => SupplyInv'
  <1> SUFFICES ASSUME FiniteNames, IInv, SupplyInv, [Next]_vars PROVE SupplyInv'
    OBVIOUS
  <1>1. /\ TypeOK /\ TypeOK' /\ state \in State
        /\ TotalSupply(state) \in Int /\ Issued \in Int
    BY NextInv, SupplyTerms, IssuedType DEF IInv, TypeOK
  <1>2. \A c \in ContractId :
            state.locked[c].amount \in Int /\ state.locked[c].amount >= 0
    BY LockNotNegative DEF IInv
  <1>3. Issued <= MaxInt64 =>
            /\ TotalSupply(state) = Issued
            /\ \A a \in Account : state.balances[a] \in Int /\ state.balances[a] >= 0
    BY <1>1, SupplyTerms DEF SupplyInv, SupplyExact
  <1>4. ASSUME NEW to \in Account, NEW n \in Positive, MintStep(to, n)
        PROVE  SupplyInv'
    <2>1. Credited(state, state', to, n) /\ n \in Nat
      BY <1>1, <1>4, MintEffect DEF Positive
    <2>2. Issued' = Issued + n
      BY <1>1, <1>4, <2>1, IssuedType DEF MintStep
    <2>3. TotalSupply(state') \in {TotalSupply(state) + n,
                                   TotalSupply(state) + n - Width}
      BY <1>1, <2>1, CreditSupply
    <2>4. ASSUME Issued' <= MaxInt64
          PROVE  /\ TotalSupply(state') = TotalSupply(state) + n
                 /\ \A a \in Account : state'.balances[a] >= 0
      <3>1. Issued <= MaxInt64
        BY <1>1, <2>1, <2>2, <2>4, LedgerAssumption
      <3>2. TotalSupply(state) + n <= MaxInt64
        BY <1>3, <2>2, <2>4, <3>1
      <3> QED
        BY <1>1, <1>2, <1>3, <2>1, <3>1, <3>2, CreditSupply
    <2> QED
      BY <1>1, <2>1, <2>2, <2>3, <2>4, SupplyMoves
  <1>5. ASSUME UNCHANGED minted,
               TotalSupply(state') \in {TotalSupply(state), TotalSupply(state) - Width},
               Issued <= MaxInt64 =>
                    /\ TotalSupply(state') = TotalSupply(state)
                    /\ \A a \in Account : state'.balances[a] >= 0
        PROVE  SupplyInv'
    <2>1. PICK n \in Nat : n = 0
      OBVIOUS
    <2>2. Issued' = Issued /\ Issued' = Issued + n
      BY <1>1, <1>5, <2>1, IssuedType
    <2>3. /\ TotalSupply(state) + n = TotalSupply(state)
          /\ TotalSupply(state) + n - Width = TotalSupply(state) - Width
      BY <1>1, <2>1, LedgerAssumption DEF Width
    <2>4. TotalSupply(state') \in {TotalSupply(state) + n,
                                   TotalSupply(state) + n - Width}
      BY <1>5, <2>3
    <2>5. Issued' <= MaxInt64 =>
                /\ TotalSupply(state') = TotalSupply(state) + n
                /\ \A a \in Account : state'.balances[a] >= 0
      BY <1>5, <2>2, <2>3
    <2> QED
      BY <1>1, <2>2, <2>4, <2>5, SupplyMoves
  \* n leaves s, whose total is n short, for the balance of to.
  <1>6. ASSUME NEW s \in State, NEW to \in Account, NEW n \in Nat,
               Credited(s, state', to, n), UNCHANGED minted,
               TotalSupply(s) = TotalSupply(state) - n,
               \A c \in ContractId : s.locked[c].amount >= 0,
               Issued <= MaxInt64 => \A a \in Account : s.balances[a] >= 0
        PROVE  SupplyInv'
    <2>1. /\ TotalSupply(s) + n = TotalSupply(state)
          /\ TotalSupply(s) + n - Width = TotalSupply(state) - Width
      BY <1>1, <1>6, LedgerAssumption DEF Width
    <2>2. TotalSupply(state') \in {TotalSupply(state), TotalSupply(state) - Width}
      BY <1>6, <2>1, CreditSupply
    <2>3. ASSUME Issued <= MaxInt64
          PROVE  /\ TotalSupply(state') = TotalSupply(state)
                 /\ \A a \in Account : state'.balances[a] >= 0
      <3>1. TotalSupply(s) + n <= MaxInt64
        BY <1>3, <2>1, <2>3
      <3> QED
        BY <1>6, <2>1, <2>3, <3>1, CreditSupply
    <2> QED
      BY <1>5, <1>6, <2>2, <2>3
  <1>7. ASSUME NEW from \in Account, NEW to \in Account, NEW n \in Positive,
               TransferStep(from, to, n)
        PROVE  SupplyInv'
    <2>1. PICK s \in State : Spends(state, s, from, n) /\ Credited(s, state', to, n)
      BY <1>1, <1>7, TransferEffect
    <2>2. n \in Nat /\ TotalSupply(s) = TotalSupply(state) - n
      BY <1>1, <2>1, SpendSupply DEF Positive
    <2>3. \A c \in ContractId : s.locked[c].amount >= 0
      BY <1>2, <2>1 DEF Spends
    <2>4. ASSUME Issued <= MaxInt64, NEW a \in Account PROVE s.balances[a] >= 0
      BY <1>1, <1>3, <1>7, <2>1, <2>2, <2>4, SpendNotNegative DEF TransferStep
    <2> QED
      BY <1>6, <1>7, <2>1, <2>2, <2>3, <2>4 DEF TransferStep
  <1>8. ASSUME NEW from \in Account, NEW to \in Account, NEW n \in Positive,
               NEW c \in ContractId, LockStep(from, to, n, c)
        PROVE  SupplyInv'
    <2>1. PICK s \in State : /\ Spends(state, s, from, n)
                             /\ Relocked(s, state', c, Locking(from, to, n))
      BY <1>1, <1>8, LockEffect
    <2>2. n \in Nat /\ TotalSupply(s) = TotalSupply(state) - n
      BY <1>1, <2>1, SpendSupply DEF Positive
    <2>3. s.locked[c].amount = 0 /\ Locking(from, to, n).amount = n
      BY <1>8, <2>1 DEF Spends, LockStep, NoLock, Locking
    <2>4. TotalSupply(state') = TotalSupply(s) - 0 + n
      BY <2>1, <2>3, RelockSupply
    <2>5. TotalSupply(state') = TotalSupply(state)
      BY <1>1, <2>2, <2>4
    <2>6. ASSUME Issued <= MaxInt64, NEW a \in Account PROVE state'.balances[a] >= 0
      <3>1. s.balances[a] >= 0
        BY <1>1, <1>3, <1>8, <2>1, <2>2, <2>6, SpendNotNegative DEF LockStep
      <3> QED
        BY <2>1, <3>1 DEF Relocked
    <2> QED
      BY <1>5, <1>8, <2>5, <2>6 DEF LockStep
  <1>9. ASSUME NEW c \in ContractId, FreezeStep(c)
        PROVE  SupplyInv'
    <2>1. PICK lock : /\ lock = Reduced(state.locked[c], 0, "FROZEN")
                      /\ Relocked(state, state', c, lock)
      BY <1>1, <1>9, FreezeEffect DEF IInv
    <2>2. lock.amount = state.locked[c].amount
      BY <1>2, <2>1 DEF Reduced
    <2>3. TotalSupply(state') = TotalSupply(state)
      BY <1>1, <1>2, <2>1, <2>2, RelockSupply
    <2>4. state'.balances = state.balances /\ UNCHANGED minted
      BY <1>9, <2>1 DEF Relocked, FreezeStep
    <2> QED
      BY <1>3, <1>5, <2>3, <2>4
  <1>10. ASSUME NEW c \in ContractId, NEW to \in Account, NEW n \in Positive,
                NEW st \in LockStatus, PayOutStep(c, to, n, st)
         PROVE  SupplyInv'
    <2>1. PICK s, lock : /\ lock = Reduced(state.locked[c], n, st) /\ s \in State
                         /\ Relocked(state, s, c, lock)
                         /\ Credited(s, state', to, n)
      BY <1>1, <1>10, PayOutEffect
    <2>2. /\ n \in Nat /\ n <= state.locked[c].amount
          /\ lock.amount = state.locked[c].amount - n
      BY <1>2, <1>10, <2>1 DEF Reduced, PayOutStep, Positive
    <2>3. TotalSupply(s) = TotalSupply(state) - n
      <3>1. TotalSupply(s) = TotalSupply(state) - state.locked[c].amount + lock.amount
        BY <1>1, <2>1, RelockSupply
      <3> QED
        BY <1>1, <1>2, <2>2, <3>1
    <2>4. \A d \in ContractId : s.locked[d].amount >= 0
      <3>1. s.locked = [state.locked EXCEPT ![c] = lock]
            /\ DOMAIN state.locked = ContractId
        BY <1>1, <2>1 DEF Relocked, State
      <3>2. lock.amount >= 0
        BY <1>2, <2>2
      <3> QED
        BY <1>2, <3>1, <3>2
    <2>5. s.balances = state.balances
      BY <2>1 DEF Relocked
    <2> QED
      BY <1>3, <1>6, <1>10, <2>1, <2>2, <2>3, <2>4, <2>5 DEF PayOutStep
  <1>11. CASE UNCHANGED vars
    BY <1>3, <1>5, <1>11 DEF vars
  <1>12. CASE Next
    BY <1>4, <1>7, <1>8, <1>9, <1>10, <1>12, <1>1, NextSteps DEF IInv
  <1> QED
    BY <1>11, <1>12

\* Whatever transactions are committed, accounts and escrows hold what genesis
\* and MINT issued, modulo 2^64.
THEOREM SupplyIsConserved ==
    ASSUME FiniteNames
    PROVE  Spec => []SupplyConserved
  <1>1. FiniteNames
    OBVIOUS
  <1>2. SupplyInv => SupplyConserved
    BY DEF SupplyInv
  <1> QED
    BY <1>1, <1>2, SupplyInit, SupplyStep, Invariance, PTL DEF Spec

\* Until 2^63 tokens are issued no balance is ever negative: neither a spend
\* nor the overflow of a credit takes one below zero.
THEOREM NothingOverdrawn ==
    ASSUME FiniteNames
    PROVE  Spec => []NoOverdraft
  <1>1. FiniteNames
    OBVIOUS
  <1>2. SupplyInv => NoOverdraft
    BY DEF SupplyInv, SupplyExact, NoOverdraft
  <1> QED
    BY <1>1, <1>2, SupplyInit, SupplyStep, Invariance, PTL DEF Spec

-----------------------------------------------------------------------------
(* Refinement: the locks of the chain implement EscrowPromise. *)

PhaseMap == [c \in ContractId |-> Phase(state.locked[c].status)]
HeldMap == [c \in ContractId |-> state.locked[c].amount]

\* No escrow is funded at genesis.
LEMMA PromiseInit == Init => Promise!Init
  BY DEF Init, NewState, NoLock, Phase, Promise!Init

\* Writing one lock moves the mapped escrow of one contract.
LEMMA MapsStep ==
    ASSUME NEW c \in ContractId, NEW lock, TypeOK,
           state'.locked = [state.locked EXCEPT ![c] = lock]
    PROVE  /\ PhaseMap' = [PhaseMap EXCEPT ![c] = Phase(lock.status)]
           /\ HeldMap' = [HeldMap EXCEPT ![c] = lock.amount]
<1>1. /\ DOMAIN state.locked = ContractId
      /\ \A d \in ContractId :
            state'.locked[d] = IF d = c THEN lock ELSE state.locked[d]
  BY DEF TypeOK, State
<1>2. PhaseMap' = [d \in ContractId |->
                    Phase(IF d = c THEN lock.status ELSE state.locked[d].status)]
  BY <1>1 DEF PhaseMap
<1>3. HeldMap' = [d \in ContractId |->
                    IF d = c THEN lock.amount ELSE state.locked[d].amount]
  BY <1>1 DEF HeldMap
<1>. QED  BY <1>2, <1>3 DEF PhaseMap, HeldMap

\* Every step maps to a step of EscrowPromise or to a stutter.
LEMMA PromiseStep == IInv /\ [Next]_vars => [Promise!Next]_(Promise!promiseVars)
<1>. SUFFICES ASSUME IInv, [Next]_vars
              PROVE  [Promise!Next]_(Promise!promiseVars)
  OBVIOUS
<1>. USE DEF IInv
<1>. DEFINE Stutter == /\ PhaseMap' = PhaseMap /\ HeldMap' = HeldMap
                       /\ paid' = paid
<1>1. Stutter => UNCHANGED Promise!promiseVars
  BY DEF Promise!promiseVars, PhaseMap, HeldMap
<1>2. ASSUME UNCHANGED <<paid>>, state'.locked = state.locked
      PROVE  Stutter
  BY <1>2 DEF PhaseMap, HeldMap
<1>3. ASSUME NEW to \in Account, NEW n \in Positive, MintStep(to, n)
      PROVE  Stutter
  BY <1>2, <1>3, MintEffect DEF MintStep, Credited
<1>4. ASSUME NEW from \in Account, NEW to \in Account, NEW n \in Positive,
             TransferStep(from, to, n)
      PROVE  Stutter
  <2>1. state'.locked = state.locked
    BY <1>4, TransferEffect DEF Spends, Credited
  <2>. QED  BY <1>2, <1>4, <2>1 DEF TransferStep
<1>5. ASSUME NEW from \in Account, NEW to \in Account, NEW n \in Positive,
             NEW c \in ContractId, LockStep(from, to, n, c)
      PROVE  Promise!Fund(c)
  <2>. DEFINE new == Locking(from, to, n)
  <2>1. PICK s \in State : Spends(state, s, from, n) /\ Relocked(s, state', c, new)
    BY <1>5, LockEffect
  <2>2. state'.locked = [state.locked EXCEPT ![c] = new]
    BY <2>1 DEF Spends, Relocked
  <2>3. new.amount = n /\ Phase(new.status) = "OPEN"
    BY DEF Locking, Phase
  <2>4. Phase(state.locked[c].status) = "NONE"
    BY <1>5 DEF LockStep, NoLock, Phase
  <2>5. n \in {m \in Amounts : m > 0} /\ UNCHANGED paid
    BY <1>5 DEF LockStep, Positive
  <2>. HIDE DEF new
  <2>6. /\ PhaseMap' = [PhaseMap EXCEPT ![c] = "OPEN"]
        /\ HeldMap' = [HeldMap EXCEPT ![c] = n]
    BY <2>2, <2>3, MapsStep
  <2>. QED  BY <2>4, <2>5, <2>6 DEF Promise!Fund, PhaseMap, HeldMap
<1>6. ASSUME NEW c \in ContractId, FreezeStep(c)
      PROVE  Promise!Freeze(c)
  <2>. DEFINE new == Reduced(state.locked[c], 0, "FROZEN")
  <2>1. Relocked(state, state', c, new) /\ state.locked[c] \in EscrowLock
    BY <1>6, FreezeEffect
  <2>2. new.amount = state.locked[c].amount /\ Phase(new.status) = "FROZEN"
    BY <2>1 DEF Reduced, Phase, EscrowLock, Int64
  <2>3. Phase(state.locked[c].status) = "OPEN" /\ UNCHANGED paid
    BY <1>6 DEF FreezeStep, Phase
  <2>. HIDE DEF new
  <2>4. /\ PhaseMap' = [PhaseMap EXCEPT ![c] = "FROZEN"]
        /\ HeldMap' = [HeldMap EXCEPT ![c] = state.locked[c].amount]
    BY <2>1, <2>2, MapsStep DEF Relocked
  <2>5. HeldMap' = HeldMap
    BY <2>4 DEF HeldMap
  <2>. QED  BY <2>3, <2>4, <2>5 DEF Promise!Freeze, PhaseMap, HeldMap
<1>7. ASSUME NEW c \in ContractId, NEW to \in Account, NEW n \in Positive,
             NEW st \in LockStatus, PayOutStep(c, to, n, st)
      PROVE  Promise!Release(c) \/ Promise!Rule(c)
  <2>. DEFINE old == state.locked[c]
              new == Reduced(old, n, st)
  <2>1. PICK s \in State : Relocked(state, s, c, new) /\ Credited(s, state', to, n)
    BY <1>7, PayOutEffect
  <2>2. old \in EscrowLock /\ n \in 0 .. old.amount
    BY <1>7, PayOutEffect
  <2>3. new.amount = old.amount - n /\ new.status = st
    BY <2>2, ReducedLock
  <2>4. /\ n \in 1 .. old.amount /\ paid' = [paid EXCEPT ![c] = paid[c] + n]
        /\ old.status \in {"LOCKED", "FROZEN"}
        /\ st \in IF n = old.amount THEN {"RELEASED", "REFUNDED"} ELSE {"LOCKED"}
    BY <1>7 DEF PayOutStep
  <2>5. Phase(old.status) \in {"OPEN", "FROZEN"}
    BY <2>4 DEF Phase
  <2>6. Phase(st) = IF n = old.amount THEN "CLOSED" ELSE "OPEN"
    BY <2>4 DEF Phase
  <2>. HIDE DEF new
  <2>7. state'.locked = [state.locked EXCEPT ![c] = new]
    BY <2>1 DEF Relocked, Credited
  <2>8. /\ PhaseMap' = [PhaseMap EXCEPT ![c] = Phase(st)]
        /\ HeldMap' = [HeldMap EXCEPT ![c] = old.amount - n]
    BY <2>3, <2>7, MapsStep
  <2>9. PhaseMap[c] = Phase(old.status) /\ HeldMap[c] = old.amount
    BY DEF PhaseMap, HeldMap
  <2>10. Promise!Pay(c, n)
    BY <2>4, <2>6, <2>8, <2>9 DEF Promise!Pay, PhaseMap, HeldMap
  <2>. QED  BY <2>4, <2>5, <2>10 DEF Promise!Release, Promise!Rule
<1>8. CASE Next
  BY <1>1, <1>3, <1>4, <1>5, <1>6, <1>7, <1>8, NextSteps DEF Promise!Next
<1>9. CASE UNCHANGED vars
  BY <1>1, <1>2, <1>9 DEF vars
<1>. QED  BY <1>8, <1>9

\* Whatever transactions are committed, in whatever order, each contract's
\* escrow behaves as EscrowPromise says.
THEOREM EscrowKeepsPromise == Spec => KeepsPromise
  BY PromiseInit, PromiseStep, Invariance, PTL DEF Spec, KeepsPromise, Promise!Spec
=============================================================================

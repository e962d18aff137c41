--------------------------- MODULE EscrowApiProofs ---------------------------
(***************************************************************************)
(* Theorems about EscrowApi, for every set of accounts, contracts, offers  *)
(* and milestone ids, any number of handlers at once, and any number of    *)
(* crashes and failed saves.                                               *)
(***************************************************************************)
EXTENDS EscrowApi, LedgerProofs, SumTheorems

-----------------------------------------------------------------------------
(* Milestones *)

\* The loop that adds up amounts.
Adding == INSTANCE FoldTheorems WITH Op <- LAMBDA m, n : m + n

\* A sum of int64 amounts is an int64.
LEMMA SumTyped ==
    ASSUME NEW amounts \in Seq(Int)
    PROVE  Int64Sum(amounts) \in Int64
  <1> DEFINE half == MaxInt64 + 1
             sum == Adding!Fold(0, amounts)
  <1>1. sum \in Int
    <2>1. 0 \in Int /\ \A m \in Int, n \in Int : m + n \in Int
      OBVIOUS
    <2> QED
      BY <2>1, Adding!FoldType, Zenon
  <1>2. half \in Nat \ {0}
    BY LedgerAssumption
  <1>3. Int64Sum(amounts) = ((sum + half) % (2 * half)) - half
    BY DEF Int64Sum, Adding!Fold, FoldLeft, Adding!FoldLeft, MapThenFoldSet,
           Adding!MapThenFoldSet, Max, Adding!Max
  <1> HIDE DEF sum
  <1>4. PICK d \in Nat \ {0} : d = 2 * half
    BY <1>2
  <1>5. PICK x \in Int : x = sum + half
    BY <1>1, <1>2
  <1>6. x % d \in 0 .. d - 1
    OBVIOUS
  <1>7. PICK y \in Int : y = x % d /\ 0 <= y /\ y <= d - 1
    BY <1>6
  <1>8. Int64Sum(amounts) = y - half
    BY <1>3, <1>4, <1>5, <1>7
  <1>9. PICK z : z = y - half
    OBVIOUS
  <1>10. MaxInt64 \in Nat
    BY LedgerAssumption
  <1>11. z \in -(MaxInt64 + 1) .. MaxInt64
    BY <1>4, <1>7, <1>9, <1>10
  <1> QED
    BY <1>8, <1>9, <1>11 DEF Int64

\* So is what the milestones of a contract leave open.
LEMMA RemainingTyped ==
    ASSUME NEW deal \in Contract
    PROVE  RemainingAmount(deal.milestones) \in Int64
  <1>1. deal.milestones \in Seq(Milestone)
    BY DEF Contract
  <1>2. PICK ms \in Seq(Milestone) : ms = deal.milestones
    BY <1>1
  <1> DEFINE open == [i \in DOMAIN ms |-> IF ms[i].status = "APPROVED" THEN 0
                                         ELSE ms[i].amount]
  <1>3. ASSUME NEW i \in DOMAIN ms PROVE ms[i].amount \in Int
    <2>1. ms[i] \in Milestone
      OBVIOUS
    <2> QED
      BY <2>1, LedgerAssumption DEF Milestone, Int64
  <1>4. open \in Seq(Int)
    <2>1. PICK n \in Nat : n = Len(ms) /\ DOMAIN ms = 1 .. n
      OBVIOUS
    <2>2. open \in [1 .. n -> Int]
      BY <1>3, <2>1
    <2> HIDE DEF open
    <2> QED
      BY <2>2
  <1>5. RemainingAmount(ms) = Int64Sum(open)
    BY DEF RemainingAmount
  <1> HIDE DEF open
  <1> QED
    BY <1>2, <1>4, <1>5, SumTyped

\* findMilestone finds the first milestone with an id, if there is one.
LEMMA FindProps ==
    ASSUME NEW deal, NEW n \in Nat, Len(deal.milestones) = n, NEW id
    PROVE  /\ findMilestone(deal, id) \in 0 .. n
           /\ findMilestone(deal, id) # 0 =>
                deal.milestones[findMilestone(deal, id)].id = id
  <1> DEFINE I == {i \in 1 .. Len(deal.milestones) : deal.milestones[i].id = id}
  <1>1. findMilestone(deal, id) = IF I # {} THEN Min(I) ELSE 0
    BY Zenon DEF findMilestone, SelectInSeq
  <1>2. CASE I = {}
    BY <1>1, <1>2
  <1>3. CASE I # {}
    <2>1. \E i \in I : \A j \in I : i <= j
      <3>1. I \subseteq Nat
        OBVIOUS
      <3> HIDE DEF I
      <3> QED
        BY <1>3, <3>1, Adding!LeastNumber
    <2>2. Min(I) \in I
      BY <2>1 DEF Min
    <2> QED
      BY <1>1, <1>3, <2>2
  <1> QED
    BY <1>2, <1>3

\* Contracts with the same ids at the same places find the same milestones.
LEMMA FindSame ==
    ASSUME NEW d, NEW e, Len(d.milestones) = Len(e.milestones),
           \A i \in 1 .. Len(d.milestones) : d.milestones[i].id = e.milestones[i].id,
           NEW id
    PROVE  findMilestone(d, id) = findMilestone(e, id)
  <1>1. {i \in 1 .. Len(d.milestones) : d.milestones[i].id = id}
            = {i \in 1 .. Len(e.milestones) : e.milestones[i].id = id}
    OBVIOUS
  <1> QED
    BY <1>1 DEF findMilestone, SelectInSeq

\* The shape of the milestones of a contract.
LEMMA Milestones ==
    ASSUME NEW deal \in Contract
    PROVE  /\ deal.milestones \in Seq(Milestone)
           /\ DOMAIN deal.milestones = 1 .. Len(deal.milestones)
           /\ Len(deal.milestones) \in Nat
           /\ \A i \in DOMAIN deal.milestones : deal.milestones[i] \in Milestone
  <1>1. deal.milestones \in Seq(Milestone)
    BY DEF Contract
  <1> QED
    BY <1>1

\* e is deal with a status of one milestone changed.
Marked(deal, e, id, status) ==
    /\ e \in Contract /\ e.state = deal.state
    /\ Len(e.milestones) = Len(deal.milestones)
    /\ \A i \in DOMAIN deal.milestones :
        /\ e.milestones[i].id = deal.milestones[i].id
        /\ e.milestones[i].status = IF i = findMilestone(deal, id) THEN status
                                    ELSE deal.milestones[i].status

\* Setting a status touches the milestone that was asked for, or none.
LEMMA SetStatusMarks ==
    ASSUME NEW deal \in Contract, NEW id, NEW status \in MilestoneStatus
    PROVE  Marked(deal, SetStatus(deal, id, status), id, status)
  <1> DEFINE i == findMilestone(deal, id)
             ms == deal.milestones
             e == SetStatus(deal, id, status)
  <1>1. /\ ms \in Seq(Milestone) /\ DOMAIN ms = 1 .. Len(ms) /\ Len(ms) \in Nat
        /\ i \in 0 .. Len(ms)
    BY Milestones, FindProps
  <1>2. CASE i = 0
    <2>1. e = deal
      BY <1>2 DEF SetStatus
    <2> QED
      BY <1>1, <1>2, <2>1 DEF Marked
  <1>3. CASE i # 0
    <2> DEFINE ns == [ms EXCEPT ![i] = [ms[i] EXCEPT !.status = status]]
    <2>1. e = [deal EXCEPT !.milestones = ns]
      BY <1>3 DEF SetStatus
    <2>2. i \in 1 .. Len(ms) /\ ms[i] \in Milestone
      BY <1>1, <1>3
    <2>3. [ms[i] EXCEPT !.status = status] \in Milestone
      BY <2>2 DEF Milestone
    <2>4. ns \in Seq(Milestone) /\ Len(ns) = Len(ms)
      BY <1>1, <2>2, <2>3
    <2>5. \A j \in 1 .. Len(ms) :
            ns[j].id = ms[j].id /\ ns[j].status = IF j = i THEN status ELSE ms[j].status
      BY <1>1, <2>2 DEF Milestone
    <2>6. e \in Contract /\ e.milestones = ns /\ e.state = deal.state
      BY <2>1, <2>4 DEF Contract
    <2> QED
      BY <1>1, <2>4, <2>5, <2>6 DEF Marked
  <1> QED
    BY <1>2, <1>3

-----------------------------------------------------------------------------
(* The inductive invariant *)

\* Where a handler at work is, and the fields of its record.
Steps == {"submit", "resolve", "check", "write", "put", "marshal", "persist"}

HandlerFields == {"pc", "op", "contract", "obj", "milestone", "targets", "mark",
                  "terminate", "tx", "copy"}

\* The transactions that the handlers of the escrow wallet sign.
Paying == [release |-> "RELEASE_MILESTONE", arbitrate |-> "ARBITRATE",
           refund |-> "REFUND"]

\* submitTx has accepted a transaction of this type for a milestone.
Accepted(type, c, id) ==
    \E a \in admitted : a.type = type /\ a.contract = c /\ a.milestone = id

\* What a handler has established at its program counter; r is its record.
HandlerOK(r) ==
    /\ DOMAIN r = HandlerFields
    /\ r.pc \in Steps \cup {"idle"}
    /\ r.obj \in 0 .. Len(heap)
    /\ r.mark \in {"none", "SUBMITTED", "DISPUTED"}
    /\ IF r.pc = "idle" THEN r.obj = 0 ELSE r.obj # 0 /\ r.contract \in ContractId
    /\ r.pc \in {"check", "write"} =>
        r.targets \in Seq(ContractState) /\ r.targets # <<>>
    /\ r.pc = "submit" =>
        /\ r.op \in DOMAIN Paying
        /\ r.tx \in EscrowTx
        /\ r.tx.type = Paying[r.op] /\ r.tx.contract = r.contract
    /\ r.pc = "resolve" =>
        r.op \in DOMAIN Paying /\ Accepted(Paying[r.op], r.contract, r.milestone)
    /\ r.pc = "persist" => r.copy \in Contract /\ Backed(r.contract, r.copy)

\* Every variable has its type.
Typed ==
    /\ heap \in Seq(Contract)
    /\ registry \in [ContractId -> 0 .. Len(heap)]
    /\ th = [t \in Handlers |-> th[t]]
    /\ state \in SoundState
    /\ posted \subseteq EscrowTx
    /\ ops \in Nat

\* What every handler has established at its program counter.
HandlersOK == \A t \in Handlers : HandlerOK(th[t])

\* What the store holds is backed, too, and only some ids were ever saved.
SavedOK ==
    /\ saved \in [ContractId -> Contract \cup {Unsaved}]
    /\ IsFiniteSet({c \in ContractId : saved[c] # Unsaved})
    /\ \A c \in ContractId : saved[c] # Unsaved => Backed(c, saved[c])

\* Every object belongs to one contract id, whichever handlers and map entries
\* still name it, and what it has approved is backed for that id.  Two creates
\* of one id make two objects with one owner.
OwnedBy(owner) ==
    /\ owner \in [1 .. Len(heap) -> ContractId]
    /\ \A c \in ContractId : registry[c] # 0 => owner[registry[c]] = c
    /\ \A t \in Handlers : th[t].obj # 0 => owner[th[t].obj] = th[t].contract
    /\ \A o \in 1 .. Len(heap) : Backed(owner[o], heap[o])

\* Every object belongs to one contract id.
Owned == \E owner \in [1 .. Len(heap) -> ContractId] : OwnedBy(owner)

\* The inductive invariant, for any handlers and crashes.
IInv == Typed /\ HandlersOK /\ SavedOK /\ Owned

-----------------------------------------------------------------------------
(* What is accepted stays accepted *)

\* What was backed stays backed while admitted only grows.
LEMMA StillBacked ==
    ASSUME NEW c, NEW deal, Backed(c, deal), admitted \subseteq admitted'
    PROVE  Backed(c, deal)'
  BY DEF Backed

\* A handler that does not move stays as it was while objects are only added.
LEMMA StillOK ==
    ASSUME NEW r, HandlerOK(r), Len(heap) \in Nat, Len(heap') \in Nat,
           Len(heap) <= Len(heap'), admitted \subseteq admitted'
    PROVE  HandlerOK(r)'
  <1>1. Accepted(Paying[r.op], r.contract, r.milestone)
            => Accepted(Paying[r.op], r.contract, r.milestone)'
    BY DEF Accepted
  <1>2. r.obj \in 0 .. Len(heap')
    BY DEF HandlerOK
  <1>3. Backed(r.contract, r.copy) => Backed(r.contract, r.copy)'
    BY StillBacked
  <1> QED
    BY <1>1, <1>2, <1>3 DEF HandlerOK

\* A contract that was just created has nothing approved.
LEMMA NewBacked ==
    ASSUME NEW c, NEW offer \in Offers
    PROVE  NewContract(offer) \in Contract /\ Backed(c, NewContract(offer))
  <1>1. /\ offer.investor \in Addr /\ offer.founder \in Addr
        /\ offer.milestones \in Seq([id: MilestoneId, amount: Int64])
    BY EscrowApiAssumption
  <1>2. PICK os \in Seq([id: MilestoneId, amount: Int64]) : os = offer.milestones
    BY <1>1
  <1>3. PICK n \in Nat : n = Len(os) /\ DOMAIN os = 1 .. n
    OBVIOUS
  <1>4. ASSUME NEW i \in 1 .. n
        PROVE  os[i].id \in MilestoneId /\ os[i].amount \in Int64
    <2> DEFINE Items == [id: MilestoneId, amount: Int64]
    <2>1. os \in Seq(Items)
      OBVIOUS
    <2> HIDE DEF Items
    <2>2. os[i] \in Items
      BY <1>3, <2>1
    <2> QED
      BY <2>2 DEF Items
  <1> DEFINE ms == [i \in DOMAIN os |->
                [id |-> os[i].id, amount |-> os[i].amount, status |-> "PENDING"]]
             amounts == [i \in DOMAIN os |-> os[i].amount]
  <1>5. ms \in [1 .. n -> Milestone] /\ \A i \in DOMAIN ms : ms[i].status = "PENDING"
    BY <1>3, <1>4 DEF Milestone, MilestoneStatus
  <1>6. amounts \in [1 .. n -> Int]
    BY <1>3, <1>4, LedgerAssumption DEF Int64
  <1>7. TotalAmount(offer.milestones) = Int64Sum(amounts)
    BY <1>2 DEF TotalAmount, Amounts
  <1>8. NewContract(offer) = [investor |-> offer.investor, founder |-> offer.founder,
            total |-> TotalAmount(offer.milestones), state |-> "DRAFT",
            milestones |-> ms]
    BY <1>2 DEF NewContract
  <1> HIDE DEF ms, amounts
  <1>9. ms \in Seq(Milestone) /\ amounts \in Seq(Int)
    BY <1>5, <1>6
  <1>10. TotalAmount(offer.milestones) \in Int64
    BY <1>7, <1>9, SumTyped
  <1>11. "DRAFT" \in ContractState
    BY DEF ContractState, validTransitions
  <1>12. NewContract(offer) \in Contract
    BY <1>1, <1>8, <1>9, <1>10, <1>11 DEF Contract
  <1>13. Backed(c, NewContract(offer))
    BY <1>5, <1>8 DEF Backed
  <1> QED
    BY <1>12, <1>13

\* A status that is set keeps a contract backed, unless it approves a
\* milestone that nothing was accepted for.
LEMMA MarkBacked ==
    ASSUME NEW c, NEW deal \in Contract, Backed(c, deal), NEW id,
           NEW status \in MilestoneStatus,
           status = "APPROVED" => \E type \in {"RELEASE_MILESTONE", "ARBITRATE"} :
                                    Accepted(type, c, id)
    PROVE  /\ SetStatus(deal, id, status) \in Contract
           /\ Backed(c, SetStatus(deal, id, status))
  <1> DEFINE e == SetStatus(deal, id, status)
             k == findMilestone(deal, id)
  <1>1. Marked(deal, e, id, status)
    BY SetStatusMarks
  <1>2. /\ DOMAIN deal.milestones = 1 .. Len(deal.milestones)
        /\ DOMAIN e.milestones = DOMAIN deal.milestones
        /\ k # 0 => deal.milestones[k].id = id
    BY <1>1, Milestones, FindProps DEF Marked
  <1>3. 0 \notin DOMAIN deal.milestones
    BY <1>2
  <1> HIDE DEF e, k
  <1>4. ASSUME NEW i \in DOMAIN e.milestones, e.milestones[i].status = "APPROVED"
        PROVE  \E a \in admitted :
                /\ a.type \in {"RELEASE_MILESTONE", "ARBITRATE"}
                /\ a.contract = c /\ a.milestone = e.milestones[i].id
    <2>1. CASE i = k
      <3>1. status = "APPROVED" /\ e.milestones[i].id = id
        BY <1>1, <1>2, <1>3, <1>4, <2>1 DEF Marked, k
      <3> QED
        BY <3>1 DEF Accepted
    <2>2. CASE i # k
      <3>1. deal.milestones[i].status = "APPROVED" /\ e.milestones[i].id = deal.milestones[i].id
        BY <1>1, <1>2, <1>4, <2>2 DEF Marked, k
      <3> QED
        BY <1>2, <3>1 DEF Backed
    <2> QED
      BY <2>1, <2>2
  <1>5. e \in Contract
    BY <1>1 DEF Marked
  <1> QED
    BY <1>4, <1>5 DEF Backed, e

-----------------------------------------------------------------------------
(* Steps of one handler *)

\* The parts of the invariant, for one handler.
LEMMA HandlerProps ==
    ASSUME IInv, NEW t \in Handlers
    PROVE  /\ HandlerOK(th[t])
           /\ Len(heap) \in Nat /\ DOMAIN heap = 1 .. Len(heap)
           /\ \A o \in 1 .. Len(heap) : heap[o] \in Contract
           /\ th[t].pc # "idle" =>
                th[t].obj \in 1 .. Len(heap) /\ Held(t) \in Contract
                /\ Backed(th[t].contract, Held(t))
  <1>1. HandlerOK(th[t]) /\ heap \in Seq(Contract)
    BY DEF IInv, HandlersOK, Typed
  <1>2. Len(heap) \in Nat /\ DOMAIN heap = 1 .. Len(heap)
        /\ \A o \in 1 .. Len(heap) : heap[o] \in Contract
    BY <1>1
  <1>3. th[t].pc # "idle" => th[t].obj \in 1 .. Len(heap)
    BY <1>1, <1>2 DEF HandlerOK
  <1>4. PICK owner : OwnedBy(owner)
    BY DEF IInv, Owned
  <1>5. th[t].pc # "idle" => Backed(th[t].contract, Held(t))
    BY <1>3, <1>4, <1>2 DEF OwnedBy, Held
  <1> QED
    BY <1>1, <1>2, <1>3, <1>5 DEF Held

\* What a step of handler t may do: it becomes r, which names the object it
\* held or one that the map names for its contract; it may change the object
\* it holds, to one that is backed, and enter it in the map; submitTx may
\* accept a transaction, and the store may take a contract.
LEMMA StepInv ==
    ASSUME NEW t \in Handlers, NEW r, IInv,
           th' = [th EXCEPT ![t] = r], HandlerOK(r)',
           heap' \in Seq(Contract), Len(heap') = Len(heap),
           \A o \in 1 .. Len(heap) :
                heap'[o] = heap[o] \/ (o = th[t].obj /\ Backed(th[t].contract, heap'[o])),
           \/ UNCHANGED registry
           \/ /\ registry' = [registry EXCEPT ![th[t].contract] = th[t].obj]
              /\ th[t].obj # 0,
           SavedOK', UNCHANGED state, posted' \subseteq EscrowTx,
           admitted \subseteq admitted', ops' \in Nat,
           \/ r.obj = 0
           \/ r.obj = th[t].obj /\ r.contract = th[t].contract
           \/ r.contract \in ContractId /\ r.obj = registry[r.contract]
    PROVE  IInv'
  <1>1. Typed /\ HandlersOK /\ HandlerOK(th[t]) /\ Len(heap) \in Nat
    BY HandlerProps DEF IInv
  <1>2. th' = [u \in Handlers |-> th'[u]] /\ th'[t] = r
        /\ \A u \in Handlers : u # t => th'[u] = th[u]
    BY <1>1 DEF Typed
  <1>3. HandlersOK'
    <2>1. ASSUME NEW u \in Handlers PROVE HandlerOK(th[u])'
      <3>1. CASE u = t
        BY <1>2, <3>1 DEF HandlerOK
      <3>2. CASE u # t
        <4>1. HandlerOK(th[u]) /\ th'[u] = th[u]
          BY <1>1, <1>2, <3>2 DEF HandlersOK
        <4> QED
          BY <1>1, <4>1 DEF HandlerOK, Accepted, Backed
      <3> QED
        BY <3>1, <3>2
    <2> QED
      BY <2>1 DEF HandlersOK
  <1>4. registry' \in [ContractId -> 0 .. Len(heap')]
    BY <1>1 DEF Typed, HandlerOK
  <1>5. Typed'
    BY <1>1, <1>2, <1>4 DEF Typed
  <1>6. PICK owner \in [1 .. Len(heap) -> ContractId] : OwnedBy(owner)
    BY DEF IInv, Owned
  <1>7. \A c \in ContractId : registry'[c] # 0 => owner[registry'[c]] = c
    BY <1>1, <1>6 DEF OwnedBy, Typed
  <1>8. \A u \in Handlers : th'[u].obj # 0 => owner[th'[u].obj] = th'[u].contract
    BY <1>2, <1>6 DEF OwnedBy
  <1>9. ASSUME NEW o \in 1 .. Len(heap) PROVE Backed(owner[o], heap[o])'
    <2>1. CASE heap'[o] = heap[o]
      BY <1>6, <2>1 DEF OwnedBy, Backed
    <2>2. CASE o = th[t].obj /\ Backed(th[t].contract, heap'[o])
      <3>1. o # 0 /\ owner[o] = th[t].contract
        BY <1>1, <1>6, <2>2 DEF OwnedBy
      <3> QED
        BY <2>2, <3>1 DEF Backed
    <2> QED
      BY <2>1, <2>2
  <1>10. OwnedBy(owner)'
    BY <1>6, <1>7, <1>8, <1>9 DEF OwnedBy
  <1> QED
    BY <1>3, <1>5, <1>6, <1>10 DEF IInv, Owned

\* A step that leaves the store alone.
LEMMA SavedKept ==
    ASSUME IInv, UNCHANGED saved, admitted \subseteq admitted'
    PROVE  SavedOK'
  <1>1. SavedOK
    BY DEF IInv
  <1>2. \A c \in ContractId : saved[c] # Unsaved => Backed(c, saved[c])'
    BY <1>1, StillBacked DEF SavedOK
  <1> QED
    BY <1>1, <1>2 DEF SavedOK

\* A step of a handler on its own record only.
LEMMA LocalStep ==
    ASSUME NEW t \in Handlers, NEW r, IInv,
           th' = [th EXCEPT ![t] = r], HandlerOK(r),
           UNCHANGED <<heap, registry, saved, state, posted, admitted>>, ops' \in Nat,
           \/ r.obj = 0
           \/ r.obj = th[t].obj /\ r.contract = th[t].contract
           \/ r.contract \in ContractId /\ r.obj = registry[r.contract]
    PROVE  IInv'
  <1>1. heap \in Seq(Contract) /\ posted \subseteq EscrowTx
    BY DEF IInv, Typed
  <1>2. HandlerOK(r)'
    BY DEF HandlerOK, Accepted, Backed
  <1>3. SavedOK'
    BY SavedKept
  <1> QED
    BY <1>1, <1>2, <1>3, StepInv

\* A handler ends; the store may have taken a contract from it.
LEMMA IdleSave ==
    ASSUME NEW t \in Handlers, IInv, th' = [th EXCEPT ![t] = Idle], SavedOK',
           UNCHANGED <<heap, registry, state, posted, admitted, ops>>
    PROVE  IInv'
  <1>1. /\ heap \in Seq(Contract) /\ Len(heap) \in Nat /\ posted \subseteq EscrowTx
        /\ ops' \in Nat
    BY DEF IInv, Typed
  <1>2. HandlerOK(Idle)' /\ Idle.obj = 0
    BY <1>1 DEF HandlerOK, Idle, HandlerFields, Steps
  <1> QED
    BY <1>1, <1>2, StepInv

\* A handler ends without a change.
LEMMA IdleStep ==
    ASSUME NEW t \in Handlers, IInv, th' = [th EXCEPT ![t] = Idle],
           UNCHANGED <<heap, registry, saved, state, posted, admitted, ops>>
    PROVE  IInv'
  BY IdleSave, SavedKept

-----------------------------------------------------------------------------
(* Requests *)

\* The contract a request gets from the map.
LEMMA DealProps ==
    ASSUME IInv, NEW c \in ContractId, registry[c] # 0
    PROVE  /\ registry[c] \in 1 .. Len(heap) /\ Len(heap) \in Nat
           /\ heap[registry[c]] \in Contract /\ Backed(c, heap[registry[c]])
  <1>1. heap \in Seq(Contract) /\ registry \in [ContractId -> 0 .. Len(heap)]
    BY DEF IInv, Typed
  <1>2. registry[c] \in 1 .. Len(heap) /\ Len(heap) \in Nat
    BY <1>1
  <1>3. PICK owner : OwnedBy(owner)
    BY DEF IInv, Owned
  <1> QED
    BY <1>1, <1>2, <1>3 DEF OwnedBy

\* The tables know only the states of the lifecycle.
LEMMA TransitionKnown ==
    ASSUME NEW from \in ContractState, NEW to, Transition(from, to)
    PROVE  to \in ContractState
  BY DEF Transition, validTransitions, ContractState

\* A request that changes the contract without a transaction.
LEMMA ServeInv ==
    ASSUME IInv, NEW t \in Handlers, NEW c \in ContractId, registry[c] # 0,
           NEW op, NEW id, NEW targets \in Seq(ContractState), targets # <<>>,
           NEW mark \in {"none", "SUBMITTED", "DISPUTED"},
           Serve(t, op, c, id, "write", targets, mark),
           UNCHANGED <<heap, registry, saved, state, posted, admitted, ops>>
    PROVE  IInv'
  <1> DEFINE r == [Idle EXCEPT !.pc = "write", !.op = op, !.contract = c,
                    !.obj = registry[c], !.milestone = id, !.targets = targets,
                    !.mark = mark]
  <1>1. /\ DOMAIN r = HandlerFields /\ r.pc = "write" /\ r.contract = c
        /\ r.obj = registry[c] /\ r.targets = targets /\ r.mark = mark
    BY DEF Idle, HandlerFields
  <1>2. th' = [th EXCEPT ![t] = r] /\ ops' \in Nat
    BY DEF Serve, IInv, Typed
  <1> HIDE DEF r
  <1>3. HandlerOK(r)
    <2>1. registry[c] \in 1 .. Len(heap)
      BY DealProps
    <2> QED
      BY <1>1, <2>1 DEF HandlerOK, Steps
  <1> QED
    BY <1>1, <1>2, <1>3, LocalStep

\* An advance request is only served for a state that exists.
LEMMA AdvanceContractInv ==
    ASSUME IInv, NEW t \in Handlers, AdvanceContract(t)
    PROVE  IInv'
  <1>1. PICK c \in ContractId, to \in AdvanceTargets :
            /\ Ready(t, c) /\ Transition(heap[registry[c]].state, to)
            /\ Serve(t, "advance", c, "none", "write", <<to>>, "none")
            /\ UNCHANGED <<heap, registry, saved, state, posted, admitted, ops>>
    BY DEF AdvanceContract
  <1>2. registry[c] # 0 /\ heap[registry[c]].state \in ContractState
    BY <1>1, DealProps DEF Ready, Contract
  <1>3. to \in ContractState
    BY <1>1, <1>2, TransitionKnown
  <1>4. <<to>> \in Seq(ContractState) /\ <<to>> # <<>>
    BY <1>3
  <1> QED
    BY <1>1, <1>2, <1>4, ServeInv

\* A confirmation has two known states ahead of it.
LEMMA ConfirmFundedInv ==
    ASSUME IInv, NEW t \in Handlers, ConfirmFunded(t)
    PROVE  IInv'
  <1>1. PICK c \in ContractId :
            /\ registry[c] # 0
            /\ Serve(t, "confirm", c, "none", "write", <<"FUNDED", "IN_PROGRESS">>, "none")
            /\ UNCHANGED <<heap, registry, saved, state, posted, admitted, ops>>
    BY DEF ConfirmFunded, Ready
  <1>2. /\ <<"FUNDED", "IN_PROGRESS">> \in Seq(ContractState)
        /\ <<"FUNDED", "IN_PROGRESS">> # <<>>
    BY DEF ContractState, validTransitions
  <1> QED
    BY <1>1, <1>2, ServeInv

\* A submission will mark its milestone, but not APPROVED.
LEMMA SubmitMilestoneInv ==
    ASSUME IInv, NEW t \in Handlers, SubmitMilestone(t)
    PROVE  IInv'
  <1>1. PICK c \in ContractId, id \in MilestoneId :
            /\ registry[c] # 0
            /\ Serve(t, "submit", c, id, "write", <<"MILESTONE_REVIEW">>, "SUBMITTED")
            /\ UNCHANGED <<heap, registry, saved, state, posted, admitted, ops>>
    BY DEF SubmitMilestone, Ready
  <1>2. <<"MILESTONE_REVIEW">> \in Seq(ContractState) /\ <<"MILESTONE_REVIEW">> # <<>>
    BY DEF ContractState, validTransitions
  <1> QED
    BY <1>1, <1>2, ServeInv

\* Nor will a dispute.
LEMMA DisputeMilestoneInv ==
    ASSUME IInv, NEW t \in Handlers, DisputeMilestone(t)
    PROVE  IInv'
  <1>1. PICK c \in ContractId, id \in MilestoneId :
            /\ registry[c] # 0
            /\ Serve(t, "dispute", c, id, "write", <<"DISPUTED">>, "DISPUTED")
            /\ UNCHANGED <<heap, registry, saved, state, posted, admitted, ops>>
    BY DEF DisputeMilestone, Ready
  <1>2. <<"DISPUTED">> \in Seq(ContractState) /\ <<"DISPUTED">> # <<>>
    BY DEF ContractState, validTransitions
  <1> QED
    BY <1>1, <1>2, ServeInv

\* A request that signs a transaction of the escrow wallet.
LEMMA SignInv ==
    ASSUME IInv, NEW t \in Handlers, NEW op \in DOMAIN Paying,
           NEW c \in ContractId, registry[c] # 0, NEW id, NEW to \in Account,
           NEW amount \in Int64, NEW terminate,
           Sign(t, op, c, id, Paying[op], to, amount, terminate)
    PROVE  IInv'
  <1> DEFINE tx == [type |-> Paying[op], from |-> Authority, to |-> to,
                    amount |-> amount, contract |-> c, nonce |-> ops',
                    signer |-> Authority]
             r == [Idle EXCEPT !.pc = "submit", !.op = op, !.contract = c,
                    !.obj = registry[c], !.milestone = id,
                    !.terminate = terminate, !.tx = tx]
  <1>1. ops \in Nat
    BY DEF IInv, Typed
  <1>2. /\ ops' \in Nat /\ th' = [th EXCEPT ![t] = r]
        /\ UNCHANGED <<heap, registry, saved, state, posted, admitted>>
    BY <1>1 DEF Sign
  <1>3. Paying[op] \in TxType
    BY DEF Paying, TxType
  <1>4. Authority \in Account /\ c \in ContractRef
    BY EscrowApiAssumption DEF Account, ContractRef
  <1>5. tx \in EscrowTx /\ tx.type = Paying[op] /\ tx.contract = c
    BY <1>2, <1>3, <1>4 DEF EscrowTx
  <1> HIDE DEF tx
  <1>6. /\ DOMAIN r = HandlerFields /\ r.pc = "submit" /\ r.contract = c
        /\ r.obj = registry[c] /\ r.op = op /\ r.tx = tx /\ r.mark = "none"
    BY DEF Idle, HandlerFields
  <1> HIDE DEF r
  <1>7. HandlerOK(r)
    <2>1. registry[c] \in 1 .. Len(heap)
      BY DealProps
    <2> QED
      BY <1>5, <1>6, <2>1 DEF HandlerOK, Steps
  <1> QED
    BY <1>2, <1>6, <1>7, LocalStep

\* A release pays the amount of a milestone of the contract.
LEMMA ReleaseMilestoneInv ==
    ASSUME IInv, NEW t \in Handlers, ReleaseMilestone(t)
    PROVE  IInv'
  <1> DEFINE deal(c) == heap[registry[c]]
             amount(c, id) == deal(c).milestones[findMilestone(deal(c), id)].amount
  <1>1. PICK c \in ContractId, id \in MilestoneId :
            /\ registry[c] # 0 /\ ReleaseAllowed(deal(c), id)
            /\ Sign(t, "release", c, id, "RELEASE_MILESTONE", deal(c).founder,
                    amount(c, id), FALSE)
    BY DEF ReleaseMilestone, Ready
  <1>2. deal(c) \in Contract
    BY <1>1, DealProps
  <1>3. findMilestone(deal(c), id) \in DOMAIN deal(c).milestones
    <2>1. findMilestone(deal(c), id) # 0
      BY <1>1 DEF ReleaseAllowed, HasStatus
    <2>2. PICK d \in Contract : d = deal(c)
      BY <1>2
    <2>3. PICK n \in Nat : n = Len(d.milestones) /\ DOMAIN d.milestones = 1 .. n
      BY Milestones
    <2> HIDE DEF deal
    <2>4. findMilestone(d, id) \in 0 .. n
      BY <2>3, FindProps
    <2> QED
      BY <2>1, <2>2, <2>3, <2>4
  <1>4. deal(c).founder \in Account /\ amount(c, id) \in Int64
    BY <1>2, <1>3, Milestones DEF Contract, Milestone, Account
  <1>5. "release" \in DOMAIN Paying /\ Paying["release"] = "RELEASE_MILESTONE"
    BY DEF Paying
  <1> HIDE DEF deal, amount
  <1> QED
    BY <1>1, <1>4, <1>5, SignInv

\* An award pays what the caller names.
LEMMA ArbitrateInv ==
    ASSUME IInv, NEW t \in Handlers, Arbitrate(t)
    PROVE  IInv'
  <1>1. PICK c \in ContractId, id \in MilestoneId, amount \in Awards,
             terminate \in BOOLEAN, to \in Addr :
            /\ registry[c] # 0
            /\ Sign(t, "arbitrate", c, id, "ARBITRATE", to, amount, terminate)
    BY DEF Arbitrate, Ready
  <1>2. to \in Account /\ amount \in Int64
    BY EscrowApiAssumption DEF Account
  <1>3. "arbitrate" \in DOMAIN Paying /\ Paying["arbitrate"] = "ARBITRATE"
    BY DEF Paying
  <1> QED
    BY <1>1, <1>2, <1>3, SignInv

\* A refund pays what the milestones leave open.
LEMMA RefundInv ==
    ASSUME IInv, NEW t \in Handlers, Refund(t)
    PROVE  IInv'
  <1> DEFINE deal(c) == heap[registry[c]]
             amount(c) == RemainingAmount(deal(c).milestones)
  <1>1. PICK c \in ContractId :
            /\ registry[c] # 0
            /\ Sign(t, "refund", c, "none", "REFUND", deal(c).investor, amount(c), FALSE)
    BY DEF Refund, Ready
  <1>2. deal(c) \in Contract
    BY <1>1, DealProps
  <1>3. deal(c).investor \in Account /\ amount(c) \in Int64
    BY <1>2, RemainingTyped DEF Contract, Account
  <1>4. "refund" \in DOMAIN Paying /\ Paying["refund"] = "REFUND"
    BY DEF Paying
  <1> HIDE DEF deal, amount
  <1> QED
    BY <1>1, <1>3, <1>4, SignInv

-----------------------------------------------------------------------------
(* The steps that follow *)

\* What every record of a handler that holds a contract has.
LEMMA HolderProps ==
    ASSUME IInv, NEW t \in Handlers, th[t].pc # "idle"
    PROVE  /\ DOMAIN th[t] = HandlerFields /\ th[t].contract \in ContractId
           /\ th[t].obj \in 1 .. Len(heap) /\ th[t].obj # 0
           /\ th[t].mark \in {"none", "SUBMITTED", "DISPUTED"}
           /\ th = [u \in Handlers |-> th[u]]
           /\ posted \subseteq EscrowTx /\ ops \in Nat
  <1>1. HandlerOK(th[t]) /\ th[t].obj \in 1 .. Len(heap)
    BY HandlerProps
  <1>2. /\ th = [u \in Handlers |-> th[u]]
        /\ posted \subseteq EscrowTx /\ ops \in Nat
    BY DEF IInv, Typed
  <1> QED
    BY <1>1, <1>2 DEF HandlerOK

\* The transaction that submitTx accepts backs what its handler does next.
LEMMA SubmitTxInv ==
    ASSUME IInv, NEW t \in Handlers, SubmitTx(t)
    PROVE  IInv'
  <1>1. /\ th[t].pc = "submit" /\ ops' = ops
        /\ UNCHANGED <<heap, registry, saved, state>>
    BY DEF SubmitTx
  <1>2. HandlerOK(th[t]) /\ heap \in Seq(Contract)
    BY HandlerProps DEF IInv, Typed
  <1>3. CASE ValidateTransaction(th[t].tx, state)
    <2>1. PICK tx, r, accepted :
            /\ tx = th[t].tx /\ r = [th[t] EXCEPT !.pc = "resolve", !.tx = NoTx]
            /\ accepted = [type |-> tx.type, contract |-> tx.contract,
                           milestone |-> th[t].milestone, nonce |-> tx.nonce]
      OBVIOUS
    <2>2. /\ posted' = posted \cup {tx} /\ admitted' = admitted \cup {accepted}
          /\ th' = [th EXCEPT ![t] = r]
      BY <1>1, <1>3, <2>1, HolderProps DEF SubmitTx
    <2>3. /\ DOMAIN r = HandlerFields /\ r.pc = "resolve" /\ r.op = th[t].op
          /\ r.contract = th[t].contract /\ r.obj = th[t].obj
          /\ r.milestone = th[t].milestone /\ r.mark = th[t].mark
      BY <1>1, <2>1, HolderProps DEF HandlerFields
    <2>4. tx \in EscrowTx /\ tx.type = Paying[r.op] /\ tx.contract = r.contract
          /\ r.op \in DOMAIN Paying
      BY <1>1, <1>2, <2>1, <2>3 DEF HandlerOK
    <2>5. /\ accepted.type = Paying[r.op] /\ accepted.contract = r.contract
          /\ accepted.milestone = r.milestone /\ accepted \in admitted'
      BY <2>1, <2>2, <2>3, <2>4
    <2>6. Accepted(Paying[r.op], r.contract, r.milestone)'
      BY <2>5 DEF Accepted
    <2>7. HandlerOK(r)'
      BY <1>1, <1>2, <2>3, <2>4, <2>6, HolderProps DEF HandlerOK, Steps
    <2>8. /\ admitted \subseteq admitted' /\ posted' \subseteq EscrowTx /\ ops' \in Nat
      BY <1>1, <2>2, <2>4, HolderProps
    <2>9. SavedOK'
      BY <1>1, <2>8, SavedKept
    <2> QED
      BY <1>1, <1>2, <2>2, <2>3, <2>7, <2>8, <2>9, StepInv
  <1>4. CASE ~ValidateTransaction(th[t].tx, state)
    <2>1. th' = [th EXCEPT ![t] = Idle] /\ UNCHANGED <<posted, admitted>>
      BY <1>4 DEF SubmitTx, SubmitFailed
    <2> QED
      BY <1>1, <2>1, IdleStep
  <1> QED
    BY <1>3, <1>4

\* A handler changes the contract it holds and goes on to Advance.
LEMMA ChangeInv ==
    ASSUME IInv, NEW t \in Handlers, th[t].pc = "resolve", NEW deal \in Contract,
           Backed(th[t].contract, deal), NEW to \in ContractState,
           ChangeThenAdvance(t, deal, to)
    PROVE  IInv'
  <1>1. PICK r : r = [th[t] EXCEPT !.pc = "check", !.targets = <<to>>]
    OBVIOUS
  <1>2. /\ th' = [th EXCEPT ![t] = r] /\ heap' = [heap EXCEPT ![th[t].obj] = deal]
        /\ UNCHANGED <<registry, saved, state, posted, admitted, ops>>
    BY <1>1, HolderProps DEF ChangeThenAdvance
  <1>3. /\ DOMAIN r = HandlerFields /\ r.pc = "check" /\ r.targets = <<to>>
        /\ r.contract = th[t].contract /\ r.obj = th[t].obj /\ r.mark = th[t].mark
    BY <1>1, HolderProps DEF HandlerFields
  <1>4. <<to>> \in Seq(ContractState) /\ <<to>> # <<>>
    OBVIOUS
  <1>5. /\ heap' \in Seq(Contract) /\ Len(heap') = Len(heap)
        /\ \A o \in 1 .. Len(heap) :
            heap'[o] = heap[o] \/ (o = th[t].obj /\ heap'[o] = deal)
    BY <1>2, HolderProps DEF IInv, Typed
  <1>6. HandlerOK(r)'
    BY <1>3, <1>4, <1>5, HolderProps DEF HandlerOK, Steps
  <1>7. SavedOK'
    BY <1>2, SavedKept
  <1>8. \A o \in 1 .. Len(heap) :
            heap'[o] = heap[o] \/ (o = th[t].obj /\ Backed(th[t].contract, heap'[o]))
    BY <1>5
  <1> QED
    BY <1>2, <1>3, <1>5, <1>6, <1>7, <1>8, HolderProps, StepInv

\* The states that approvals lead to are states of the lifecycle.
LEMMA AfterApprovalKnown ==
    ASSUME NEW deal
    PROVE  AfterApproval(deal) \in ContractState
  BY DEF AfterApproval, ContractState, validTransitions

\* The milestone of a release or award that was accepted may be approved.
LEMMA ApprovedBackedStep ==
    ASSUME IInv, NEW t \in Handlers, th[t].pc = "resolve",
           th[t].op \in {"release", "arbitrate"}
    PROVE  /\ Approved(Held(t), th[t].milestone) \in Contract
           /\ Backed(th[t].contract, Approved(Held(t), th[t].milestone))
  <1>1. /\ Held(t) \in Contract /\ Backed(th[t].contract, Held(t))
        /\ HandlerOK(th[t])
    BY HandlerProps
  <1>2. Accepted(Paying[th[t].op], th[t].contract, th[t].milestone)
    BY <1>1 DEF HandlerOK
  <1>3. Paying[th[t].op] \in {"RELEASE_MILESTONE", "ARBITRATE"}
    BY DEF Paying
  <1>4. "APPROVED" \in MilestoneStatus
    BY DEF MilestoneStatus
  <1> QED
    BY <1>1, <1>2, <1>3, <1>4, MarkBacked DEF Approved

\* The milestone of an accepted release is marked APPROVED ...
LEMMA ApproveMilestoneInv ==
    ASSUME IInv, NEW t \in Handlers, ApproveMilestone(t)
    PROVE  IInv'
  <1> DEFINE deal == Approved(Held(t), th[t].milestone)
  <1>1. /\ th[t].pc = "resolve" /\ th[t].op = "release"
        /\ ChangeThenAdvance(t, deal, AfterApproval(deal))
    BY DEF ApproveMilestone
  <1>2. deal \in Contract /\ Backed(th[t].contract, deal)
    BY <1>1, ApprovedBackedStep
  <1> HIDE DEF deal
  <1> QED
    BY <1>1, <1>2, AfterApprovalKnown, ChangeInv

\* ... so is that of an accepted award, unless it terminates the contract.
LEMMA ResolveArbitrationInv ==
    ASSUME IInv, NEW t \in Handlers, ResolveArbitration(t)
    PROVE  IInv'
  <1> DEFINE deal == IF th[t].terminate THEN Held(t)
                     ELSE Approved(Held(t), th[t].milestone)
             to == IF th[t].terminate THEN "TERMINATED" ELSE AfterApproval(deal)
  <1>1. /\ th[t].pc = "resolve" /\ th[t].op = "arbitrate"
        /\ ChangeThenAdvance(t, deal, to)
    BY DEF ResolveArbitration
  <1>2. deal \in Contract /\ Backed(th[t].contract, deal)
    BY <1>1, ApprovedBackedStep, HandlerProps
  <1>3. to \in ContractState
    <2>1. "TERMINATED" \in ContractState
      BY DEF ContractState, validTransitions
    <2> QED
      BY <2>1, AfterApprovalKnown
  <1> HIDE DEF deal, to
  <1> QED
    BY <1>1, <1>2, <1>3, ChangeInv

\* A refund marks no milestone.
LEMMA TerminateInv ==
    ASSUME IInv, NEW t \in Handlers, Terminate(t)
    PROVE  IInv'
  <1>1. th[t].pc = "resolve" /\ ChangeThenAdvance(t, Held(t), "TERMINATED")
    BY DEF Terminate
  <1>2. Held(t) \in Contract /\ Backed(th[t].contract, Held(t))
    BY <1>1, HandlerProps
  <1>3. "TERMINATED" \in ContractState
    BY DEF ContractState, validTransitions
  <1> QED
    BY <1>1, <1>2, <1>3, ChangeInv

\* The test of Advance changes no contract.
LEMMA CheckAdvanceInv ==
    ASSUME IInv, NEW t \in Handlers, CheckAdvance(t)
    PROVE  IInv'
  <1>1. th[t].pc = "check" /\ UNCHANGED <<heap, registry, saved, state, posted, admitted, ops>>
    BY DEF CheckAdvance
  <1> DEFINE r == [th[t] EXCEPT !.pc = "write"]
  <1>2. CASE th' = [th EXCEPT ![t] = r]
    <2>1. /\ DOMAIN r = HandlerFields /\ r.pc = "write" /\ r.targets = th[t].targets
          /\ r.contract = th[t].contract /\ r.obj = th[t].obj /\ r.mark = th[t].mark
      BY <1>1, HolderProps DEF HandlerFields
    <2> HIDE DEF r
    <2>2. HandlerOK(r)
      BY <1>1, <2>1, HandlerProps DEF HandlerOK, Steps
    <2>3. ops' \in Nat
      BY <1>1, HolderProps
    <2> QED
      BY <1>1, <1>2, <2>1, <2>2, <2>3, LocalStep
  <1>3. CASE th' = [th EXCEPT ![t] = Idle]
    BY <1>1, <1>3, IdleStep
  <1>4. th' = [th EXCEPT ![t] = r] \/ th' = [th EXCEPT ![t] = Idle]
    BY <1>1, HolderProps DEF CheckAdvance
  <1> QED
    BY <1>2, <1>3, <1>4

\* Advance writes a known state, and the mark it may write is not APPROVED.
LEMMA WriteStateInv ==
    ASSUME IInv, NEW t \in Handlers, WriteState(t)
    PROVE  IInv'
  <1> DEFINE rest == Tail(th[t].targets)
             deal == [Held(t) EXCEPT !.state = Head(th[t].targets)]
             new == IF th[t].mark = "none" THEN deal
                    ELSE SetStatus(deal, th[t].milestone, th[t].mark)
  <1>1. /\ th[t].pc = "write" /\ heap' = [heap EXCEPT ![th[t].obj] = new]
        /\ UNCHANGED <<registry, saved, state, posted, admitted, ops>>
    BY DEF WriteState
  <1>2. PICK r : /\ r = [th[t] EXCEPT !.targets = rest, !.pc = AfterWrite(th[t].op, rest)]
                 /\ th' = [th EXCEPT ![t] = r]
    BY <1>1, HolderProps DEF WriteState
  <1>3. /\ Held(t) \in Contract /\ Backed(th[t].contract, Held(t))
        /\ th[t].targets \in Seq(ContractState) /\ th[t].targets # <<>>
        /\ th[t].mark \in {"none", "SUBMITTED", "DISPUTED"}
    BY <1>1, HandlerProps DEF HandlerOK
  <1>4. Head(th[t].targets) \in ContractState /\ rest \in Seq(ContractState)
    BY <1>3
  <1>5. deal \in Contract /\ deal.milestones = Held(t).milestones
    BY <1>3, <1>4 DEF Contract
  <1> HIDE DEF deal
  <1>6. Backed(th[t].contract, deal)
    BY <1>3, <1>5 DEF Backed
  <1>7. new \in Contract /\ Backed(th[t].contract, new)
    <2>1. th[t].mark # "none" =>
            th[t].mark \in MilestoneStatus /\ th[t].mark # "APPROVED"
      BY <1>3 DEF MilestoneStatus
    <2> QED
      BY <1>5, <1>6, <2>1, MarkBacked
  <1>8. /\ DOMAIN r = HandlerFields /\ r.targets = rest
        /\ r.pc = (IF rest # <<>> THEN "check" ELSE "put")
        /\ r.contract = th[t].contract /\ r.obj = th[t].obj /\ r.mark = th[t].mark
    BY <1>1, <1>2, HolderProps DEF HandlerFields, AfterWrite
  <1> HIDE DEF rest, new
  <1>9. /\ heap' \in Seq(Contract) /\ Len(heap') = Len(heap)
        /\ \A o \in 1 .. Len(heap) :
            heap'[o] = heap[o] \/ (o = th[t].obj /\ heap'[o] = new)
    BY <1>1, <1>7, HolderProps DEF IInv, Typed
  <1>10. HandlerOK(r)'
    BY <1>1, <1>4, <1>8, <1>9, HolderProps DEF HandlerOK, Steps
  <1>11. SavedOK'
    BY <1>1, SavedKept
  <1>12. \A o \in 1 .. Len(heap) :
            heap'[o] = heap[o] \/ (o = th[t].obj /\ Backed(th[t].contract, heap'[o]))
    BY <1>7, <1>9
  <1> QED
    BY <1>1, <1>2, <1>8, <1>9, <1>10, <1>11, <1>12, HolderProps, StepInv

-----------------------------------------------------------------------------
(* ContractStore.Save and the store *)

\* The map entry that is written names an object of the contract.
LEMMA PutContractInv ==
    ASSUME IInv, NEW t \in Handlers, PutContract(t)
    PROVE  IInv'
  <1>1. PICK r : r = [th[t] EXCEPT !.pc = "marshal"]
    OBVIOUS
  <1>2. /\ th[t].pc = "put" /\ th' = [th EXCEPT ![t] = r]
        /\ registry' = [registry EXCEPT ![th[t].contract] = th[t].obj]
        /\ UNCHANGED <<heap, saved, state, posted, admitted, ops>>
    BY <1>1, HolderProps DEF PutContract
  <1>3. /\ DOMAIN r = HandlerFields /\ r.pc = "marshal"
        /\ r.contract = th[t].contract /\ r.obj = th[t].obj /\ r.mark = th[t].mark
    BY <1>1, <1>2, HolderProps DEF HandlerFields
  <1>4. HandlerOK(r)'
    BY <1>2, <1>3, HolderProps DEF HandlerOK, Steps
  <1>5. heap \in Seq(Contract)
    BY DEF IInv, Typed
  <1>6. SavedOK'
    BY <1>2, SavedKept
  <1> QED
    BY <1>2, <1>3, <1>4, <1>5, <1>6, HolderProps, StepInv

\* The bytes to be stored are those of a backed contract.
LEMMA MarshalInv ==
    ASSUME IInv, NEW t \in Handlers, Marshal(t)
    PROVE  IInv'
  <1>1. PICK r : r = [th[t] EXCEPT !.pc = "persist", !.copy = Held(t)]
    OBVIOUS
  <1>2. /\ th[t].pc = "marshal" /\ th' = [th EXCEPT ![t] = r] /\ ops' \in Nat
        /\ UNCHANGED <<heap, registry, saved, state, posted, admitted>>
    BY <1>1, HolderProps DEF Marshal
  <1>3. /\ DOMAIN r = HandlerFields /\ r.pc = "persist" /\ r.copy = Held(t)
        /\ r.contract = th[t].contract /\ r.obj = th[t].obj /\ r.mark = th[t].mark
    BY <1>1, <1>2, HolderProps DEF HandlerFields
  <1>4. HandlerOK(r)
    BY <1>2, <1>3, HandlerProps, HolderProps DEF HandlerOK, Steps
  <1> QED
    BY <1>2, <1>3, <1>4, LocalStep

\* What the store takes is backed: acceptance is never taken back.
LEMMA SaveContractInv ==
    ASSUME IInv, NEW t \in Handlers, SaveContract(t)
    PROVE  IInv'
  <1>1. PICK k, copy : k = th[t].contract /\ copy = th[t].copy
    OBVIOUS
  <1>2. /\ th[t].pc = "persist" /\ th' = [th EXCEPT ![t] = Idle]
        /\ saved' = [saved EXCEPT ![k] = copy]
        /\ UNCHANGED <<heap, registry, state, posted, admitted, ops>>
    BY <1>1 DEF SaveContract
  <1>3. k \in ContractId /\ copy \in Contract /\ Backed(k, copy)
    BY <1>1, <1>2, HandlerProps, HolderProps DEF HandlerOK
  <1>4. SavedOK'
    <2> DEFINE Keys == {c \in ContractId : saved[c] # Unsaved}
    <2>1. SavedOK
      BY DEF IInv
    <2>2. saved' \in [ContractId -> Contract \cup {Unsaved}]
      BY <1>2, <1>3, <2>1 DEF SavedOK
    <2>3. \A c \in ContractId : saved'[c] = IF c = k THEN copy ELSE saved[c]
      BY <1>2, <1>3, <2>1 DEF SavedOK
    <2>4. IsFiniteSet({c \in ContractId : saved'[c] # Unsaved})
      <3>1. IsFiniteSet(Keys \cup {k})
        BY <2>1, FS_AddElement DEF SavedOK
      <3>2. {c \in ContractId : saved'[c] # Unsaved} \subseteq Keys \cup {k}
        BY <2>3
      <3> QED
        BY <3>1, <3>2, FS_Subset
    <2>5. \A c \in ContractId : saved'[c] # Unsaved => Backed(c, saved[c])'
      BY <1>2, <1>3, <2>1, <2>3 DEF SavedOK, Backed
    <2> QED
      BY <2>2, <2>4, <2>5 DEF SavedOK
  <1> QED
    BY <1>2, <1>4, IdleSave

\* A save that fails leaves the store as it was.
LEMMA SaveContractFailsInv ==
    ASSUME IInv, NEW t \in Handlers, SaveContractFails(t)
    PROVE  IInv'
  <1>1. /\ th' = [th EXCEPT ![t] = Idle]
        /\ UNCHANGED <<heap, registry, saved, state, posted, admitted, ops>>
    BY DEF SaveContractFails
  <1> QED
    BY <1>1, IdleStep

\* handleCreateContract makes an object of its own; nothing names it yet.
LEMMA CreateContractInv ==
    ASSUME IInv, NEW t \in Handlers, CreateContract(t)
    PROVE  IInv'
  <1>1. /\ Typed /\ HandlersOK /\ heap \in Seq(Contract)
        /\ th = [u \in Handlers |-> th[u]]
        /\ registry \in [ContractId -> 0 .. Len(heap)]
    BY DEF IInv, Typed
  <1>2. PICK n \in Nat : n = Len(heap)
    BY <1>1
  <1>3. PICK m \in Nat : m = n + 1
    OBVIOUS
  <1>4. PICK k \in ContractId, offer \in Offers :
            /\ heap' = Append(heap, NewContract(offer))
            /\ th' = [th EXCEPT ![t] = [Idle EXCEPT !.pc = "put", !.op = "create",
                                                !.contract = k, !.obj = m]]
            /\ UNCHANGED <<registry, saved, state, posted, admitted, ops>>
    BY <1>1, <1>2, <1>3 DEF CreateContract
  <1>5. PICK new \in Contract : new = NewContract(offer) /\ Backed(k, new)
    BY NewBacked
  <1>6. /\ heap' \in Seq(Contract) /\ Len(heap') = m /\ heap'[m] = new
        /\ \A o \in 1 .. n : heap'[o] = heap[o]
    BY <1>1, <1>2, <1>3, <1>4, <1>5
  <1>7. PICK r : r = [Idle EXCEPT !.pc = "put", !.op = "create", !.contract = k,
                                  !.obj = m]
    OBVIOUS
  <1>8. /\ DOMAIN r = HandlerFields /\ r.pc = "put" /\ r.contract = k
        /\ r.obj = m /\ r.mark = "none"
    BY <1>7 DEF Idle, HandlerFields
  <1>9. th' = [u \in Handlers |-> th'[u]] /\ th'[t] = r
        /\ \A u \in Handlers : u # t => th'[u] = th[u]
    BY <1>1, <1>4, <1>7
  <1>10. HandlersOK'
    <2>1. HandlerOK(r)'
      BY <1>3, <1>6, <1>8 DEF HandlerOK, Steps
    <2>2. ASSUME NEW u \in Handlers PROVE HandlerOK(th[u])'
      <3>1. CASE u = t
        BY <1>9, <2>1, <3>1 DEF HandlerOK
      <3>2. CASE u # t
        <4>1. PICK q : q = th[u] /\ q = th'[u] /\ HandlerOK(q)
          BY <1>1, <1>9, <3>2 DEF HandlersOK
        <4>2. n <= m /\ admitted \subseteq admitted'
          BY <1>3, <1>4
        <4>3. HandlerOK(q)'
          BY <1>2, <1>6, <4>1, <4>2, StillOK
        <4> QED
          BY <4>1, <4>3 DEF HandlerOK
      <3> QED
        BY <3>1, <3>2
    <2> QED
      BY <2>2 DEF HandlersOK
  <1>11. Typed'
    <2>1. registry' \in [ContractId -> 0 .. Len(heap')]
      BY <1>1, <1>2, <1>3, <1>4, <1>6
    <2> QED
      BY <1>1, <1>4, <1>6, <1>9, <2>1 DEF Typed
  <1>12. SavedOK'
    BY <1>4, SavedKept
  <1>13. PICK owner \in [1 .. n -> ContractId] : OwnedBy(owner)
    BY <1>2 DEF IInv, Owned
  <1>14. PICK next : next = [o \in 1 .. m |-> IF o = m THEN k ELSE owner[o]]
    OBVIOUS
  <1>15. /\ next \in [1 .. m -> ContractId] /\ next[m] = k
         /\ \A o \in 1 .. n : next[o] = owner[o] /\ o # m
    <2>1. \A o \in 1 .. m : o # m => o \in 1 .. n
      BY <1>3
    <2>2. next \in [1 .. m -> ContractId]
      BY <1>14, <2>1
    <2> QED
      BY <1>3, <1>14, <2>2
  <1>16. OwnedBy(next)'
    <2>1. \A c \in ContractId : registry'[c] # 0 => next[registry'[c]] = c
      <3>1. \A c \in ContractId : registry'[c] # 0 => registry'[c] \in 1 .. n
        BY <1>1, <1>2, <1>4
      <3> QED
        BY <1>4, <1>13, <1>15, <3>1 DEF OwnedBy
    <2>2. ASSUME NEW u \in Handlers, th'[u].obj # 0
          PROVE  next[th'[u].obj] = th'[u].contract
      <3>1. CASE u = t
        BY <1>8, <1>9, <1>15, <3>1
      <3>2. CASE u # t
        <4>1. th'[u] = th[u] /\ th[u].obj \in 1 .. n
          BY <1>1, <1>2, <1>9, <2>2, <3>2 DEF HandlersOK, HandlerOK
        <4> QED
          BY <1>13, <1>15, <2>2, <4>1 DEF OwnedBy
      <3> QED
        BY <3>1, <3>2
    <2>3. ASSUME NEW o \in 1 .. m PROVE Backed(next[o], heap[o])'
      <3>1. CASE o = m
        BY <1>4, <1>5, <1>6, <1>15, <3>1 DEF Backed
      <3>2. CASE o # m
        <4>1. o \in 1 .. n
          BY <1>3, <3>2
        <4>2. Backed(next[o], heap[o]) /\ heap'[o] = heap[o]
          BY <1>2, <1>6, <1>13, <1>15, <4>1 DEF OwnedBy
        <4> QED
          BY <1>4, <4>2 DEF Backed
      <3> QED
        BY <3>1, <3>2
    <2> QED
      BY <1>6, <1>15, <2>1, <2>2, <2>3 DEF OwnedBy
  <1> QED
    BY <1>6, <1>10, <1>11, <1>12, <1>15, <1>16 DEF IInv, Owned

-----------------------------------------------------------------------------
(* Clients, the chain and crashes *)

\* A step that leaves the handlers and the contracts alone.
LEMMA ChainStep ==
    ASSUME IInv, UNCHANGED <<heap, registry, saved, th, admitted, ops>>,
           state' \in SoundState, posted' \subseteq EscrowTx
    PROVE  IInv'
  <1>1. Typed'
    BY DEF IInv, Typed
  <1>2. HandlersOK'
    BY DEF IInv, HandlersOK, HandlerOK, Accepted, Backed
  <1>3. SavedOK'
    BY SavedKept
  <1>4. Owned'
    BY DEF IInv, Owned, OwnedBy, Backed
  <1> QED
    BY <1>1, <1>2, <1>3, <1>4 DEF IInv

\* A funding transaction is well formed.
LEMMA FundEscrowInv ==
    ASSUME IInv, FundEscrow
    PROVE  IInv'
  <1>1. PICK c, deal, tx :
            /\ c \in ContractId /\ registry[c] # 0 /\ deal = heap[registry[c]]
            /\ tx = FundingTx(deal, c, state.nonces[deal.investor])
            /\ posted' = posted \cup {tx}
            /\ UNCHANGED <<heap, registry, saved, th, admitted, ops, state>>
    BY DEF FundEscrow
  <1>2. /\ deal.investor \in Account /\ deal.founder \in Account
        /\ deal.total \in Int64
    BY <1>1, DealProps DEF Contract, Account
  <1>3. state \in SoundState /\ posted \subseteq EscrowTx
    BY DEF IInv, Typed
  <1>4. state.nonces[deal.investor] \in Nat
    BY <1>2, <1>3 DEF SoundState, State
  <1>5. tx \in EscrowTx
    BY <1>1, <1>2, <1>4 DEF FundingTx, EscrowTx, TxType, ContractRef
  <1> QED
    BY <1>1, <1>3, <1>5, ChainStep

\* So is what a client signs.
LEMMA ClientTxInv ==
    ASSUME IInv, ClientTx
    PROVE  IInv'
  <1>1. PICK tx \in ClientTxs :
            /\ posted' = posted \cup {tx}
            /\ UNCHANGED <<heap, registry, saved, th, admitted, ops, state>>
    BY DEF ClientTx
  <1>2. tx \in EscrowTx
    BY EscrowApiAssumption
  <1>3. state \in SoundState /\ posted \subseteq EscrowTx
    BY DEF IInv, Typed
  <1> QED
    BY <1>1, <1>2, <1>3, ChainStep

\* A block leaves the world state sound.
LEMMA CommitBlockInv ==
    ASSUME IInv, CommitBlock
    PROVE  IInv'
  <1>1. PICK tx \in posted :
            /\ ValidateTransaction(tx, state) /\ state' = ApplyTransaction(tx, state)
            /\ UNCHANGED <<heap, registry, saved, th, admitted, ops, posted>>
    BY DEF CommitBlock
  <1>2. state \in SoundState /\ posted \subseteq EscrowTx
    BY DEF IInv, Typed
  <1>3. Signed(tx)
    BY <1>2 DEF EscrowTx, Signed
  <1>4. state' \in SoundState
    BY <1>1, <1>2, <1>3, ApplySignedSound
  <1> QED
    BY <1>1, <1>2, <1>4, ChainStep

\* The contracts of the store, in any order, after a restart: every id names
\* the object that was read for it.
LEMMA CrashInv ==
    ASSUME IInv, CrashAndRestart
    PROVE  IInv'
  <1> DEFINE Keys == {c \in ContractId : saved[c] # Unsaved}
  <1>1. SavedOK
    BY DEF IInv
  <1>2. PICK n \in Nat : SetToSeq(Keys) \in [1 .. n -> Keys]
    <2>1. /\ Cardinality(Keys) \in Nat
          /\ ExistsBijection(1 .. Cardinality(Keys), Keys)
      BY <1>1, FS_CardinalityType DEF SavedOK
    <2> HIDE DEF Keys
    <2>2. \E f \in [1 .. Cardinality(Keys) -> Keys] : IsInjective(f)
      BY <2>1, Zenon DEF ExistsBijection, Bijection, Injection
    <2>3. SetToSeq(Keys) \in [1 .. Cardinality(Keys) -> Keys]
      BY <2>2, Zenon DEF SetToSeq
    <2> QED
      BY <2>1, <2>3
  <1>3. PICK ids : ids = SetToSeq(Keys)
    OBVIOUS
  <1>4. /\ heap' = [i \in DOMAIN ids |-> saved[ids[i]]]
        /\ registry' = [c \in ContractId |-> SelectInSeq(ids, LAMBDA d : d = c)]
        /\ th' = [t \in Handlers |-> Idle]
        /\ UNCHANGED <<saved, state, posted, admitted, ops>>
    BY <1>3 DEF CrashAndRestart
  <1>5. /\ DOMAIN ids = 1 .. n /\ Len(ids) = n
        /\ \A i \in 1 .. n : ids[i] \in ContractId /\ saved[ids[i]] # Unsaved
    <2> HIDE DEF Keys
    <2>1. ids \in [1 .. n -> Keys]
      BY <1>2, <1>3
    <2>2. ids \in Seq(Keys) /\ DOMAIN ids = 1 .. n
      BY <2>1
    <2>3. Len(ids) = n /\ \A i \in 1 .. n : ids[i] \in Keys
      BY <2>1, <2>2
    <2> QED
      BY <2>2, <2>3 DEF Keys
  <1>6. \A i \in 1 .. n : saved[ids[i]] \in Contract /\ Backed(ids[i], saved[ids[i]])
    BY <1>1, <1>5 DEF SavedOK
  <1>7. heap' \in Seq(Contract) /\ Len(heap') = n
        /\ \A i \in 1 .. n : heap'[i] = saved[ids[i]]
    <2>1. heap' \in [1 .. n -> Contract]
      BY <1>4, <1>5, <1>6
    <2> QED
      BY <1>4, <1>5, <2>1
  <1>8. ASSUME NEW c \in ContractId
        PROVE  /\ registry'[c] \in 0 .. n
               /\ registry'[c] # 0 => ids[registry'[c]] = c
    <2> DEFINE I == {i \in 1 .. Len(ids) : ids[i] = c}
    <2>1. registry'[c] = IF I # {} THEN Min(I) ELSE 0
      BY <1>4, Zenon DEF SelectInSeq
    <2>2. CASE I # {}
      <3>1. I \subseteq Nat
        OBVIOUS
      <3>2. \E i \in I : \A j \in I : i <= j
        <4> HIDE DEF I
        <4> QED
          BY <2>2, <3>1, Adding!LeastNumber
      <3>3. Min(I) \in I
        BY <3>2 DEF Min
      <3> QED
        BY <1>5, <2>1, <2>2, <3>3
    <2> QED
      BY <2>1, <2>2
  <1>9. Typed'
    <2>1. registry' \in [ContractId -> 0 .. n]
      BY <1>4, <1>8
    <2> QED
      BY <1>4, <1>7, <2>1 DEF IInv, Typed
  <1>10. HandlersOK'
    <2>1. \A t \in Handlers : th'[t] = Idle
      BY <1>4
    <2> QED
      BY <1>7, <2>1 DEF HandlersOK, HandlerOK, Idle, HandlerFields, Steps
  <1>11. SavedOK'
    BY <1>4, SavedKept
  <1>12. ids \in [1 .. Len(heap') -> ContractId]
    BY <1>2, <1>3, <1>5, <1>7
  <1>13. OwnedBy(ids)'
    <2>1. \A t \in Handlers : th'[t].obj = 0
      BY <1>4 DEF Idle
    <2>2. \A o \in 1 .. n : Backed(ids[o], heap[o])'
      BY <1>4, <1>6, <1>7 DEF Backed
    <2> QED
      BY <1>7, <1>8, <1>12, <2>1, <2>2 DEF OwnedBy
  <1> QED
    BY <1>9, <1>10, <1>11, <1>12, <1>13 DEF IInv, Owned

-----------------------------------------------------------------------------
(* The theorems *)

\* The first start of the process.
LEMMA InitInv ==
    ASSUME Init
    PROVE  IInv
  <1>1. Wealth \in [Account -> Int64]
    BY LedgerAssumption DEF Wealth, Int64
  <1>2. state \in SoundState
    <2>1. state = NewState(Wealth)
      BY DEF Init
    <2>2. \A c \in ContractId : state.locked[c] = NoLock
      BY <2>1 DEF NewState
    <2>3. state \in State
      BY <1>1, <2>1 DEF NewState, State
    <2>4. NoLock.amount >= 0
      BY DEF NoLock
    <2> QED
      BY <2>2, <2>3, <2>4 DEF SoundState
  <1>3. heap = <<>> /\ heap \in Seq(Contract) /\ Len(heap) = 0
    BY DEF Init
  <1>4. Typed
    BY <1>2, <1>3 DEF Init, Typed
  <1>5. HandlersOK
    BY <1>3 DEF Init, HandlersOK, HandlerOK, Idle, HandlerFields, Steps
  <1>6. SavedOK
    <2>1. {c \in ContractId : saved[c] # Unsaved} = {}
      BY DEF Init
    <2> QED
      BY <2>1, FS_EmptySet DEF Init, SavedOK
  <1>7. Owned
    <2>1. PICK owner \in [1 .. 0 -> ContractId] : TRUE
      <3>1. [o \in 1 .. 0 |-> 0] \in [1 .. 0 -> ContractId]
        OBVIOUS
      <3> QED
        BY <3>1
    <2>2. OwnedBy(owner)
      BY <1>3 DEF Init, OwnedBy, Idle
    <2> QED
      BY <1>3, <2>2 DEF Owned
  <1> QED
    BY <1>4, <1>5, <1>6, <1>7 DEF IInv

\* Every step of the module preserves the invariant.
LEMMA NextInv ==
    ASSUME IInv, [Next]_vars
    PROVE  IInv'
  <1>1. ASSUME NEW t \in Handlers, Request(t)
        PROVE  IInv'
    BY <1>1, CreateContractInv, AdvanceContractInv, ConfirmFundedInv,
       SubmitMilestoneInv, DisputeMilestoneInv, ReleaseMilestoneInv,
       ArbitrateInv, RefundInv DEF Request
  <1>2. ASSUME NEW t \in Handlers, Finish(t)
        PROVE  IInv'
    BY <1>2, SubmitTxInv, ApproveMilestoneInv, ResolveArbitrationInv, TerminateInv,
       CheckAdvanceInv, WriteStateInv, PutContractInv, MarshalInv,
       SaveContractInv, SaveContractFailsInv DEF Finish
  <1>3. CASE FundEscrow
    BY <1>3, FundEscrowInv
  <1>4. CASE ClientTx
    BY <1>4, ClientTxInv
  <1>5. CASE CommitBlock
    BY <1>5, CommitBlockInv
  <1>6. CASE CrashAndRestart
    BY <1>6, CrashInv
  <1>7. CASE UNCHANGED vars
    <2>1. state' \in SoundState /\ posted' \subseteq EscrowTx
      BY <1>7 DEF vars, IInv, Typed
    <2> QED
      BY <1>7, <2>1, ChainStep DEF vars
  <1> QED
    BY <1>1, <1>2, <1>3, <1>4, <1>5, <1>6, <1>7 DEF Next

\* The invariant holds in every reachable state.
LEMMA Invariant == Spec => []IInv
  BY InitInv, NextInv, PTL DEF Spec

\* The blocks, and the contracts that the histories note.
Noted ==
    /\ chain \in Seq(EscrowTx)
    /\ steered \subseteq ContractId /\ errored \subseteq ContractId

\* A block has a posted transaction, and the handlers note their contracts.
LEMMA NotedNext ==
    ASSUME IInv, Noted, [Next]_vars
    PROVE  Noted'
  <1>1. ASSUME NEW t \in Handlers, Request(t) PROVE Noted'
    <2>1. UNCHANGED <<chain, errored>>
      BY <1>1 DEF Request, CreateContract, AdvanceContract, ConfirmFunded,
         SubmitMilestone, DisputeMilestone, ReleaseMilestone, Arbitrate, Refund, Sign
    <2>2. steered' \subseteq ContractId
      BY <1>1 DEF Request, CreateContract, AdvanceContract, ConfirmFunded,
         SubmitMilestone, DisputeMilestone, ReleaseMilestone, Arbitrate, Refund, Sign,
         Noted
    <2> QED
      BY <2>1, <2>2 DEF Noted
  <1>2. ASSUME NEW t \in Handlers, Finish(t) PROVE Noted'
    <2>1. UNCHANGED <<chain, steered>>
      BY <1>2 DEF Finish, SubmitTx, ApproveMilestone, ResolveArbitration, Terminate,
         ChangeThenAdvance, CheckAdvance, WriteState, PutContract, Marshal,
         SaveContract, SaveContractFails
    <2>2. th[t].pc # "idle" => th[t].contract \in ContractId
      BY HolderProps
    <2>3. errored' \subseteq ContractId
      BY <1>2, <2>2 DEF Finish, SubmitTx, ApproveMilestone, ResolveArbitration, Terminate,
         ChangeThenAdvance, CheckAdvance, WriteState, PutContract, Marshal,
         SaveContract, SaveContractFails, Noted
    <2> QED
      BY <2>1, <2>3 DEF Noted
  <1>3. ASSUME CommitBlock PROVE Noted'
    <2>1. PICK tx \in posted : chain' = Append(chain, tx)
      BY <1>3 DEF CommitBlock
    <2>2. tx \in EscrowTx
      BY DEF IInv, Typed
    <2>3. chain' \in Seq(EscrowTx)
      BY <2>1, <2>2 DEF Noted
    <2> QED
      BY <1>3, <2>3 DEF CommitBlock, Noted
  <1>4. ASSUME FundEscrow \/ ClientTx \/ CrashAndRestart \/ UNCHANGED vars PROVE Noted'
    BY <1>4 DEF FundEscrow, ClientTx, CrashAndRestart, vars, Noted
  <1> QED
    BY <1>1, <1>2, <1>3, <1>4 DEF Next

\* No request, wherever it stops, and no restart leaves a contract outside the
\* lifecycle or a map entry without its object, and the chain's balances stay
\* within int64.
THEOREM TypeCorrect == Spec => []TypeOK
  <1>1. IInv /\ Noted => TypeOK
    <2>1. ASSUME IInv, NEW t \in Handlers PROVE th[t].obj \in 0 .. Len(heap)
      BY <2>1 DEF IInv, HandlersOK, HandlerOK
    <2> QED
      BY <2>1 DEF IInv, Typed, SavedOK, SoundState, TypeOK, Noted
  <1>2. Init => Noted
    BY DEF Init, Noted
  <1> QED
    BY <1>1, <1>2, InitInv, NextInv, NotedNext, PTL DEF Spec

\* However many requests run at once on one object, whichever saves fail and
\* whenever the process restarts, a milestone that is APPROVED in memory or in
\* the store had a release or an award accepted by the chain's rules, for its
\* own contract and its own id.
THEOREM ApprovedBacked == Spec => []ApprovedIsBacked
  <1>1. IInv => ApprovedIsBacked
    BY DealProps DEF IInv, SavedOK, ApprovedIsBacked, Exists, Deal
  <1> QED
    BY <1>1, Invariant, PTL

-----------------------------------------------------------------------------
(* One request at a time, in one life of the process: the handlers submit  *)
(* one release of a milestone.  With two requests they submit two: see the *)
(* run milestone_released_twice.                                           *)

\* One handler serves the requests, and the process lives.
OneAtATime == (\A t, u \in Handlers : t = u) /\ MaxCrashes = 0

\* This handler's release was accepted and it has not marked the milestone.
Releasing(r, c, id) ==
    r.pc = "resolve" /\ r.op = "release" /\ r.contract = c /\ r.milestone = id

\* The milestone of an accepted release is approved, or is about to be.
ReleasesDone ==
    \A a \in admitted : a.type = "RELEASE_MILESTONE" =>
        /\ a.contract \in ContractId /\ registry[a.contract] # 0
        /\ \/ HasStatus(Deal(a.contract), a.milestone, "APPROVED")
           \/ \E t \in Handlers : Releasing(th[t], a.contract, a.milestone)

\* What a handler has checked still holds when it acts on it.
SerialOK(r) ==
    r.pc # "idle" =>
    /\ \/ registry[r.contract] = r.obj
       \/ r.pc = "put" /\ registry[r.contract] = 0
    /\ r.pc \in {"submit", "resolve"} /\ r.op = "release"
        => HasStatus(heap[r.obj], r.milestone, "SUBMITTED")
    /\ r.pc \in {"submit", "resolve", "check"} => r.mark = "none"
    /\ r.pc = "write" /\ r.mark # "none"
        => /\ Tail(r.targets) = <<>>
           /\ ~HasStatus(heap[r.obj], r.milestone, "APPROVED")

Once ==
    /\ crashes = 0 /\ ReleasesDone /\ ReleaseSubmittedOnce
    /\ \A t \in Handlers : SerialOK(th[t])

\* The invariant of one request at a time.
SerialInv == IInv /\ Once

\* A milestone has one status.
LEMMA OneStatus ==
    ASSUME NEW deal, NEW id, NEW st, NEW su,
           HasStatus(deal, id, st), HasStatus(deal, id, su)
    PROVE  st = su
  BY DEF HasStatus

\* Setting the status of a milestone that is not approved leaves those that
\* are, and what is set is what the milestone has.
LEMMA StatusStays ==
    ASSUME NEW deal \in Contract, NEW id, NEW status \in MilestoneStatus
    PROVE  /\ findMilestone(deal, id) # 0 =>
                HasStatus(SetStatus(deal, id, status), id, status)
           /\ \A j : /\ HasStatus(deal, j, "APPROVED")
                     /\ status = "APPROVED" \/ ~HasStatus(deal, id, "APPROVED")
                     => HasStatus(SetStatus(deal, id, status), j, "APPROVED")
  <1>1. PICK n \in Nat : n = Len(deal.milestones) /\ DOMAIN deal.milestones = 1 .. n
    BY Milestones
  <1>2. PICK e : e = SetStatus(deal, id, status)
    OBVIOUS
  <1>3. Marked(deal, e, id, status)
    BY <1>2, SetStatusMarks
  <1>4. /\ Len(e.milestones) = n
        /\ \A i \in 1 .. n :
            /\ e.milestones[i].id = deal.milestones[i].id
            /\ e.milestones[i].status = IF i = findMilestone(deal, id) THEN status
                                        ELSE deal.milestones[i].status
    BY <1>1, <1>3 DEF Marked
  <1>5. \A j : findMilestone(e, j) = findMilestone(deal, j)
    <2>1. /\ Len(deal.milestones) = Len(e.milestones)
          /\ \A i \in 1 .. Len(deal.milestones) :
                deal.milestones[i].id = e.milestones[i].id
      BY <1>1, <1>4
    <2> QED
      BY <2>1, FindSame
  <1>6. \A j : findMilestone(deal, j) \in 0 .. n
    BY <1>1, FindProps
  <1>7. \A i \in 0 .. n : i # 0 => i \in 1 .. n
    OBVIOUS
  <1>8. findMilestone(deal, id) # 0 => HasStatus(e, id, status)
    BY <1>4, <1>5, <1>6, <1>7 DEF HasStatus
  <1>9. ASSUME NEW j, HasStatus(deal, j, "APPROVED"),
               status = "APPROVED" \/ ~HasStatus(deal, id, "APPROVED")
        PROVE  HasStatus(e, j, "APPROVED")
    <2>1. findMilestone(deal, j) # 0
      BY <1>9 DEF HasStatus
    <2>2. findMilestone(deal, j) \in 1 .. n
      BY <1>6, <1>7, <2>1
    <2>3. CASE findMilestone(deal, j) = findMilestone(deal, id)
      BY <1>4, <1>5, <1>9, <2>2, <2>3 DEF HasStatus
    <2>4. CASE findMilestone(deal, j) # findMilestone(deal, id)
      BY <1>4, <1>5, <1>9, <2>2, <2>4 DEF HasStatus
    <2> QED
      BY <2>3, <2>4
  <1> QED
    BY <1>2, <1>8, <1>9

\* Approving a milestone leaves the approved ones approved.
LEMMA ApprovedStays ==
    ASSUME NEW deal \in Contract, NEW id
    PROVE  /\ findMilestone(deal, id) # 0 => HasStatus(Approved(deal, id), id, "APPROVED")
           /\ \A j : HasStatus(deal, j, "APPROVED")
                        => HasStatus(Approved(deal, id), j, "APPROVED")
  <1>1. "APPROVED" \in MilestoneStatus
    BY DEF MilestoneStatus
  <1> QED
    BY <1>1, StatusStays DEF Approved

\* A step of the handler, which becomes r, that submits nothing: what is
\* approved stays approved, and a release that was accepted is marked.
LEMMA SerialStep ==
    ASSUME OneAtATime, NEW t \in Handlers, NEW r, SerialInv, th' = [th EXCEPT ![t] = r],
           SerialOK(r)', UNCHANGED <<admitted, crashes>>,
           \A o \in 1 .. Len(heap) : o # th[t].obj => heap'[o] = heap[o],
           th[t].obj # 0 =>
                \A id : HasStatus(heap[th[t].obj], id, "APPROVED")
                            => HasStatus(heap'[th[t].obj], id, "APPROVED"),
           th[t].pc = "resolve" /\ th[t].op = "release"
                => HasStatus(heap'[th[t].obj], th[t].milestone, "APPROVED"),
           \/ UNCHANGED registry
           \/ /\ registry' = [registry EXCEPT ![th[t].contract] = th[t].obj]
              /\ th[t].pc = "put"
    PROVE  Once'
  <1>1. IInv /\ Once
    BY DEF SerialInv
  <1>2. /\ th = [u \in Handlers |-> th[u]]
        /\ registry \in [ContractId -> 0 .. Len(heap)] /\ Len(heap) \in Nat
    BY <1>1 DEF IInv, Typed
  <1>3. \A u \in Handlers : u = t /\ th'[u] = r
    BY <1>2 DEF OneAtATime
  <1>4. \A u \in Handlers : SerialOK(th[u])'
    BY <1>3 DEF SerialOK
  <1>5. \A c \in ContractId : registry[c] # 0 => registry'[c] = registry[c]
    <2>1. CASE th[t].pc = "put"
      <3>1. SerialOK(th[t]) /\ th[t].contract \in ContractId
        BY <1>1, <2>1, HolderProps DEF Once
      <3> QED
        BY <1>2, <2>1, <3>1 DEF SerialOK
    <2> QED
      BY <2>1
  <1>6. ReleasesDone'
    <2>1. ASSUME NEW a \in admitted, a.type = "RELEASE_MILESTONE"
          PROVE  /\ a.contract \in ContractId /\ registry'[a.contract] # 0
                 /\ HasStatus(heap'[registry'[a.contract]], a.milestone, "APPROVED")
      <3>1. PICK c \in ContractId, o \in 1 .. Len(heap) :
                /\ c = a.contract /\ o = registry[c] /\ o = registry'[c] /\ o # 0
                /\ \/ HasStatus(heap[o], a.milestone, "APPROVED")
                   \/ Releasing(th[t], c, a.milestone)
        <4>1. /\ a.contract \in ContractId /\ registry[a.contract] # 0
              /\ \/ HasStatus(heap[registry[a.contract]], a.milestone, "APPROVED")
                 \/ Releasing(th[t], a.contract, a.milestone)
          BY <1>1, <1>3, <2>1 DEF Once, ReleasesDone, Deal
        <4> QED
          BY <1>2, <1>5, <4>1
      <3>2. CASE HasStatus(heap[o], a.milestone, "APPROVED")
        <4>1. CASE o = th[t].obj
          BY <3>1, <3>2, <4>1
        <4>2. CASE o # th[t].obj
          BY <3>1, <3>2, <4>2
        <4> QED
          BY <4>1, <4>2
      <3>3. CASE Releasing(th[t], c, a.milestone)
        <4>1. o = th[t].obj
          BY <1>1, <3>1, <3>3 DEF Once, SerialOK, Releasing
        <4> QED
          BY <3>1, <3>3, <4>1 DEF Releasing
      <3> QED
        BY <3>1, <3>2, <3>3
    <2> QED
      BY <2>1 DEF ReleasesDone, Deal
  <1> QED
    BY <1>1, <1>4, <1>6 DEF Once, ReleaseSubmittedOnce

\* A request changes no object that is there.
LEMMA RequestOnce ==
    ASSUME OneAtATime, SerialInv, NEW t \in Handlers, Request(t)
    PROVE  Once'
  <1>1. IInv /\ Len(heap) \in Nat /\ HandlerOK(th[t]) /\ heap \in Seq(Contract)
    BY HandlerProps DEF SerialInv, IInv, Typed
  <1>2. ASSUME NEW r, th' = [th EXCEPT ![t] = r], SerialOK(r)', th[t].pc = "idle",
               UNCHANGED <<registry, admitted, crashes>>,
               \A o \in 1 .. Len(heap) : heap'[o] = heap[o]
        PROVE  Once'
    <2>1. th[t].obj = 0
      BY <1>1, <1>2 DEF HandlerOK
    <2> QED
      BY <1>2, <2>1, SerialStep
  <1>3. ASSUME NEW c, Ready(t, c), NEW op, NEW id, NEW to, NEW mark,
               \/ mark = "none"
               \/ ~HasStatus(heap[registry[c]], id, "APPROVED") /\ Tail(to) = <<>>,
               Serve(t, op, c, id, "write", to, mark),
               UNCHANGED <<heap, registry, admitted, crashes>>
        PROVE  Once'
    <2>1. PICK r : r = [Idle EXCEPT !.pc = "write", !.op = op, !.contract = c,
                    !.obj = registry[c], !.milestone = id, !.targets = to,
                    !.mark = mark]
      OBVIOUS
    <2>2. /\ r.pc = "write" /\ r.contract = c /\ r.obj = registry[c]
          /\ r.milestone = id /\ r.targets = to /\ r.mark = mark
      BY <2>1 DEF Idle
    <2>3. th' = [th EXCEPT ![t] = r] /\ th[t].pc = "idle"
      BY <1>3, <2>1 DEF Serve, Ready
    <2>4. SerialOK(r)'
      BY <1>3, <2>2 DEF SerialOK
    <2> QED
      BY <1>2, <1>3, <2>3, <2>4
  <1>4. ASSUME NEW c, Ready(t, c), NEW op, NEW id, NEW type, NEW to, NEW amount,
               NEW terminate, Sign(t, op, c, id, type, to, amount, terminate),
               op = "release" => HasStatus(heap[registry[c]], id, "SUBMITTED")
        PROVE  Once'
    <2>1. PICK r : /\ r.pc = "submit" /\ r.op = op /\ r.contract = c
                   /\ r.obj = registry[c] /\ r.milestone = id /\ r.mark = "none"
                   /\ th' = [th EXCEPT ![t] = r]
      BY <1>4 DEF Sign, Idle
    <2>2. th[t].pc = "idle" /\ UNCHANGED <<heap, registry, admitted, crashes>>
      BY <1>4 DEF Sign, Ready
    <2>3. SerialOK(r)'
      BY <1>4, <2>1, <2>2 DEF SerialOK
    <2> QED
      BY <1>2, <2>1, <2>2, <2>3
  <1>5. CASE CreateContract(t)
    <2>1. PICK c \in ContractId, offer \in Offers :
            /\ th[t].pc = "idle" /\ registry[c] = 0
            /\ heap' = Append(heap, NewContract(offer))
            /\ th' = [th EXCEPT ![t] = [Idle EXCEPT !.pc = "put", !.op = "create",
                                    !.contract = c, !.obj = Len(heap) + 1]]
            /\ UNCHANGED <<registry, admitted, crashes>>
      BY <1>5 DEF CreateContract
    <2>2. PICK r : r = [Idle EXCEPT !.pc = "put", !.op = "create", !.contract = c,
                                    !.obj = Len(heap) + 1]
      OBVIOUS
    <2>3. r.pc = "put" /\ r.contract = c /\ th' = [th EXCEPT ![t] = r]
      BY <2>1, <2>2 DEF Idle
    <2>4. \A o \in 1 .. Len(heap) : heap'[o] = heap[o]
      BY <1>1, <2>1
    <2>5. SerialOK(r)'
      BY <2>1, <2>3 DEF SerialOK
    <2> QED
      BY <1>2, <2>1, <2>3, <2>4, <2>5
  <1>6. CASE AdvanceContract(t)
    BY <1>3, <1>6 DEF AdvanceContract
  <1>7. CASE ConfirmFunded(t)
    BY <1>3, <1>7 DEF ConfirmFunded
  <1>8. CASE SubmitMilestone(t)
    <2>1. Tail(<<"MILESTONE_REVIEW">>) = <<>>
      OBVIOUS
    <2> QED
      BY <1>3, <1>8, <2>1, OneStatus DEF SubmitMilestone, SubmitAllowed
  <1>9. CASE DisputeMilestone(t)
    <2>1. Tail(<<"DISPUTED">>) = <<>>
      OBVIOUS
    <2> QED
      BY <1>3, <1>9, <2>1, OneStatus DEF DisputeMilestone, DisputeAllowed
  <1>10. CASE ReleaseMilestone(t)
    BY <1>4, <1>10 DEF ReleaseMilestone, ReleaseAllowed
  <1>11. CASE Arbitrate(t)
    BY <1>4, <1>11 DEF Arbitrate
  <1>12. CASE Refund(t)
    BY <1>4, <1>12 DEF Refund
  <1> QED
    BY <1>5, <1>6, <1>7, <1>8, <1>9, <1>10, <1>11, <1>12 DEF Request

\* submitTx: a release that is accepted is the first of its milestone, which
\* was still SUBMITTED.
LEMMA SubmitTxOnce ==
    ASSUME OneAtATime, SerialInv, NEW t \in Handlers, SubmitTx(t)
    PROVE  Once'
  <1>1. /\ IInv /\ Once /\ HandlerOK(th[t])
        /\ th = [u \in Handlers |-> th[u]] /\ th[t].pc = "submit"
        /\ UNCHANGED <<heap, registry, crashes>>
    BY HandlerProps DEF SerialInv, IInv, Typed, SubmitTx
  <1>2. PICK c, o, id, op :
            /\ c \in ContractId /\ op \in DOMAIN Paying
            /\ c = th[t].contract /\ o = th[t].obj /\ id = th[t].milestone
            /\ op = th[t].op /\ o # 0
            /\ th[t].tx.type = Paying[op] /\ th[t].tx.contract = c
    BY <1>1 DEF HandlerOK
  <1>3. /\ o = registry[c] /\ th[t].mark = "none"
        /\ op = "release" => HasStatus(heap[o], id, "SUBMITTED")
    BY <1>1, <1>2 DEF Once, SerialOK
  <1>4. CASE ValidateTransaction(th[t].tx, state)
    <2>1. PICK r : r = [th[t] EXCEPT !.pc = "resolve", !.tx = NoTx]
      OBVIOUS
    <2>2. /\ r.pc = "resolve" /\ r.op = op /\ r.contract = c /\ r.obj = o
          /\ r.milestone = id /\ r.mark = th[t].mark
      <3>1. DOMAIN th[t] = HandlerFields
        BY <1>1 DEF HandlerOK
      <3> QED
        BY <1>2, <2>1, <3>1 DEF HandlerFields
    <2>3. PICK new : new = [type |-> Paying[op], contract |-> c, milestone |-> id,
                           nonce |-> th[t].tx.nonce]
      OBVIOUS
    <2>4. new.type = Paying[op] /\ new.contract = c /\ new.milestone = id
      BY <2>3
    <2>5. admitted' = admitted \cup {new}
      BY <1>2, <1>4, <2>3 DEF SubmitTx
    <2>6. /\ \A u \in Handlers : u = t
          /\ \A u \in Handlers : th'[u] = r
      <3>1. th' = [th EXCEPT ![t] = r]
        BY <1>1, <1>4, <2>1 DEF SubmitTx
      <3>2. th'[t] = r
        BY <1>1, <3>1
      <3>3. \A u \in Handlers : u = t
        BY DEF OneAtATime
      <3> QED
        BY <3>2, <3>3
    <2>7. Paying[op] = "RELEASE_MILESTONE" => op = "release"
      BY <1>2 DEF Paying
    <2>8. ASSUME NEW a \in admitted, a.type = "RELEASE_MILESTONE"
          PROVE  /\ a.contract \in ContractId /\ registry[a.contract] # 0
                 /\ HasStatus(Deal(a.contract), a.milestone, "APPROVED")
      BY <1>1, <2>6, <2>8 DEF Once, ReleasesDone, Releasing
    <2>9. ReleasesDone'
      <3>1. ASSUME NEW a \in admitted', a.type = "RELEASE_MILESTONE"
            PROVE  /\ a.contract \in ContractId /\ registry'[a.contract] # 0
                   /\ \/ HasStatus(Deal(a.contract)', a.milestone, "APPROVED")
                      \/ \E u \in Handlers : Releasing(th'[u], a.contract, a.milestone)
        <4>1. CASE a \in admitted
          BY <1>1, <2>8, <3>1, <4>1 DEF Deal
        <4>2. CASE a = new
          BY <1>1, <1>2, <1>3, <2>2, <2>4, <2>5, <2>6, <2>7, <3>1, <4>2 DEF Releasing
        <4> QED
          BY <2>2, <2>4, <2>5, <4>1, <4>2
      <3> QED
        BY <3>1 DEF ReleasesDone
    <2>10. ReleaseSubmittedOnce'
      <3>1. ASSUME NEW a \in admitted, a.type = "RELEASE_MILESTONE",
                   a.type = new.type, a.contract = new.contract, a.milestone = new.milestone
            PROVE  FALSE
        <4>1. HasStatus(heap[o], id, "SUBMITTED") /\ HasStatus(heap[o], id, "APPROVED")
          BY <1>3, <2>2, <2>4, <2>5, <2>7, <2>8, <3>1 DEF Deal
        <4> QED
          BY <4>1, OneStatus
      <3>2. ReleaseSubmittedOnce
        BY <1>1 DEF Once
      <3> QED
        BY <2>2, <2>4, <2>5, <3>1, <3>2 DEF ReleaseSubmittedOnce
    <2>11. \A u \in Handlers : SerialOK(th[u])'
      BY <1>1, <1>3, <2>2, <2>4, <2>5, <2>6 DEF SerialOK
    <2> QED
      BY <1>1, <2>9, <2>10, <2>11 DEF Once
  <1>5. CASE ~ValidateTransaction(th[t].tx, state)
    <2>1. th' = [th EXCEPT ![t] = Idle] /\ UNCHANGED admitted
      BY <1>5 DEF SubmitTx, SubmitFailed
    <2>2. SerialOK(Idle)'
      BY DEF SerialOK, Idle
    <2> QED
      BY <1>1, <2>1, <2>2, SerialStep
  <1> QED
    BY <1>4, <1>5

\* The steps after submitTx: one of them marks the milestone whose release was
\* accepted, and none takes the mark of another away.
LEMMA FinishOnce ==
    ASSUME OneAtATime, SerialInv, NEW t \in Handlers, Finish(t)
    PROVE  Once'
  <1>1. IInv /\ HandlerOK(th[t]) /\ SerialOK(th[t])
    BY HandlerProps DEF SerialInv, Once
  <1>2. ASSUME th[t].pc # "idle"
        PROVE  /\ th = [u \in Handlers |-> th[u]] /\ DOMAIN th[t] = HandlerFields
               /\ th[t].obj \in 1 .. Len(heap) /\ DOMAIN heap = 1 .. Len(heap)
               /\ Held(t) = heap[th[t].obj] /\ Held(t) \in Contract
    BY <1>1, <1>2, HolderProps, HandlerProps DEF Held
  <1>3. ASSUME NEW deal, NEW to, ChangeThenAdvance(t, deal, to), th[t].pc = "resolve",
               \A id : HasStatus(Held(t), id, "APPROVED") => HasStatus(deal, id, "APPROVED"),
               th[t].op = "release" => HasStatus(deal, th[t].milestone, "APPROVED")
        PROVE  Once'
    <2>1. PICK r : r = [th[t] EXCEPT !.pc = "check", !.targets = <<to>>]
      OBVIOUS
    <2>2. r.pc = "check" /\ r.contract = th[t].contract /\ r.obj = th[t].obj
          /\ r.mark = "none"
      BY <1>1, <1>2, <1>3, <2>1 DEF HandlerFields, SerialOK
    <2>3. /\ th' = [th EXCEPT ![t] = r] /\ heap' = [heap EXCEPT ![th[t].obj] = deal]
          /\ UNCHANGED <<registry, admitted, crashes>>
      BY <1>2, <1>3, <2>1 DEF ChangeThenAdvance
    <2>4. heap'[th[t].obj] = deal
          /\ \A o \in 1 .. Len(heap) : o # th[t].obj => heap'[o] = heap[o]
      BY <1>2, <1>3, <2>3
    <2>5. SerialOK(r)'
      BY <1>1, <1>3, <2>2, <2>3 DEF SerialOK
    <2> QED
      BY <1>2, <1>3, <2>3, <2>4, <2>5, SerialStep
  <1>4. ASSUME NEW r, th' = [th EXCEPT ![t] = r], SerialOK(r)',
               UNCHANGED <<heap, admitted, crashes>>, th[t].pc # "resolve",
               \/ UNCHANGED registry
               \/ /\ registry' = [registry EXCEPT ![th[t].contract] = th[t].obj]
                  /\ th[t].pc = "put"
        PROVE  Once'
    BY <1>4, SerialStep
  <1>5. SerialOK(Idle)'
    BY DEF SerialOK, Idle
  <1>6. CASE SubmitTx(t)
    BY <1>6, SubmitTxOnce
  <1>7. CASE ApproveMilestone(t)
    <2>1. /\ th[t].pc = "resolve" /\ th[t].op = "release"
          /\ ChangeThenAdvance(t, Approved(Held(t), th[t].milestone),
                AfterApproval(Approved(Held(t), th[t].milestone)))
      BY <1>7 DEF ApproveMilestone
    <2>2. findMilestone(Held(t), th[t].milestone) # 0
      BY <1>1, <1>2, <2>1 DEF SerialOK, HasStatus
    <2>3. PICK deal : deal = Approved(Held(t), th[t].milestone)
      OBVIOUS
    <2>4. /\ HasStatus(deal, th[t].milestone, "APPROVED")
          /\ \A id : HasStatus(Held(t), id, "APPROVED") => HasStatus(deal, id, "APPROVED")
      BY <1>2, <2>1, <2>2, <2>3, ApprovedStays
    <2> QED
      BY <1>3, <2>1, <2>3, <2>4
  <1>8. CASE ResolveArbitration(t)
    <2> DEFINE deal == IF th[t].terminate THEN Held(t)
                       ELSE Approved(Held(t), th[t].milestone)
               to == IF th[t].terminate THEN "TERMINATED" ELSE AfterApproval(deal)
    <2>1. /\ th[t].pc = "resolve" /\ th[t].op = "arbitrate"
          /\ ChangeThenAdvance(t, deal, to)
      BY <1>8 DEF ResolveArbitration
    <2>2. \A id : HasStatus(Held(t), id, "APPROVED") => HasStatus(deal, id, "APPROVED")
      BY <1>2, <2>1, ApprovedStays
    <2> HIDE DEF deal, to
    <2> QED
      BY <1>3, <2>1, <2>2
  <1>9. CASE Terminate(t)
    BY <1>3, <1>9 DEF Terminate
  <1>10. CASE CheckAdvance(t)
    <2>1. th[t].pc = "check" /\ UNCHANGED <<heap, registry, admitted, crashes>>
      BY <1>10 DEF CheckAdvance
    <2>2. PICK r : r = [th[t] EXCEPT !.pc = "write"]
      OBVIOUS
    <2>3. r.pc = "write" /\ r.contract = th[t].contract /\ r.obj = th[t].obj
          /\ r.mark = th[t].mark
      BY <1>2, <2>1, <2>2 DEF HandlerFields
    <2>4. SerialOK(r)'
      BY <1>1, <2>1, <2>3 DEF SerialOK
    <2>5. th' = [th EXCEPT ![t] = r] \/ th' = [th EXCEPT ![t] = Idle]
      BY <1>2, <1>10, <2>1, <2>2 DEF CheckAdvance
    <2> QED
      BY <1>4, <1>5, <2>1, <2>4, <2>5
  <1>11. CASE WriteState(t)
    <2> DEFINE rest == Tail(th[t].targets)
               deal == [Held(t) EXCEPT !.state = Head(th[t].targets)]
               new == IF th[t].mark = "none" THEN deal
                      ELSE SetStatus(deal, th[t].milestone, th[t].mark)
    <2>1. th[t].pc = "write" /\ UNCHANGED <<registry, admitted, crashes>>
      BY <1>11 DEF WriteState
    <2>2. PICK r : r = [th[t] EXCEPT !.targets = rest, !.pc = AfterWrite(th[t].op, rest)]
      OBVIOUS
    <2>3. /\ r.contract = th[t].contract /\ r.obj = th[t].obj /\ r.mark = th[t].mark
          /\ r.pc = IF rest # <<>> THEN "check" ELSE "put"
      BY <1>2, <2>1, <2>2 DEF HandlerFields, AfterWrite
    <2>4. th' = [th EXCEPT ![t] = r] /\ heap' = [heap EXCEPT ![th[t].obj] = new]
      BY <1>2, <1>11, <2>1, <2>2 DEF WriteState
    <2>5. SerialOK(r)'
      <3>1. r.mark # "none" => rest = <<>>
        BY <1>1, <2>1, <2>3 DEF SerialOK
      <3> HIDE DEF rest
      <3> QED
        BY <1>1, <2>1, <2>3, <3>1 DEF SerialOK
    <2>6. deal \in Contract /\ deal.milestones = Held(t).milestones
      <3>1. Head(th[t].targets) \in ContractState
        BY <1>1, <2>1 DEF HandlerOK
      <3> QED
        BY <1>2, <2>1, <3>1 DEF Contract
    <2>7. \A id, st : HasStatus(deal, id, st) <=> HasStatus(Held(t), id, st)
      BY <2>6 DEF HasStatus, findMilestone
    <2> HIDE DEF deal
    <2>8. \A id : HasStatus(Held(t), id, "APPROVED") => HasStatus(new, id, "APPROVED")
      <3>1. th[t].mark # "none" => /\ th[t].mark \in MilestoneStatus
                                  /\ ~HasStatus(deal, th[t].milestone, "APPROVED")
        BY <1>1, <1>2, <2>1, <2>7 DEF HandlerOK, SerialOK, MilestoneStatus
      <3> QED
        BY <2>6, <2>7, <3>1, StatusStays
    <2> HIDE DEF new
    <2>9. heap'[th[t].obj] = new
          /\ \A o \in 1 .. Len(heap) : o # th[t].obj => heap'[o] = heap[o]
      BY <1>2, <2>1, <2>4
    <2> QED
      BY <1>2, <2>1, <2>4, <2>5, <2>8, <2>9, SerialStep
  <1>12. CASE PutContract(t)
    <2>1. PICK r : r = [th[t] EXCEPT !.pc = "marshal"]
      OBVIOUS
    <2>2. /\ th[t].pc = "put" /\ th' = [th EXCEPT ![t] = r]
          /\ registry' = [registry EXCEPT ![th[t].contract] = th[t].obj]
          /\ UNCHANGED <<heap, admitted, crashes>>
      BY <1>2, <1>12, <2>1 DEF PutContract
    <2>3. r.pc = "marshal" /\ r.contract = th[t].contract /\ r.obj = th[t].obj
      BY <1>2, <2>1, <2>2 DEF HandlerFields
    <2>4. registry'[r.contract] = r.obj
      BY <1>1, <2>2, <2>3 DEF IInv, Typed, HandlerOK
    <2>5. SerialOK(r)'
      BY <2>3, <2>4 DEF SerialOK
    <2> QED
      BY <1>4, <2>2, <2>5
  <1>13. CASE Marshal(t)
    <2>1. PICK r : r = [th[t] EXCEPT !.pc = "persist", !.copy = Held(t)]
      OBVIOUS
    <2>2. /\ th[t].pc = "marshal" /\ th' = [th EXCEPT ![t] = r]
          /\ UNCHANGED <<heap, registry, admitted, crashes>>
      BY <1>2, <1>13, <2>1 DEF Marshal
    <2>3. r.pc = "persist" /\ r.contract = th[t].contract /\ r.obj = th[t].obj
      BY <1>2, <2>1, <2>2 DEF HandlerFields
    <2>4. SerialOK(r)'
      BY <1>1, <2>2, <2>3 DEF SerialOK
    <2> QED
      BY <1>4, <2>2, <2>4
  <1>14. CASE SaveContract(t) \/ SaveContractFails(t)
    <2>1. /\ th[t].pc = "persist" /\ th' = [th EXCEPT ![t] = Idle]
          /\ UNCHANGED <<heap, registry, admitted, crashes>>
      BY <1>14 DEF SaveContract, SaveContractFails
    <2> QED
      BY <1>4, <1>5, <2>1
  <1> QED
    BY <1>6, <1>7, <1>8, <1>9, <1>10, <1>11, <1>12, <1>13, <1>14 DEF Finish

\* A first request finds nothing released.
LEMMA SerialInit ==
    ASSUME Init
    PROVE  SerialInv
  <1>1. Once
    BY DEF Init, Once, ReleasesDone, ReleaseSubmittedOnce, SerialOK, Idle
  <1> QED
    BY <1>1, InitInv DEF SerialInv

\* Every step of a single life with one request at a time.
LEMMA SerialNext ==
    ASSUME OneAtATime, SerialInv, [Next]_vars
    PROVE  SerialInv'
  <1>1. ASSUME NEW t \in Handlers, Request(t) \/ Finish(t) PROVE Once'
    BY <1>1, RequestOnce, FinishOnce
  <1>2. ASSUME UNCHANGED <<heap, registry, th, admitted, crashes>> PROVE Once'
    <2>1. Once
      BY DEF SerialInv
    <2> QED
      BY <1>2, <2>1 DEF Once, ReleasesDone, ReleaseSubmittedOnce, SerialOK, Deal
  <1>3. ASSUME FundEscrow \/ ClientTx \/ CommitBlock \/ UNCHANGED vars PROVE Once'
    BY <1>2, <1>3 DEF FundEscrow, ClientTx, CommitBlock, vars
  <1>4. ASSUME CrashAndRestart PROVE Once'
    <2>1. crashes = 0 /\ crashes < MaxCrashes
      BY <1>4 DEF SerialInv, Once, CrashAndRestart
    <2> QED
      BY <2>1 DEF OneAtATime
  <1>5. Once'
    BY <1>1, <1>3, <1>4 DEF Next
  <1> QED
    BY <1>5, NextInv DEF SerialInv

\* The handlers submit one release of a milestone, for any contracts, offers and
\* number of requests, whatever states clients name, while requests come one at a
\* time and the process lives: a second request finds the milestone APPROVED,
\* whatever happened to the block, to the save or to the transition that followed
\* the first one.
THEOREM OneReleaseSubmitted ==
    ASSUME OneAtATime
    PROVE  Spec => []ReleaseSubmittedOnce
  <1>1. SerialInv => ReleaseSubmittedOnce
    BY DEF SerialInv, Once
  <1>2. SerialInv /\ [Next]_vars => SerialInv'
    BY SerialNext
  <1> QED
    BY <1>1, <1>2, SerialInit, PTL DEF Spec

-----------------------------------------------------------------------------
(* Between requests: contract, milestones and store, one request at a time. *)

\* The milestones of a contract that have a status.
With(deal, status) ==
    {i \in DOMAIN deal.milestones : deal.milestones[i].status = status}

\* A contract and its milestones tell the same story.
Told(deal) ==
    /\ IF deal.state = "MILESTONE_REVIEW"
       THEN \E i \in DOMAIN deal.milestones : With(deal, "SUBMITTED") = {i}
       ELSE With(deal, "SUBMITTED") = {}
    /\ deal.state \in {"DRAFT", "PENDING_SIGNATURE", "SIGNED", "FUNDED"}
        => With(deal, "PENDING") = DOMAIN deal.milestones
    /\ deal.state = "DISPUTED"
        => With(deal, "DISPUTED") # {} \/ RemainingAmount(deal.milestones) = 0
    /\ deal.state = "COMPLETED" => RemainingAmount(deal.milestones) = 0

\* They do, unless a client advanced the contract past its signature.
Story(c, deal) == c \in steered \/ Told(deal)

\* The store has the contract, or a client was told that it may not.
Kept(c, deal) == saved[c] = deal \/ c \in errored

\* A contract between requests.
Fine(c, deal) == Story(c, deal) /\ Kept(c, deal)

\* The contract after the assignments of WriteState.
Written(r, deal) ==
    LET next == [deal EXCEPT !.state = Head(r.targets)] IN
    IF r.mark = "none" THEN next ELSE SetStatus(next, r.milestone, r.mark)

\* What a handler at work knows of the contract it holds.
Working(r) ==
    LET deal == heap[r.obj] IN
    /\ r.pc \in {"submit", "resolve"} =>
        Fine(r.contract, deal) /\ (r.op = "arbitrate" => deal.state = "DISPUTED")
    /\ r.pc = "check" =>
        /\ Tail(r.targets) = <<>>
        /\ Story(r.contract, IF Transition(deal.state, Head(r.targets))
                             THEN [deal EXCEPT !.state = Head(r.targets)] ELSE deal)
    /\ r.pc = "write" =>
        /\ Story(r.contract, Written(r, deal))
        /\ Tail(r.targets) # <<>>
            => r.mark = "none" /\ r.targets = <<"FUNDED", "IN_PROGRESS">>
    /\ r.pc \in {"put", "marshal", "persist"} => Story(r.contract, deal)
    /\ r.pc = "persist" => r.copy = deal

\* A contract that no handler works on is fine.
Between ==
    /\ \A t \in Handlers : th[t].pc # "idle" => Working(th[t])
    /\ \A c \in ContractId :
        /\ registry[c] # 0
        /\ \A t \in Handlers : th[t].pc = "idle" \/ th[t].contract # c
        => Fine(c, heap[registry[c]])

\* The invariant of a contract between requests.
BetweenInv == SerialInv /\ Between

\* The transitions of the lifecycle that the proofs rely on.
LEMMA Lifecycle ==
    ASSUME NEW from \in ContractState, NEW to
    PROVE  /\ Transition(from, to) /\ to \in {"DRAFT", "PENDING_SIGNATURE", "SIGNED"}
                => from \in {"DRAFT", "PENDING_SIGNATURE"}
           /\ Transition(from, "FUNDED") => from = "SIGNED"
           /\ Transition(from, "MILESTONE_REVIEW") => from = "IN_PROGRESS"
           /\ Transition(from, "DISPUTED") => from = "MILESTONE_REVIEW"
           /\ Transition(from, "TERMINATED") => from \in {"IN_PROGRESS", "DISPUTED"}
           /\ Transition("MILESTONE_REVIEW", "IN_PROGRESS")
           /\ Transition("MILESTONE_REVIEW", "COMPLETED")
           /\ Transition("DISPUTED", "IN_PROGRESS")
           /\ ~Transition("DISPUTED", "COMPLETED")
  BY DEF Transition, validTransitions, ContractState

\* A contract whose state alone is changed.
LEMMA StateSet ==
    ASSUME NEW deal \in Contract, NEW to \in ContractState
    PROVE  /\ [deal EXCEPT !.state = to] \in Contract
           /\ [deal EXCEPT !.state = to].state = to
           /\ [deal EXCEPT !.state = to].milestones = deal.milestones
           /\ \A st : With([deal EXCEPT !.state = to], st) = With(deal, st)
  BY DEF Contract, With

\* Nothing is submitted, and the new state claims no more than that.
LEMMA ToldMoves ==
    ASSUME NEW deal \in Contract, NEW to \in ContractState,
           With(deal, "SUBMITTED") = {}, to \notin {"MILESTONE_REVIEW", "DISPUTED"},
           to \in {"DRAFT", "PENDING_SIGNATURE", "SIGNED", "FUNDED"}
                => With(deal, "PENDING") = DOMAIN deal.milestones,
           to = "COMPLETED" => RemainingAmount(deal.milestones) = 0
    PROVE  Told([deal EXCEPT !.state = to])
  <1>1. PICK e : e = [deal EXCEPT !.state = to]
    OBVIOUS
  <1>2. e.state = to /\ e.milestones = deal.milestones
        /\ \A st : With(e, st) = With(deal, st)
    BY <1>1, StateSet
  <1>3. Told(e)
    BY <1>2 DEF Told
  <1> QED
    BY <1>1, <1>3

\* What setting a status does to the milestones with each status.
LEMMA MarkMoves ==
    ASSUME NEW deal \in Contract, NEW id, NEW status \in MilestoneStatus,
           NEW e, e = SetStatus(deal, id, status), NEW k, k = findMilestone(deal, id)
    PROVE  /\ e \in Contract /\ e.state = deal.state
           /\ DOMAIN e.milestones = DOMAIN deal.milestones
           /\ k # 0 => /\ k \in DOMAIN deal.milestones
                       /\ With(e, status) = With(deal, status) \cup {k}
           /\ \A st : st # status => With(e, st) = With(deal, st) \ {k}
  <1>1. PICK n \in Nat : n = Len(deal.milestones) /\ DOMAIN deal.milestones = 1 .. n
    BY Milestones
  <1>3. Marked(deal, e, id, status)
    BY SetStatusMarks
  <1>4. /\ Len(e.milestones) = n /\ e \in Contract /\ e.state = deal.state
        /\ \A i \in 1 .. n : e.milestones[i].status = IF i = k THEN status
                                        ELSE deal.milestones[i].status
    BY <1>1, <1>3 DEF Marked
  <1>5. DOMAIN e.milestones = 1 .. n
    BY <1>4, Milestones
  <1>6. k \in 0 .. n
    BY <1>1, FindProps
  <1>7. k # 0 => k \in 1 .. n
    BY <1>6
  <1>8. k # 0 => With(e, status) = With(deal, status) \cup {k}
    BY <1>1, <1>4, <1>5, <1>7 DEF With
  <1>9. ASSUME NEW st, st # status PROVE With(e, st) = With(deal, st) \ {k}
    BY <1>1, <1>4, <1>5, <1>9 DEF With
  <1> QED
    BY <1>1, <1>4, <1>5, <1>7, <1>8, <1>9

\* A milestone that is found with a status is one of those that have it.
LEMMA FoundWith ==
    ASSUME NEW deal \in Contract, NEW id, NEW status, HasStatus(deal, id, status)
    PROVE  /\ findMilestone(deal, id) # 0
           /\ findMilestone(deal, id) \in With(deal, status)
  <1>1. PICK n \in Nat : n = Len(deal.milestones) /\ DOMAIN deal.milestones = 1 .. n
    BY Milestones
  <1>2. findMilestone(deal, id) \in 0 .. n
    BY <1>1, FindProps
  <1>3. findMilestone(deal, id) # 0
        /\ deal.milestones[findMilestone(deal, id)].status = status
    BY DEF HasStatus
  <1> QED
    BY <1>1, <1>2, <1>3 DEF With

\* A new contract is told right.
LEMMA ToldNew ==
    ASSUME NEW offer \in Offers
    PROVE  Told(NewContract(offer))
  <1>1. PICK os : os = offer.milestones
    OBVIOUS
  <1>2. PICK deal : deal = NewContract(offer)
    OBVIOUS
  <1>3. deal.state = "DRAFT"
    BY <1>2 DEF NewContract
  <1>4. deal.milestones = [i \in DOMAIN os |->
            [id |-> os[i].id, amount |-> os[i].amount, status |-> "PENDING"]]
    BY <1>1, <1>2 DEF NewContract
  <1>5. \A i \in DOMAIN deal.milestones : deal.milestones[i].status = "PENDING"
    BY <1>4
  <1>6. With(deal, "PENDING") = DOMAIN deal.milestones /\ With(deal, "SUBMITTED") = {}
    BY <1>5 DEF With
  <1>7. Told(deal)
    BY <1>3, <1>6 DEF Told
  <1> QED
    BY <1>2, <1>7

\* The contract a request gets is fine, because nobody works on it.
LEMMA RequestDeal ==
    ASSUME OneAtATime, BetweenInv, NEW t \in Handlers, NEW c \in ContractId, Ready(t, c)
    PROVE  /\ Fine(c, heap[registry[c]]) /\ heap[registry[c]] \in Contract
           /\ heap[registry[c]].state \in ContractState
           /\ registry[c] # 0 /\ th[t].pc = "idle"
  <1>1. IInv /\ Between /\ registry[c] # 0 /\ th[t].pc = "idle"
    BY DEF BetweenInv, SerialInv, Ready
  <1>2. \A u \in Handlers : th[u].pc = "idle"
    BY <1>1 DEF OneAtATime
  <1>3. Fine(c, heap[registry[c]])
    BY <1>1, <1>2 DEF Between
  <1>4. heap[registry[c]] \in Contract
    BY <1>1, DealProps
  <1> QED
    BY <1>1, <1>3, <1>4 DEF Contract

\* A request leaves every contract as it was.
LEMMA RequestStep ==
    ASSUME OneAtATime, BetweenInv, NEW t \in Handlers, NEW r, th[t].pc = "idle",
           th' = [th EXCEPT ![t] = r], r.pc # "idle", Working(r)',
           UNCHANGED <<registry, saved, errored>>, steered \subseteq steered',
           \A o \in 1 .. Len(heap) : heap'[o] = heap[o]
    PROVE  Between'
  <1>1. IInv /\ Between
    BY DEF BetweenInv, SerialInv
  <1>2. /\ th = [u \in Handlers |-> th[u]]
        /\ registry \in [ContractId -> 0 .. Len(heap)] /\ Len(heap) \in Nat
    BY <1>1, HandlerProps DEF IInv, Typed
  <1>3. \A u \in Handlers : u = t /\ th[u].pc = "idle" /\ th'[u] = r
    BY <1>2 DEF OneAtATime
  <1>4. \A u \in Handlers : th'[u].pc # "idle" => Working(th[u])'
    BY <1>3 DEF Working
  <1>5. ASSUME NEW c \in ContractId, registry[c] # 0
        PROVE  Fine(c, heap[registry[c]])'
    <2>1. Fine(c, heap[registry[c]])
      BY <1>1, <1>3, <1>5 DEF Between
    <2>2. heap'[registry'[c]] = heap[registry[c]]
      BY <1>2, <1>5
    <2> QED
      BY <2>1, <2>2 DEF Fine, Kept, Story
  <1> QED
    BY <1>1, <1>4, <1>5 DEF Between

\* A step of a handler at work changes the contract it holds, and what the
\* store has of it, and no other; when it ends, the contract is fine.
LEMMA BetweenStep ==
    ASSUME OneAtATime, BetweenInv, NEW t \in Handlers, NEW r, NEW k, th[t].pc # "idle",
           k = th[t].contract, th' = [th EXCEPT ![t] = r],
           r.pc # "idle" => r.contract = k /\ Working(r)',
           r.pc = "idle" /\ registry'[k] # 0 => Fine(k, heap[registry[k]])',
           UNCHANGED steered, \A c \in errored : c # k => c \in errored',
           \A c \in ContractId : c # k => saved'[c] = saved[c] /\ registry'[c] = registry[c],
           \A o \in 1 .. Len(heap) : o # th[t].obj => heap'[o] = heap[o]
    PROVE  Between'
  <1>1. IInv /\ Between
    BY DEF BetweenInv, SerialInv
  <1>2. /\ th = [u \in Handlers |-> th[u]]
        /\ registry \in [ContractId -> 0 .. Len(heap)] /\ Len(heap) \in Nat
        /\ th[t].obj \in 1 .. Len(heap) /\ th[t].obj # 0
    BY <1>1, HandlerProps, HolderProps DEF IInv, Typed
  <1>3. \A u \in Handlers : u = t /\ th'[u] = r
    BY <1>2 DEF OneAtATime
  <1>4. \A u \in Handlers : th'[u].pc # "idle" => Working(th[u])'
    BY <1>3 DEF Working
  <1>5. ASSUME NEW c \in ContractId, registry'[c] # 0, r.pc = "idle" \/ r.contract # c
        PROVE  Fine(c, heap[registry[c]])'
    <2>1. CASE c = k
      BY <1>5, <2>1
    <2>2. CASE c # k
      <3>1. registry'[c] = registry[c] /\ saved'[c] = saved[c]
        BY <2>2
      <3>2. Fine(c, heap[registry[c]])
        BY <1>1, <1>3, <1>5, <2>2, <3>1 DEF Between
      <3>3. PICK owner : OwnedBy(owner)
        BY <1>1 DEF IInv, Owned
      <3>4. owner[registry[c]] = c /\ owner[th[t].obj] = k
        BY <1>2, <1>5, <3>1, <3>3 DEF OwnedBy
      <3>5. registry[c] \in 1 .. Len(heap) /\ registry[c] # th[t].obj
        BY <1>2, <1>5, <2>2, <3>1, <3>4
      <3>6. heap'[registry'[c]] = heap[registry[c]]
        BY <3>1, <3>5
      <3> QED
        BY <2>2, <3>1, <3>2, <3>6 DEF Fine, Kept, Story
    <2> QED
      BY <2>1, <2>2
  <1>6. ASSUME NEW c \in ContractId, registry'[c] # 0,
               \A u \in Handlers : th'[u].pc = "idle" \/ th'[u].contract # c
        PROVE  Fine(c, heap[registry[c]])'
    BY <1>3, <1>5, <1>6
  <1> QED
    BY <1>4, <1>6 DEF Between

\* Requests that sign nothing: what will be written tells the same story.
LEMMA ServeBetween ==
    ASSUME OneAtATime, BetweenInv, NEW t \in Handlers, NEW c \in ContractId, Ready(t, c),
           NEW op, NEW id, NEW targets, NEW mark,
           Serve(t, op, c, id, "write", targets, mark),
           UNCHANGED <<heap, registry, saved, errored>>, steered \subseteq steered',
           c \in steered' \/
             \A r : r.targets = targets /\ r.mark = mark /\ r.milestone = id
                    => Told(Written(r, heap[registry[c]])),
           Tail(targets) # <<>> => mark = "none" /\ targets = <<"FUNDED", "IN_PROGRESS">>
    PROVE  Between'
  <1>1. PICK r : r = [Idle EXCEPT !.pc = "write", !.op = op, !.contract = c,
                    !.obj = registry[c], !.milestone = id, !.targets = targets,
                    !.mark = mark]
    OBVIOUS
  <1>2. /\ r.pc = "write" /\ r.contract = c /\ r.obj = registry[c]
        /\ r.milestone = id /\ r.targets = targets /\ r.mark = mark
    BY <1>1 DEF Idle
  <1>3. th' = [th EXCEPT ![t] = r] /\ th[t].pc = "idle"
    BY <1>1 DEF Serve, Ready
  <1>4. c \in steered' \/ Told(Written(r, heap[registry[c]]))
    BY <1>2
  <1>5. Working(r)'
    BY <1>2, <1>4 DEF Working, Story
  <1> QED
    BY <1>2, <1>3, <1>5, RequestStep

\* Requests that sign a transaction change nothing yet.
LEMMA SignBetween ==
    ASSUME OneAtATime, BetweenInv, NEW t \in Handlers, NEW c \in ContractId, Ready(t, c),
           NEW op, NEW id, NEW type, NEW to, NEW amount, NEW terminate,
           Sign(t, op, c, id, type, to, amount, terminate),
           op = "arbitrate" => heap[registry[c]].state = "DISPUTED"
    PROVE  Between'
  <1>1. PICK r : /\ r.pc = "submit" /\ r.op = op /\ r.contract = c
                 /\ r.obj = registry[c] /\ th' = [th EXCEPT ![t] = r]
    BY DEF Sign, Idle
  <1>2. UNCHANGED <<heap, registry, saved, steered, errored>>
    BY DEF Sign
  <1>3. Fine(c, heap[registry[c]]) /\ th[t].pc = "idle"
    BY RequestDeal
  <1>4. Working(r)'
    BY <1>1, <1>2, <1>3 DEF Working, Fine, Kept, Story
  <1> QED
    BY <1>1, <1>2, <1>3, <1>4, RequestStep

\* The requests.
LEMMA RequestBetween ==
    ASSUME OneAtATime, BetweenInv, NEW t \in Handlers, Request(t)
    PROVE  Between'
  <1>1. IInv /\ Between /\ Len(heap) \in Nat /\ heap \in Seq(Contract)
    BY HandlerProps DEF BetweenInv, SerialInv, IInv, Typed
  <1>2. {"MILESTONE_REVIEW", "DISPUTED", "FUNDED", "DRAFT", "PENDING_SIGNATURE", "SIGNED"}
            \subseteq ContractState
    BY DEF ContractState, validTransitions
  <1>3. CASE CreateContract(t)
    <2>1. PICK c \in ContractId, offer \in Offers :
            /\ th[t].pc = "idle" /\ registry[c] = 0
            /\ heap' = Append(heap, NewContract(offer))
            /\ th' = [th EXCEPT ![t] = [Idle EXCEPT !.pc = "put", !.op = "create",
                                    !.contract = c, !.obj = Len(heap) + 1]]
            /\ UNCHANGED <<registry, saved, steered, errored>>
      BY <1>3 DEF CreateContract
    <2>2. PICK n \in Nat, m \in Nat : n = Len(heap) /\ m = n + 1
      BY <1>1
    <2>3. PICK r : r = [Idle EXCEPT !.pc = "put", !.op = "create", !.contract = c,
                                    !.obj = m]
      OBVIOUS
    <2>4. r.pc = "put" /\ r.obj = m /\ th' = [th EXCEPT ![t] = r]
      BY <2>1, <2>2, <2>3 DEF Idle
    <2>5. heap'[m] = NewContract(offer) /\ \A o \in 1 .. Len(heap) : heap'[o] = heap[o]
      BY <1>1, <2>1, <2>2
    <2>6. Told(NewContract(offer))
      BY ToldNew
    <2>7. Working(r)'
      BY <2>4, <2>5, <2>6 DEF Working, Story
    <2> QED
      BY <2>1, <2>4, <2>5, <2>7, RequestStep
  <1>4. CASE AdvanceContract(t)
    <2>1. PICK c \in ContractId, to \in AdvanceTargets :
            /\ Ready(t, c) /\ Transition(heap[registry[c]].state, to)
            /\ Serve(t, "advance", c, "none", "write", <<to>>, "none")
            /\ steered' = IF to \in Signing THEN steered ELSE steered \cup {c}
            /\ UNCHANGED <<heap, registry, saved, errored>>
      BY <1>4 DEF AdvanceContract
    <2>2. PICK deal \in Contract : deal = heap[registry[c]]
      BY <2>1, RequestDeal
    <2>3. Tail(<<to>>) = <<>> /\ steered \subseteq steered'
      BY <2>1
    <2> SUFFICES ASSUME c \notin steered'
                 PROVE  Between'
      BY <2>1, <2>3, ServeBetween
    <2>4. to \in Signing /\ c \notin steered
      BY <2>1
    <2>5. Told(deal) /\ deal.state \in ContractState /\ Transition(deal.state, to)
      BY <2>1, <2>2, <2>4, RequestDeal DEF Fine, Story
    <2>6. to \in ContractState /\ to \in {"DRAFT", "PENDING_SIGNATURE", "SIGNED"}
      BY <2>4, <2>5, TransitionKnown DEF Signing
    <2>7. deal.state \in {"DRAFT", "PENDING_SIGNATURE"}
      BY <2>5, <2>6, Lifecycle
    <2>8. With(deal, "SUBMITTED") = {} /\ With(deal, "PENDING") = DOMAIN deal.milestones
      BY <2>5, <2>7 DEF Told
    <2>9. Told([deal EXCEPT !.state = to])
      BY <2>6, <2>8, ToldMoves
    <2>10. \A r : r.targets = <<to>> /\ r.mark = "none" /\ r.milestone = "none"
                    => Told(Written(r, deal))
      BY <2>9 DEF Written
    <2> QED
      BY <2>1, <2>2, <2>3, <2>10, ServeBetween
  <1>5. CASE ConfirmFunded(t)
    <2>1. PICK c \in ContractId :
            /\ Ready(t, c) /\ Transition(heap[registry[c]].state, "FUNDED")
            /\ Serve(t, "confirm", c, "none", "write", <<"FUNDED", "IN_PROGRESS">>, "none")
            /\ UNCHANGED <<heap, registry, saved, steered, errored>>
      BY <1>5 DEF ConfirmFunded
    <2>2. PICK deal \in Contract : deal = heap[registry[c]]
      BY <2>1, RequestDeal
    <2> SUFFICES ASSUME c \notin steered
                 PROVE  Between'
      BY <2>1, ServeBetween
    <2>3. Told(deal) /\ deal.state \in ContractState /\ Transition(deal.state, "FUNDED")
      BY <2>1, <2>2, RequestDeal DEF Fine, Story
    <2>4. deal.state = "SIGNED"
      BY <2>3, Lifecycle
    <2>5. With(deal, "SUBMITTED") = {} /\ With(deal, "PENDING") = DOMAIN deal.milestones
      BY <2>3, <2>4 DEF Told
    <2>6. Told([deal EXCEPT !.state = "FUNDED"])
      BY <1>2, <2>5, ToldMoves
    <2>7. \A r : r.targets = <<"FUNDED", "IN_PROGRESS">> /\ r.mark = "none"
                 /\ r.milestone = "none" => Told(Written(r, deal))
      BY <2>6 DEF Written
    <2> QED
      BY <2>1, <2>2, <2>7, ServeBetween
  <1>6. CASE SubmitMilestone(t)
    <2>1. PICK c \in ContractId, id \in MilestoneId :
            /\ Ready(t, c) /\ SubmitAllowed(heap[registry[c]], id)
            /\ Serve(t, "submit", c, id, "write", <<"MILESTONE_REVIEW">>, "SUBMITTED")
            /\ UNCHANGED <<heap, registry, saved, steered, errored>>
      BY <1>6 DEF SubmitMilestone
    <2>2. PICK deal \in Contract : deal = heap[registry[c]]
      BY <2>1, RequestDeal
    <2> SUFFICES ASSUME c \notin steered
                 PROVE  Between'
      <3>1. Tail(<<"MILESTONE_REVIEW">>) = <<>>
        OBVIOUS
      <3> QED
        BY <2>1, <3>1, ServeBetween
    <2>3. /\ Told(deal) /\ deal.state \in ContractState
          /\ HasStatus(deal, id, "PENDING") /\ Transition(deal.state, "MILESTONE_REVIEW")
      BY <2>1, <2>2, RequestDeal DEF Fine, Story, SubmitAllowed
    <2>4. With(deal, "SUBMITTED") = {}
      BY <2>3, Lifecycle DEF Told
    <2>5. PICK next \in Contract : /\ next = [deal EXCEPT !.state = "MILESTONE_REVIEW"]
                                   /\ next.state = "MILESTONE_REVIEW"
                                   /\ next.milestones = deal.milestones
                                   /\ With(next, "SUBMITTED") = {}
      <3>1. PICK next : next = [deal EXCEPT !.state = "MILESTONE_REVIEW"]
        OBVIOUS
      <3>2. /\ next \in Contract /\ next.state = "MILESTONE_REVIEW"
            /\ next.milestones = deal.milestones
        BY <1>2, <3>1 DEF Contract
      <3>3. With(next, "SUBMITTED") = {}
        BY <2>4, <3>2 DEF With
      <3> QED
        BY <3>1, <3>2, <3>3
    <2>6. HasStatus(next, id, "PENDING")
      BY <2>3, <2>5 DEF HasStatus, findMilestone
    <2>7. PICK e, k : e = SetStatus(next, id, "SUBMITTED") /\ k = findMilestone(next, id)
      OBVIOUS
    <2>8. e.state = "MILESTONE_REVIEW" /\ k \in DOMAIN e.milestones
          /\ With(e, "SUBMITTED") = {k}
      <3>1. "SUBMITTED" \in MilestoneStatus
        BY DEF MilestoneStatus
      <3>2. k # 0
        BY <2>5, <2>6, <2>7, FoundWith
      <3>3. /\ e.state = next.state /\ k \in DOMAIN next.milestones
            /\ DOMAIN e.milestones = DOMAIN next.milestones
            /\ With(e, "SUBMITTED") = With(next, "SUBMITTED") \cup {k}
        BY <2>7, <3>1, <3>2, MarkMoves
      <3> QED
        BY <2>5, <3>3
    <2>9. Told(e)
      BY <2>8 DEF Told
    <2>10. \A r : r.targets = <<"MILESTONE_REVIEW">> /\ r.mark = "SUBMITTED"
                  /\ r.milestone = id => Told(Written(r, deal))
      BY <2>5, <2>7, <2>9 DEF Written
    <2>11. Tail(<<"MILESTONE_REVIEW">>) = <<>>
      OBVIOUS
    <2> QED
      BY <2>1, <2>2, <2>10, <2>11, ServeBetween
  <1>7. CASE DisputeMilestone(t)
    <2>1. PICK c \in ContractId, id \in MilestoneId :
            /\ Ready(t, c) /\ DisputeAllowed(heap[registry[c]], id)
            /\ Serve(t, "dispute", c, id, "write", <<"DISPUTED">>, "DISPUTED")
            /\ UNCHANGED <<heap, registry, saved, steered, errored>>
      BY <1>7 DEF DisputeMilestone
    <2>2. PICK deal \in Contract : deal = heap[registry[c]]
      BY <2>1, RequestDeal
    <2> SUFFICES ASSUME c \notin steered
                 PROVE  Between'
      <3>1. Tail(<<"DISPUTED">>) = <<>>
        OBVIOUS
      <3> QED
        BY <2>1, <3>1, ServeBetween
    <2>3. /\ Told(deal) /\ deal.state \in ContractState
          /\ HasStatus(deal, id, "SUBMITTED") /\ Transition(deal.state, "DISPUTED")
      BY <2>1, <2>2, RequestDeal DEF Fine, Story, DisputeAllowed
    <2>4. PICK i : With(deal, "SUBMITTED") = {i}
      BY <2>3, Lifecycle DEF Told
    <2>5. PICK next \in Contract : /\ next = [deal EXCEPT !.state = "DISPUTED"]
                                   /\ next.state = "DISPUTED"
                                   /\ next.milestones = deal.milestones
                                   /\ With(next, "SUBMITTED") = {i}
      <3>1. PICK next : next = [deal EXCEPT !.state = "DISPUTED"]
        OBVIOUS
      <3>2. /\ next \in Contract /\ next.state = "DISPUTED"
            /\ next.milestones = deal.milestones
        BY <1>2, <3>1 DEF Contract
      <3>3. With(next, "SUBMITTED") = With(deal, "SUBMITTED")
        BY <3>2 DEF With
      <3> QED
        BY <2>4, <3>1, <3>2, <3>3
    <2>6. HasStatus(next, id, "SUBMITTED")
      BY <2>3, <2>5 DEF HasStatus, findMilestone
    <2>7. PICK e, k : e = SetStatus(next, id, "DISPUTED") /\ k = findMilestone(next, id)
      OBVIOUS
    <2>8. k # 0 /\ k = i
      BY <2>5, <2>6, <2>7, FoundWith
    <2>9. e.state = "DISPUTED" /\ With(e, "SUBMITTED") = {} /\ With(e, "DISPUTED") # {}
      <3>1. {"SUBMITTED", "DISPUTED"} \subseteq MilestoneStatus
        BY DEF MilestoneStatus
      <3>2. k # 0
        BY <2>8
      <3>3. e.state = next.state
            /\ With(e, "DISPUTED") = With(next, "DISPUTED") \cup {k}
        BY <2>7, <3>1, <3>2, MarkMoves
      <3>4. With(e, "SUBMITTED") = With(next, "SUBMITTED") \ {k}
        BY <2>7, <3>1, MarkMoves
      <3> QED
        BY <2>5, <2>8, <3>3, <3>4
    <2>10. Told(e)
      BY <2>9 DEF Told
    <2>11. \A r : r.targets = <<"DISPUTED">> /\ r.mark = "DISPUTED"
                  /\ r.milestone = id => Told(Written(r, deal))
      BY <2>5, <2>7, <2>10 DEF Written
    <2>12. Tail(<<"DISPUTED">>) = <<>>
      OBVIOUS
    <2> QED
      BY <2>1, <2>2, <2>11, <2>12, ServeBetween
  <1>8. CASE ReleaseMilestone(t)
    BY <1>8, SignBetween DEF ReleaseMilestone
  <1>9. CASE Arbitrate(t)
    BY <1>9, SignBetween DEF Arbitrate, ArbitrationAllowed
  <1>10. CASE Refund(t)
    BY <1>10, SignBetween DEF Refund
  <1> QED
    BY <1>3, <1>4, <1>5, <1>6, <1>7, <1>8, <1>9, <1>10 DEF Request

\* What a handler at work holds, and the map entry of its contract.
LEMMA WorkerProps ==
    ASSUME BetweenInv, NEW t \in Handlers, th[t].pc # "idle"
    PROVE  /\ IInv /\ SerialOK(th[t]) /\ Working(th[t]) /\ HandlerOK(th[t])
           /\ DOMAIN th[t] = HandlerFields /\ th[t].contract \in ContractId
           /\ th[t].obj \in 1 .. Len(heap) /\ th[t].obj # 0
           /\ DOMAIN heap = 1 .. Len(heap) /\ heap[th[t].obj] = Held(t)
           /\ Held(t) \in Contract /\ Held(t).state \in ContractState
           /\ registry \in [ContractId -> 0 .. Len(heap)]
           /\ saved \in [ContractId -> Contract \cup {Unsaved}]
           /\ th = [u \in Handlers |-> th[u]]
  <1>1. IInv /\ SerialOK(th[t]) /\ Working(th[t])
    BY DEF BetweenInv, SerialInv, Once, Between
  <1>2. /\ HandlerOK(th[t]) /\ DOMAIN heap = 1 .. Len(heap) /\ Held(t) \in Contract
        /\ heap[th[t].obj] = Held(t)
    BY <1>1, HandlerProps DEF Held
  <1>3. /\ DOMAIN th[t] = HandlerFields /\ th[t].contract \in ContractId
        /\ th[t].obj \in 1 .. Len(heap) /\ th[t].obj # 0
        /\ th = [u \in Handlers |-> th[u]]
    BY <1>1, HolderProps
  <1>4. Held(t).state \in ContractState
    BY <1>2 DEF Contract
  <1>5. /\ registry \in [ContractId -> 0 .. Len(heap)]
        /\ saved \in [ContractId -> Contract \cup {Unsaved}]
    BY <1>1 DEF IInv, Typed, SavedOK
  <1> QED
    BY <1>1, <1>2, <1>3, <1>4, <1>5

\* The map names the object of a handler that has not just created it.
LEMMA Mapped ==
    ASSUME NEW r, SerialOK(r), r.pc # "idle", r.pc # "put"
    PROVE  registry[r.contract] = r.obj
  BY DEF SerialOK

\* A step of a handler at work that leaves its contract alone.
LEMMA SameDealStep ==
    ASSUME OneAtATime, BetweenInv, NEW t \in Handlers, NEW r, th[t].pc # "idle",
           th' = [th EXCEPT ![t] = r], r.contract = th[t].contract, Working(r)',
           UNCHANGED <<heap, saved, steered, errored>>,
           \A c \in ContractId : c # th[t].contract => registry'[c] = registry[c],
           r.pc # "idle"
    PROVE  Between'
  <1>1. PICK k : k = th[t].contract
    OBVIOUS
  <1> QED
    BY <1>1, BetweenStep

\* A handler ends with its contract in order.
LEMMA EndStep ==
    ASSUME OneAtATime, BetweenInv, NEW t \in Handlers, NEW k, NEW deal,
           th[t].pc \notin {"idle", "put"}, k = th[t].contract, deal = Held(t),
           th' = [th EXCEPT ![t] = Idle], UNCHANGED <<heap, registry, steered>>,
           \A c \in ContractId : c # k => saved'[c] = saved[c],
           \A c \in errored : c # k => c \in errored', Fine(k, deal)'
    PROVE  Between'
  <1>1. registry[k] = th[t].obj /\ deal = heap[th[t].obj]
    BY WorkerProps, Mapped
  <1>2. PICK r : r = Idle
    OBVIOUS
  <1>3. r.pc = "idle"
    BY <1>2 DEF Idle
  <1>4. Fine(k, heap[registry[k]])'
    BY <1>1
  <1> QED
    BY <1>2, <1>3, <1>4, BetweenStep

\* submitTx changes no contract: a rejected transaction leaves everything in
\* order, an accepted one leaves the work to the next step.
LEMMA SubmitTxBetween ==
    ASSUME OneAtATime, BetweenInv, NEW t \in Handlers, SubmitTx(t)
    PROVE  Between'
  <1>1. th[t].pc = "submit" /\ UNCHANGED <<heap, registry, saved, steered, errored>>
    BY DEF SubmitTx
  <1>2. PICK k, deal : k = th[t].contract /\ deal = Held(t)
    OBVIOUS
  <1>3. /\ Fine(k, deal)
        /\ th[t].op = "arbitrate" => deal.state = "DISPUTED"
    BY <1>1, <1>2, WorkerProps DEF Working
  <1>4. Fine(k, deal)'
    BY <1>1, <1>3 DEF Fine, Kept, Story
  <1>5. CASE ValidateTransaction(th[t].tx, state)
    <2>1. PICK r : r = [th[t] EXCEPT !.pc = "resolve", !.tx = NoTx]
      OBVIOUS
    <2>2. th' = [th EXCEPT ![t] = r]
      BY <1>1, <1>5, <2>1, WorkerProps DEF SubmitTx
    <2>3. r.pc = "resolve" /\ r.op = th[t].op /\ r.contract = k /\ r.obj = th[t].obj
      BY <1>1, <1>2, <2>1, WorkerProps DEF HandlerFields
    <2>4. heap'[r.obj] = deal
      BY <1>1, <1>2, <2>3, WorkerProps
    <2>5. Working(r)'
      BY <1>3, <1>4, <2>3, <2>4 DEF Working
    <2> QED
      BY <1>1, <1>2, <2>2, <2>3, <2>5, SameDealStep
  <1>6. CASE ~ValidateTransaction(th[t].tx, state)
    <2>1. th' = [th EXCEPT ![t] = Idle]
      BY <1>6 DEF SubmitTx, SubmitFailed
    <2> QED
      BY <1>1, <1>2, <1>3, <1>4, <2>1, EndStep
  <1> QED
    BY <1>5, <1>6

\* A change that Advance can follow, or that leaves the contract in order.
LEMMA ChangeBetween ==
    ASSUME OneAtATime, BetweenInv, NEW t \in Handlers, NEW deal, NEW to, NEW k,
           k = th[t].contract, th[t].pc = "resolve", ChangeThenAdvance(t, deal, to),
           Story(k, IF Transition(deal.state, to) THEN [deal EXCEPT !.state = to]
                    ELSE deal)
    PROVE  Between'
  <1>1. PICK r : r = [th[t] EXCEPT !.pc = "check", !.targets = <<to>>]
    OBVIOUS
  <1>2. /\ th' = [th EXCEPT ![t] = r] /\ heap' = [heap EXCEPT ![th[t].obj] = deal]
        /\ UNCHANGED <<registry, saved, steered, errored>>
    BY <1>1, WorkerProps DEF ChangeThenAdvance
  <1>3. r.pc = "check" /\ r.targets = <<to>> /\ r.contract = k /\ r.obj = th[t].obj
    BY <1>1, WorkerProps DEF HandlerFields
  <1>4. /\ heap'[r.obj] = deal
        /\ \A o \in 1 .. Len(heap) : o # th[t].obj => heap'[o] = heap[o]
    BY <1>2, <1>3, WorkerProps
  <1>5. Head(r.targets) = to /\ Tail(r.targets) = <<>>
    BY <1>3
  <1>6. Working(r)'
    BY <1>2, <1>3, <1>4, <1>5 DEF Working, Story
  <1> QED
    BY <1>2, <1>3, <1>4, <1>6, BetweenStep

\* The milestone of a release is the submitted one, so nothing is submitted
\* once it is approved, and the contract can leave its review.
LEMMA ApproveMilestoneBetween ==
    ASSUME OneAtATime, BetweenInv, NEW t \in Handlers, ApproveMilestone(t)
    PROVE  Between'
  <1>1. PICK k, id, e, to : /\ k = th[t].contract /\ id = th[t].milestone
                            /\ e = Approved(Held(t), id) /\ to = AfterApproval(e)
    OBVIOUS
  <1>2. th[t].pc = "resolve" /\ th[t].op = "release" /\ ChangeThenAdvance(t, e, to)
    BY <1>1 DEF ApproveMilestone
  <1> SUFFICES ASSUME k \notin steered
               PROVE  Between'
    BY <1>1, <1>2, ChangeBetween DEF Story
  <1>3. PICK deal \in Contract : deal = Held(t)
    BY <1>2, WorkerProps
  <1>4. Told(deal) /\ HasStatus(deal, id, "SUBMITTED")
    BY <1>1, <1>2, <1>3, WorkerProps DEF SerialOK, Working, Fine, Story
  <1>5. PICK i : i = findMilestone(deal, id)
    OBVIOUS
  <1>6. i # 0 /\ i \in With(deal, "SUBMITTED")
    BY <1>4, <1>5, FoundWith
  <1>7. deal.state = "MILESTONE_REVIEW" /\ With(deal, "SUBMITTED") = {i}
    BY <1>4, <1>6 DEF Told
  <1>8. "APPROVED" \in MilestoneStatus
    BY DEF MilestoneStatus
  <1>9. e = SetStatus(deal, id, "APPROVED")
    BY <1>1, <1>3 DEF Approved
  <1>10. /\ e \in Contract /\ e.state = deal.state
         /\ With(e, "SUBMITTED") = With(deal, "SUBMITTED") \ {i}
    BY <1>5, <1>8, <1>9, MarkMoves
  <1>11. With(e, "SUBMITTED") = {} /\ e.state = "MILESTONE_REVIEW"
    BY <1>7, <1>10
  <1>12. /\ to \in {"COMPLETED", "IN_PROGRESS"} /\ to \in ContractState
         /\ to = "COMPLETED" => RemainingAmount(e.milestones) = 0
    BY <1>1 DEF AfterApproval, ContractState, validTransitions
  <1>13. Told([e EXCEPT !.state = to])
    BY <1>10, <1>11, <1>12, ToldMoves
  <1>14. Transition(e.state, to)
    BY <1>11, <1>12, Lifecycle DEF ContractState, validTransitions
  <1> QED
    BY <1>1, <1>2, <1>13, <1>14, ChangeBetween DEF Story

\* An award resumes or ends the contract, or it was that of the last open
\* milestone, which Advance refuses.
LEMMA ResolveArbitrationBetween ==
    ASSUME OneAtATime, BetweenInv, NEW t \in Handlers, ResolveArbitration(t)
    PROVE  Between'
  <1>1. PICK k, id, e, to :
            /\ k = th[t].contract /\ id = th[t].milestone
            /\ e = IF th[t].terminate THEN Held(t) ELSE Approved(Held(t), id)
            /\ to = IF th[t].terminate THEN "TERMINATED" ELSE AfterApproval(e)
    OBVIOUS
  <1>2. th[t].pc = "resolve" /\ th[t].op = "arbitrate" /\ ChangeThenAdvance(t, e, to)
    BY <1>1 DEF ResolveArbitration
  <1> SUFFICES ASSUME k \notin steered
               PROVE  Between'
    BY <1>1, <1>2, ChangeBetween DEF Story
  <1>3. PICK deal \in Contract : deal = Held(t)
    BY <1>2, WorkerProps
  <1>4. Told(deal) /\ deal.state = "DISPUTED"
    BY <1>1, <1>2, <1>3, WorkerProps DEF Working, Fine, Story
  <1>5. With(deal, "SUBMITTED") = {}
    BY <1>4 DEF Told
  <1>6. "APPROVED" \in MilestoneStatus /\ "TERMINATED" \in ContractState
    BY DEF MilestoneStatus, ContractState, validTransitions
  <1>7. e \in Contract /\ e.state = "DISPUTED" /\ With(e, "SUBMITTED") = {}
    <2>1. CASE th[t].terminate
      BY <1>1, <1>3, <1>4, <1>5, <2>1
    <2>2. CASE ~th[t].terminate
      <3>1. e = SetStatus(deal, id, "APPROVED")
        BY <1>1, <1>3, <2>2 DEF Approved
      <3>2. /\ e \in Contract /\ e.state = deal.state
            /\ With(e, "SUBMITTED") = With(deal, "SUBMITTED") \ {findMilestone(deal, id)}
        BY <1>6, <3>1, MarkMoves
      <3> QED
        BY <1>4, <1>5, <3>2
    <2> QED
      BY <2>1, <2>2
  <1>8. CASE to \in {"TERMINATED", "IN_PROGRESS"}
    <2>1. to \in ContractState
      BY <1>6, <1>8 DEF ContractState, validTransitions
    <2>2. Told([e EXCEPT !.state = to])
      BY <1>7, <1>8, <2>1, ToldMoves
    <2>3. Transition(e.state, to)
      BY <1>7, <1>8 DEF Transition, validTransitions
    <2> QED
      BY <1>1, <1>2, <2>2, <2>3, ChangeBetween DEF Story
  <1>9. CASE to = "COMPLETED"
    <2>1. RemainingAmount(e.milestones) = 0
      BY <1>1, <1>9 DEF AfterApproval
    <2>2. Told(e)
      BY <1>7, <2>1 DEF Told
    <2>3. ~Transition(e.state, to)
      BY <1>7, <1>9 DEF Transition, validTransitions
    <2> QED
      BY <1>1, <1>2, <2>2, <2>3, ChangeBetween DEF Story
  <1> QED
    BY <1>1, <1>8, <1>9 DEF AfterApproval

\* A refund terminates a contract that has nothing submitted, or leaves it.
LEMMA TerminateBetween ==
    ASSUME OneAtATime, BetweenInv, NEW t \in Handlers, Terminate(t)
    PROVE  Between'
  <1>1. th[t].pc = "resolve" /\ ChangeThenAdvance(t, Held(t), "TERMINATED")
    BY DEF Terminate
  <1>2. PICK k, deal : k = th[t].contract /\ deal = Held(t)
    OBVIOUS
  <1>3. deal \in Contract /\ deal.state \in ContractState /\ Story(k, deal)
    BY <1>1, <1>2, WorkerProps DEF Working, Fine
  <1> SUFFICES ASSUME k \notin steered
               PROVE  Between'
    BY <1>1, <1>2, ChangeBetween DEF Story
  <1>4. ASSUME Transition(deal.state, "TERMINATED")
        PROVE  Told([deal EXCEPT !.state = "TERMINATED"])
    <2>1. deal.state \in {"IN_PROGRESS", "DISPUTED"}
      BY <1>3, <1>4, Lifecycle
    <2>2. With(deal, "SUBMITTED") = {}
      BY <1>3, <2>1 DEF Story, Told
    <2>3. "TERMINATED" \in ContractState
      BY DEF ContractState, validTransitions
    <2> QED
      BY <1>3, <2>2, <2>3, ToldMoves
  <1> QED
    BY <1>1, <1>2, <1>3, <1>4, ChangeBetween DEF Story

\* The test of Advance: a handler that ends has left its contract in order.
LEMMA CheckAdvanceBetween ==
    ASSUME OneAtATime, BetweenInv, NEW t \in Handlers, CheckAdvance(t)
    PROVE  Between'
  <1>1. th[t].pc = "check" /\ UNCHANGED <<heap, registry, saved, steered>>
    BY DEF CheckAdvance
  <1>2. PICK k, deal, to : /\ k = th[t].contract /\ deal = Held(t)
                           /\ to = Head(th[t].targets)
    OBVIOUS
  <1>3. /\ th[t].mark = "none" /\ Tail(th[t].targets) = <<>>
        /\ Story(k, IF Transition(deal.state, to) THEN [deal EXCEPT !.state = to]
                    ELSE deal)
    BY <1>1, <1>2, WorkerProps DEF SerialOK, Working
  <1>4. CASE Transition(deal.state, to)
    <2>1. PICK r : r = [th[t] EXCEPT !.pc = "write"]
      OBVIOUS
    <2>2. th' = [th EXCEPT ![t] = r] /\ UNCHANGED errored
      BY <1>1, <1>2, <1>4, <2>1, WorkerProps DEF CheckAdvance
    <2>3. /\ r.pc = "write" /\ r.contract = k /\ r.obj = th[t].obj
          /\ r.targets = th[t].targets /\ r.mark = "none"
      BY <1>1, <1>2, <1>3, <2>1, WorkerProps DEF HandlerFields
    <2>4. heap'[r.obj] = deal
      BY <1>1, <1>2, <2>3, WorkerProps
    <2>5. Written(r, deal) = [deal EXCEPT !.state = to]
      BY <1>2, <2>3 DEF Written
    <2>6. Story(k, Written(r, deal))'
      BY <1>1, <1>3, <1>4, <2>5 DEF Story
    <2>7. Working(r)'
      BY <1>2, <1>3, <2>3, <2>4, <2>6 DEF Working, Written, Story
    <2> QED
      BY <1>1, <1>2, <2>2, <2>3, <2>7, SameDealStep
  <1>5. CASE ~Transition(deal.state, to)
    <2>1. th' = [th EXCEPT ![t] = Idle] /\ errored' = errored \cup {k}
      BY <1>1, <1>2, <1>5, WorkerProps DEF CheckAdvance
    <2>2. Fine(k, deal)'
      BY <1>1, <1>3, <1>5, <2>1 DEF Fine, Kept, Story
    <2> QED
      BY <1>1, <1>2, <1>3, <2>1, <2>2, EndStep
  <1> QED
    BY <1>4, <1>5

\* Only the confirmation of funding has a second state to go to.
LEMMA WriteStateBetween ==
    ASSUME OneAtATime, BetweenInv, NEW t \in Handlers, WriteState(t)
    PROVE  Between'
  <1>1. PICK k, deal, e, rest :
            /\ k = th[t].contract /\ deal = Held(t) /\ e = Written(th[t], deal)
            /\ rest = Tail(th[t].targets)
    OBVIOUS
  <1>2. /\ th[t].pc = "write" /\ heap' = [heap EXCEPT ![th[t].obj] = e]
        /\ UNCHANGED <<registry, saved, steered, errored>>
    BY <1>1 DEF WriteState, Written
  <1>3. /\ Story(k, e) /\ deal \in Contract
        /\ rest # <<>> => th[t].mark = "none" /\ th[t].targets = <<"FUNDED", "IN_PROGRESS">>
    BY <1>1, <1>2, WorkerProps DEF Working
  <1>4. PICK r : r = [th[t] EXCEPT !.targets = rest, !.pc = AfterWrite(th[t].op, rest)]
    OBVIOUS
  <1>5. th' = [th EXCEPT ![t] = r]
    BY <1>1, <1>2, <1>4, WorkerProps DEF WriteState
  <1>6. /\ r.contract = k /\ r.obj = th[t].obj /\ r.targets = rest
        /\ r.pc = IF rest # <<>> THEN "check" ELSE "put"
    BY <1>1, <1>2, <1>4, WorkerProps DEF HandlerFields, AfterWrite
  <1>7. /\ heap'[r.obj] = e
        /\ \A o \in 1 .. Len(heap) : o # th[t].obj => heap'[o] = heap[o]
    BY <1>2, <1>6, WorkerProps
  <1>8. Working(r)'
    <2>1. CASE rest = <<>>
      BY <1>2, <1>3, <1>6, <1>7, <2>1 DEF Working, Story
    <2>2. CASE rest # <<>>
      <3>1. /\ rest = <<"IN_PROGRESS">> /\ Head(th[t].targets) = "FUNDED"
            /\ Head(rest) = "IN_PROGRESS" /\ Tail(rest) = <<>>
        <4>1. PICK u : u = th[t].targets
          OBVIOUS
        <4>2. u = <<"FUNDED", "IN_PROGRESS">> /\ rest = Tail(u)
          BY <1>1, <1>3, <2>2, <4>1
        <4>3. Head(u) = "FUNDED" /\ rest = <<"IN_PROGRESS">>
          BY <4>2
        <4>4. Head(<<"IN_PROGRESS">>) = "IN_PROGRESS" /\ Tail(<<"IN_PROGRESS">>) = <<>>
          OBVIOUS
        <4> QED
          BY <4>1, <4>3, <4>4
      <3>2. e = [deal EXCEPT !.state = "FUNDED"]
        BY <1>1, <1>3, <2>2, <3>1 DEF Written
      <3>3. {"FUNDED", "IN_PROGRESS"} \subseteq ContractState
        BY DEF ContractState, validTransitions
      <3>4. e \in Contract /\ e.state = "FUNDED"
        BY <1>3, <3>2, <3>3 DEF Contract
      <3>5. k \in steered \/ With(e, "SUBMITTED") = {}
        BY <1>3, <3>4 DEF Told, Story
      <3>6. k \in steered \/ Told([e EXCEPT !.state = "IN_PROGRESS"])
        BY <3>3, <3>4, <3>5, ToldMoves
      <3>7. Transition(e.state, "IN_PROGRESS")
        BY <3>4 DEF Transition, validTransitions
      <3> QED
        BY <1>2, <1>6, <1>7, <2>2, <3>1, <3>6, <3>7 DEF Working, Story
    <2> QED
      BY <2>1, <2>2
  <1> QED
    BY <1>1, <1>2, <1>3, <1>5, <1>6, <1>7, <1>8, BetweenStep

\* Save changes no contract; what it stores is what the object holds.
LEMMA SaveBetween ==
    ASSUME OneAtATime, BetweenInv, NEW t \in Handlers,
           PutContract(t) \/ Marshal(t) \/ SaveContract(t) \/ SaveContractFails(t)
    PROVE  Between'
  <1>1. PICK k, deal : k = th[t].contract /\ deal = Held(t)
    OBVIOUS
  <1>2. th[t].pc \in {"put", "marshal", "persist"} /\ UNCHANGED <<heap, steered>>
    BY DEF PutContract, Marshal, SaveContract, SaveContractFails
  <1>3. Story(k, deal) /\ heap'[th[t].obj] = deal
    BY <1>1, <1>2, WorkerProps DEF Working
  <1>4. CASE PutContract(t)
    <2>1. PICK r : r = [th[t] EXCEPT !.pc = "marshal"]
      OBVIOUS
    <2>2. /\ th' = [th EXCEPT ![t] = r] /\ UNCHANGED <<saved, errored>>
          /\ registry' = [registry EXCEPT ![th[t].contract] = th[t].obj]
      BY <1>2, <1>4, <2>1, WorkerProps DEF PutContract
    <2>3. r.pc = "marshal" /\ r.contract = k /\ r.obj = th[t].obj
      BY <1>1, <1>2, <2>1, WorkerProps DEF HandlerFields
    <2>4. Working(r)'
      BY <1>2, <1>3, <2>3 DEF Working, Story
    <2>5. \A c \in ContractId : c # th[t].contract => registry'[c] = registry[c]
      BY <1>2, <2>2, WorkerProps
    <2> QED
      BY <1>1, <1>2, <2>2, <2>3, <2>4, <2>5, SameDealStep
  <1>5. CASE Marshal(t)
    <2>1. PICK r : r = [th[t] EXCEPT !.pc = "persist", !.copy = Held(t)]
      OBVIOUS
    <2>2. th' = [th EXCEPT ![t] = r] /\ UNCHANGED <<registry, saved, errored>>
      BY <1>2, <1>5, <2>1, WorkerProps DEF Marshal
    <2>3. r.pc = "persist" /\ r.contract = k /\ r.obj = th[t].obj /\ r.copy = deal
      BY <1>1, <1>2, <2>1, WorkerProps DEF HandlerFields
    <2>4. Working(r)'
      BY <1>2, <1>3, <2>3 DEF Working, Story
    <2> QED
      BY <1>1, <1>2, <2>2, <2>3, <2>4, SameDealStep
  <1>6. CASE SaveContract(t)
    <2>1. /\ th[t].pc = "persist" /\ th' = [th EXCEPT ![t] = Idle]
          /\ saved' = [saved EXCEPT ![k] = th[t].copy] /\ errored' = errored \ {k} /\ UNCHANGED registry
      BY <1>1, <1>6 DEF SaveContract
    <2>2. th[t].copy = deal
      BY <1>1, <2>1, WorkerProps DEF Working
    <2>3. saved'[k] = deal /\ \A c \in ContractId : c # k => saved'[c] = saved[c]
      BY <1>1, <1>2, <2>1, <2>2, WorkerProps
    <2>4. Fine(k, deal)'
      BY <1>2, <1>3, <2>3 DEF Fine, Kept, Story
    <2> QED
      BY <1>1, <1>2, <1>3, <2>1, <2>3, <2>4, EndStep
  <1>7. CASE SaveContractFails(t)
    <2>1. /\ th[t].pc = "persist" /\ th' = [th EXCEPT ![t] = Idle]
          /\ errored' = errored \cup {k} /\ UNCHANGED <<registry, saved>>
      BY <1>1, <1>7 DEF SaveContractFails
    <2>2. Fine(k, deal)'
      BY <1>2, <1>3, <2>1 DEF Fine, Kept, Story
    <2> QED
      BY <1>1, <1>2, <2>1, <2>2, EndStep
  <1> QED
    BY <1>4, <1>5, <1>6, <1>7

\* The first start, and every step of a single life with one request at a time.
LEMMA BetweenInvariant ==
    ASSUME OneAtATime
    PROVE  Spec => []BetweenInv
  <1>1. Init => BetweenInv
    <2>1. ASSUME Init PROVE Between
      BY <2>1 DEF Init, Between, Idle
    <2> QED
      BY <2>1, SerialInit DEF BetweenInv
  <1>2. BetweenInv /\ [Next]_vars => BetweenInv'
    <2>1. ASSUME BetweenInv, [Next]_vars PROVE BetweenInv'
      <3>1. SerialInv /\ SerialInv' /\ Between /\ crashes = 0
        BY <2>1, SerialNext DEF BetweenInv, SerialInv, Once
      <3>2. ASSUME NEW t \in Handlers, Request(t) PROVE Between'
        BY <2>1, <3>2, RequestBetween
      <3>3. ASSUME NEW t \in Handlers, Finish(t) PROVE Between'
        BY <2>1, <3>3, SubmitTxBetween, ApproveMilestoneBetween,
           ResolveArbitrationBetween, TerminateBetween, CheckAdvanceBetween,
           WriteStateBetween, SaveBetween DEF Finish
      <3>4. ASSUME UNCHANGED <<heap, registry, saved, th, steered, errored>>
            PROVE  Between'
        BY <3>1, <3>4 DEF Between, Working, Fine, Kept, Story
      <3>5. ASSUME FundEscrow \/ ClientTx \/ CommitBlock \/ UNCHANGED vars
            PROVE  Between'
        BY <3>4, <3>5 DEF FundEscrow, ClientTx, CommitBlock, vars
      <3>6. ASSUME CrashAndRestart PROVE Between'
        <4>1. crashes < MaxCrashes
          BY <3>6 DEF CrashAndRestart
        <4> QED
          BY <3>1, <4>1 DEF OneAtATime
      <3>7. Between'
        BY <2>1, <3>2, <3>3, <3>5, <3>6 DEF Next
      <3> QED
        BY <3>1, <3>7 DEF BetweenInv
    <2> QED
      BY <2>1
  <1> QED
    BY <1>1, <1>2, PTL DEF Spec

\* The contracts of a quiet moment are in order.
LEMMA QuietFine ==
    ASSUME BetweenInv, Quiet, NEW c \in ContractId, Exists(c)
    PROVE  Fine(c, Deal(c)) /\ Deal(c) \in Contract
  <1>1. IInv /\ Between
    BY DEF BetweenInv, SerialInv
  <1> QED
    BY <1>1, DealProps DEF Between, Quiet, Exists, Deal

\* When a single handler serves a process that does not crash, the store has
\* between requests what memory has of a contract, or a client was told by an
\* error, since the contract was last saved, that it may not.
THEOREM StoreIsCurrent ==
    ASSUME OneAtATime
    PROVE  Spec => []SavedOrReported
  <1>1. BetweenInv => SavedOrReported
    BY QuietFine DEF SavedOrReported, Fine, Kept
  <1> QED
    BY <1>1, BetweenInvariant, PTL

\* A set of milestones that is not empty has a positive number of them.
LEMMA CountPositive ==
    ASSUME NEW deal \in Contract, NEW st
    PROVE  /\ Count(deal, st) = Cardinality(With(deal, st)) /\ IsFiniteSet(With(deal, st))
           /\ With(deal, st) # {} => Count(deal, st) > 0
  <1>1. IsFiniteSet(DOMAIN deal.milestones)
    <2>1. PICK n \in Nat : DOMAIN deal.milestones = 1 .. n
      BY Milestones
    <2> QED
      BY <2>1, FS_Interval
  <1>2. IsFiniteSet(With(deal, st))
    BY <1>1, FS_Subset DEF With
  <1>3. Count(deal, st) = Cardinality(With(deal, st))
    BY DEF Count, With
  <1>4. Cardinality(With(deal, st)) \in Nat
    BY <1>2, FS_CardinalityType
  <1>5. With(deal, st) # {} => Cardinality(With(deal, st)) # 0
    BY <1>2, FS_EmptySet
  <1> QED
    BY <1>2, <1>3, <1>4, <1>5

\* When a single handler serves a process that does not crash, an award that the
\* chain's rules accepted leaves no contract in a dispute without a disputed
\* milestone, but the one whose last open milestone it paid and those that a
\* client advanced past their signature.
THEOREM AwardsResolve ==
    ASSUME OneAtATime
    PROVE  Spec => []AwardResolves
  <1>1. ASSUME BetweenInv, Quiet, NEW c \in ContractId \ steered, Exists(c),
               Deal(c).state = "DISPUTED"
        PROVE  Count(Deal(c), "DISPUTED") > 0 \/ LastAwarded(Deal(c))
    <2>1. Told(Deal(c)) /\ Deal(c) \in Contract
      BY <1>1, QuietFine DEF Fine, Story
    <2> QED
      BY <1>1, <2>1, CountPositive DEF Told, LastAwarded
  <1>2. BetweenInv => AwardResolves
    BY <1>1 DEF AwardResolves
  <1> QED
    BY <1>2, BetweenInvariant, PTL

\* A loop that adds up amounts computes their sum.
LEMMA LoopAdds ==
    ASSUME NEW a \in Seq(Int)
    PROVE  Adding!Fold(0, a) = SumFunctionOnSet(a, DOMAIN a)
  <1> DEFINE P(k) == SubSeq(a, 1, k)
             T == {k \in Nat : k <= Len(a) =>
                        Adding!Fold(0, P(k)) = SumFunctionOnSet(a, 1 .. k)}
  <1>1. 0 \in T
    <2>1. P(0) = <<>> /\ 1 .. 0 = {}
      OBVIOUS
    <2>2. Adding!Fold(0, <<>>) = 0
      BY Adding!FoldEmpty, Zenon
    <2>3. SumFunctionOnSet(a, {}) = 0
      BY SumEmpty
    <2> QED
      BY <2>1, <2>2, <2>3
  <1>2. ASSUME NEW k \in Nat, k \in T
        PROVE  k + 1 \in T
    <2> SUFFICES ASSUME k + 1 <= Len(a)
                 PROVE  Adding!Fold(0, P(k + 1)) = SumFunctionOnSet(a, 1 .. k + 1)
      OBVIOUS
    <2>1. PICK j \in Nat : j = k + 1
      OBVIOUS
    <2>2. Adding!Fold(0, P(k)) = SumFunctionOnSet(a, 1 .. k)
      BY <1>2
    <2>3. /\ P(k) \in Seq(Int) /\ P(j) \in Seq(Int)
          /\ Len(P(k)) = k /\ Len(P(j)) = j /\ P(j)[j] = a[j]
          /\ \A i \in 1 .. k : P(j)[i] = P(k)[i]
      BY <2>1
    <2>4. /\ IsFiniteSet(1 .. j) /\ j \in 1 .. j /\ (1 .. j) \ {j} = 1 .. k
          /\ \A i \in 1 .. j : a[i] \in Int
      <3>1. IsFiniteSet(1 .. j)
        BY FS_Interval
      <3> QED
        BY <2>1, <3>1
    <2> HIDE DEF P
    <2>5. Adding!Fold(0, P(j)) = Adding!Fold(0, P(k)) + a[j]
      <3>1. PICK s, t : s = P(k) /\ t = P(j)
        OBVIOUS
      <3>2. /\ s \in Seq(Int) /\ t \in Seq(Int) /\ Len(s) = k /\ Len(t) = j
            /\ t[j] = a[j] /\ Len(t) = Len(s) + 1
            /\ \A i \in 1 .. Len(s) : t[i] = s[i]
        BY <2>1, <2>3, <3>1
      <3>3. Adding!Fold(0, t) = Adding!Fold(0, s) + t[Len(t)]
        BY <3>2, Adding!FoldAppend, Zenon
      <3> QED
        BY <3>1, <3>2, <3>3
    <2>6. PICK p : p = SumFunctionOnSet(a, (1 .. j) \ {j})
      OBVIOUS
    <2>7. p \in Int /\ SumFunctionOnSet(a, 1 .. j) = a[j] + p
      <3>1. PICK S : S = 1 .. j
        OBVIOUS
      <3>2. IsFiniteSet(S) /\ j \in S /\ \A i \in S : a[i] \in Int
        BY <2>4, <3>1
      <3>3. /\ SumFunctionOnSet(a, S) = a[j] + SumFunctionOnSet(a, S \ {j})
            /\ SumFunctionOnSet(a, S \ {j}) \in Int
        BY <3>2, SumRemove
      <3> QED
        BY <2>6, <3>1, <3>3
    <2>8. Adding!Fold(0, P(j)) = p + a[j] /\ a[j] \in Int
      BY <2>2, <2>4, <2>5, <2>6
    <2> QED
      BY <2>1, <2>7, <2>8
  <1>3. \A k \in Nat : k \in T
    <2> HIDE DEF T
    <2> QED
      BY <1>1, <1>2, Adding!CountUp
  <1>4. PICK n \in Nat : n = Len(a) /\ P(n) = a /\ DOMAIN a = 1 .. n
    OBVIOUS
  <1>5. n \in T
    BY <1>3
  <1> HIDE DEF P
  <1> QED
    BY <1>4, <1>5

\* An int64 needs no wrapping.
LEMMA NoWrap ==
    ASSUME NEW n \in Int64
    PROVE  ((n + (MaxInt64 + 1)) % (2 * (MaxInt64 + 1))) - (MaxInt64 + 1) = n
  <1>1. PICK half \in Nat : half = MaxInt64 + 1 /\ half > 0
    BY LedgerAssumption
  <1>2. n \in Int /\ -half <= n /\ n < half
    BY <1>1, LedgerAssumption DEF Int64
  <1>3. PICK x \in Int, d \in Nat : x = n + half /\ d = 2 * half
    BY <1>1, <1>2
  <1>4. 0 <= x /\ x < d
    BY <1>1, <1>2, <1>3
  <1>5. x % d = x
    BY <1>4
  <1> QED
    BY <1>1, <1>2, <1>3, <1>5

\* So a sum of amounts that is an int64 is what the program computes.
LEMMA SumFits ==
    ASSUME NEW a \in Seq(Int), SumFunctionOnSet(a, DOMAIN a) \in Int64
    PROVE  Int64Sum(a) = SumFunctionOnSet(a, DOMAIN a)
  <1>1. PICK n : n = SumFunctionOnSet(a, DOMAIN a)
    OBVIOUS
  <1>2. Adding!Fold(0, a) = n /\ n \in Int64
    BY <1>1, LoopAdds
  <1>3. Int64Sum(a) = ((Adding!Fold(0, a) + (MaxInt64 + 1)) % (2 * (MaxInt64 + 1)))
                        - (MaxInt64 + 1)
    BY DEF Int64Sum, Adding!Fold, FoldLeft, Adding!FoldLeft, MapThenFoldSet,
           Adding!MapThenFoldSet, Max, Adding!Max
  <1> QED
    BY <1>1, <1>2, <1>3, NoWrap

\* Terms that are 0 may be left out of a sum.
LEMMA SumSubset ==
    ASSUME NEW f, NEW S, IsFiniteSet(S), \A x \in S : f[x] \in Int,
           NEW T \in SUBSET S, \A x \in S \ T : f[x] = 0
    PROVE  SumFunctionOnSet(f, S) = SumFunctionOnSet(f, T)
  <1> DEFINE P == {U \in SUBSET S : T \subseteq U =>
                    SumFunctionOnSet(f, U) = SumFunctionOnSet(f, T)}
  <1>1. ASSUME NEW U \in SUBSET S, \A V \in SUBSET U : V # U => V \in P, T \subseteq U
        PROVE  SumFunctionOnSet(f, U) = SumFunctionOnSet(f, T)
    <2>1. CASE U = T
      BY <2>1
    <2>2. CASE U # T
      <3>1. PICK x \in U : x \notin T
        BY <1>1, <2>2
      <3>2. IsFiniteSet(U) /\ \A y \in U : f[y] \in Int
        BY FS_Subset
      <3>3. SumFunctionOnSet(f, U) = f[x] + SumFunctionOnSet(f, U \ {x})
            /\ SumFunctionOnSet(f, U \ {x}) \in Int
        BY <3>2, SumRemove
      <3>4. U \ {x} \in P /\ T \subseteq U \ {x}
        BY <1>1, <3>1
      <3>5. SumFunctionOnSet(f, U \ {x}) = SumFunctionOnSet(f, T) /\ f[x] = 0
        BY <3>1, <3>4
      <3> QED
        BY <3>3, <3>5
    <2> QED
      BY <2>1, <2>2
  <1>2. \A U \in SUBSET S : (\A V \in SUBSET U : V # U => V \in P) => U \in P
    BY <1>1
  <1> HIDE DEF P
  <1>3. S \in P
    BY <1>2, FiniteInduction
  <1> QED
    BY <1>3 DEF P

-----------------------------------------------------------------------------
(* Offers whose amounts an int64 can add up. *)

\* Whichever milestones of an offer are added up, an int64 holds the sum.
OffersFit ==
    \A o \in Offers : \A T \in SUBSET DOMAIN o.milestones :
        SumFunctionOnSet(Amounts(o.milestones), T) \in Int64

\* The same of the milestones of a contract.
Fits(deal) ==
    \A T \in SUBSET DOMAIN deal.milestones :
        SumFunctionOnSet(Amounts(deal.milestones), T) \in Int64

\* The milestones that are not approved.
Open(deal) == {i \in DOMAIN deal.milestones : deal.milestones[i].status # "APPROVED"}

\* The amounts of the milestones of a contract.
LEMMA AmountProps ==
    ASSUME NEW deal \in Contract
    PROVE  /\ IsFiniteSet(DOMAIN deal.milestones)
           /\ \A i \in DOMAIN deal.milestones :
                /\ deal.milestones[i].amount \in Int64
                /\ deal.milestones[i].amount \in Int
                /\ Amounts(deal.milestones)[i] = deal.milestones[i].amount
  <1>1. PICK n \in Nat : DOMAIN deal.milestones = 1 .. n
    BY Milestones
  <1>2. IsFiniteSet(DOMAIN deal.milestones)
    BY <1>1, FS_Interval
  <1>3. ASSUME NEW i \in DOMAIN deal.milestones
        PROVE  /\ deal.milestones[i].amount \in Int64
               /\ deal.milestones[i].amount \in Int
    <2>1. deal.milestones[i] \in Milestone
      BY Milestones
    <2> QED
      BY <2>1, LedgerAssumption DEF Milestone, Int64
  <1>4. \A i \in DOMAIN deal.milestones :
            Amounts(deal.milestones)[i] = deal.milestones[i].amount
    BY DEF Amounts
  <1> QED
    BY <1>2, <1>3, <1>4

\* If the amounts fit, what is left open is the sum of the open milestones.
LEMMA RemainingIsSum ==
    ASSUME NEW deal \in Contract, Fits(deal)
    PROVE  RemainingAmount(deal.milestones)
                = SumFunctionOnSet(Amounts(deal.milestones), Open(deal))
  <1>1. PICK ms, D, T, f : /\ ms = deal.milestones /\ D = DOMAIN ms
                           /\ T = Open(deal) /\ f = Amounts(ms)
    OBVIOUS
  <1>2. PICK g : g = [i \in D |-> IF ms[i].status = "APPROVED" THEN 0 ELSE ms[i].amount]
    OBVIOUS
  <1>3. /\ IsFiniteSet(D) /\ \A i \in D : f[i] \in Int /\ f[i] = ms[i].amount
        /\ \A i \in D : ms[i].amount \in Int
    BY <1>1, AmountProps
  <1>4. T \in SUBSET D /\ \A i \in D : i \in T <=> ms[i].status # "APPROVED"
    BY <1>1 DEF Open
  <1>5. g \in Seq(Int) /\ DOMAIN g = D
    <2>1. PICK n \in Nat : D = 1 .. n
      BY <1>1, Milestones
    <2>2. g \in [1 .. n -> Int]
      BY <1>2, <1>3, <2>1
    <2> QED
      BY <2>1, <2>2
  <1>6. /\ \A i \in D : g[i] \in Int
        /\ \A i \in D \ T : g[i] = 0
        /\ \A i \in T : g[i] = f[i]
    BY <1>2, <1>3, <1>4
  <1>7. SumFunctionOnSet(g, D) = SumFunctionOnSet(g, T)
    BY <1>3, <1>4, <1>6, SumSubset
  <1>8. SumFunctionOnSet(g, T) = SumFunctionOnSet(f, T)
    BY <1>3, <1>4, <1>6, FS_Subset, SumSame
  <1>9. SumFunctionOnSet(f, T) \in Int64
    BY <1>1, <1>4 DEF Fits
  <1>10. Int64Sum(g) = SumFunctionOnSet(g, D)
    BY <1>5, <1>7, <1>8, <1>9, SumFits
  <1>11. RemainingAmount(ms) = Int64Sum(g)
    BY <1>1, <1>2 DEF RemainingAmount
  <1> QED
    BY <1>1, <1>7, <1>8, <1>10, <1>11

\* The same milestones with the same amounts, whatever their status.
SameAmounts(deal, e) ==
    /\ DOMAIN e.milestones = DOMAIN deal.milestones
    /\ \A i \in DOMAIN deal.milestones :
        e.milestones[i].amount = deal.milestones[i].amount

\* Contracts with the same amounts have the same sums, and the same total.
LEMMA SameFits ==
    ASSUME NEW deal, NEW e, SameAmounts(deal, e)
    PROVE  /\ Amounts(e.milestones) = Amounts(deal.milestones)
           /\ TotalAmount(e.milestones) = TotalAmount(deal.milestones)
           /\ Fits(deal) => Fits(e)
  <1>1. Amounts(e.milestones) = Amounts(deal.milestones)
    BY DEF SameAmounts, Amounts
  <1>2. DOMAIN e.milestones = DOMAIN deal.milestones
    BY DEF SameAmounts
  <1> QED
    BY <1>1, <1>2 DEF Fits, TotalAmount

\* Setting a status leaves the amounts.
LEMMA StatusSame ==
    ASSUME NEW deal \in Contract, NEW id, NEW status
    PROVE  /\ SameAmounts(deal, SetStatus(deal, id, status))
           /\ SetStatus(deal, id, status).total = deal.total
  <1>1. PICK ms, n, i : /\ ms = deal.milestones /\ DOMAIN ms = 1 .. n /\ n \in Nat
                       /\ n = Len(ms) /\ i = findMilestone(deal, id)
    BY Milestones
  <1>2. i \in 0 .. n
    BY <1>1, FindProps
  <1>3. CASE i = 0
    BY <1>1, <1>3 DEF SetStatus, SameAmounts
  <1>4. CASE i # 0
    <2>1. PICK ns : ns = [ms EXCEPT ![i] = [ms[i] EXCEPT !.status = status]]
      OBVIOUS
    <2>2. PICK e : e = SetStatus(deal, id, status)
      OBVIOUS
    <2>3. e = [deal EXCEPT !.milestones = ns]
      BY <1>1, <1>4, <2>1, <2>2 DEF SetStatus
    <2>4. i \in 1 .. n /\ ms[i] \in Milestone
      BY <1>1, <1>2, <1>4, Milestones
    <2>5. e.milestones = ns /\ e.total = deal.total
      BY <2>3 DEF Contract
    <2>6. DOMAIN ns = DOMAIN ms /\ \A j \in DOMAIN ms : ns[j].amount = ms[j].amount
      BY <2>1, <2>4 DEF Milestone
    <2> QED
      BY <1>1, <2>2, <2>5, <2>6 DEF SameAmounts
  <1> QED
    BY <1>3, <1>4

\* So does a step of a handler.
LEMMA WrittenSame ==
    ASSUME NEW deal \in Contract, NEW r, Head(r.targets) \in ContractState
    PROVE  SameAmounts(deal, Written(r, deal)) /\ Written(r, deal).total = deal.total
  <1>1. PICK next : next = [deal EXCEPT !.state = Head(r.targets)]
    OBVIOUS
  <1>2. next \in Contract /\ next.milestones = deal.milestones /\ next.total = deal.total
    BY <1>1 DEF Contract
  <1>3. CASE r.mark = "none"
    <2>1. Written(r, deal) = next
      BY <1>1, <1>3 DEF Written
    <2> QED
      BY <1>2, <2>1 DEF SameAmounts
  <1>4. CASE r.mark # "none"
    <2>1. PICK e : e = SetStatus(next, r.milestone, r.mark)
      OBVIOUS
    <2>2. Written(r, deal) = e
      BY <1>1, <1>4, <2>1 DEF Written
    <2>3. SameAmounts(next, e) /\ e.total = next.total
      BY <1>2, <2>1, StatusSame
    <2> QED
      BY <1>2, <2>2, <2>3 DEF SameAmounts
  <1> QED
    BY <1>3, <1>4

\* A new contract has the amounts of its offer, and their total.
LEMMA NewFits ==
    ASSUME OffersFit, NEW offer \in Offers, NEW deal, deal = NewContract(offer)
    PROVE  Fits(deal) /\ deal.total = TotalAmount(deal.milestones)
  <1>1. PICK os : os = offer.milestones
    OBVIOUS
  <1>2. /\ deal.milestones = [i \in DOMAIN os |->
            [id |-> os[i].id, amount |-> os[i].amount, status |-> "PENDING"]]
        /\ deal.total = TotalAmount(os)
    BY <1>1 DEF NewContract
  <1>3. DOMAIN deal.milestones = DOMAIN os
        /\ \A i \in DOMAIN os : deal.milestones[i].amount = os[i].amount
    BY <1>2
  <1>4. Amounts(deal.milestones) = Amounts(os)
    BY <1>3 DEF Amounts
  <1>5. \A T \in SUBSET DOMAIN os : SumFunctionOnSet(Amounts(os), T) \in Int64
    BY <1>1 DEF OffersFit
  <1> QED
    BY <1>2, <1>3, <1>4, <1>5 DEF Fits, TotalAmount

\* What a contract object promises about its amounts.
Sized(deal) == Fits(deal) /\ deal.total = TotalAmount(deal.milestones)

\* The offers' amounts stay with the contracts.
AllSized == \A o \in 1 .. Len(heap) : Sized(heap[o])

\* A change of statuses leaves a contract sized.
LEMMA SizedSame ==
    ASSUME NEW deal, NEW e, SameAmounts(deal, e), e.total = deal.total, Sized(deal)
    PROVE  Sized(e)
  BY SameFits DEF Sized

\* Steps only add contracts that are sized, or change the status of milestones.
LEMMA SizedStep ==
    ASSUME OneAtATime, OffersFit, SerialInv, AllSized, [Next]_vars
    PROVE  AllSized'
  <1>1. IInv /\ heap \in Seq(Contract) /\ crashes = 0
    BY DEF SerialInv, IInv, Typed, Once
  <1>2. PICK n \in Nat : n = Len(heap) /\ DOMAIN heap = 1 .. n
    BY <1>1
  <1>3. ASSUME NEW t \in Handlers, NEW e, th[t].pc # "idle",
               heap' = [heap EXCEPT ![th[t].obj] = e],
               SameAmounts(Held(t), e), e.total = Held(t).total
        PROVE  AllSized'
    <2>1. PICK o \in 1 .. n : o = th[t].obj /\ Held(t) = heap[o]
      BY <1>1, <1>2, <1>3, HandlerProps DEF Held
    <2>2. Sized(e)
      BY <1>2, <1>3, <2>1, SizedSame DEF AllSized
    <2>3. Len(heap') = n /\ \A i \in 1 .. n : heap'[i] = IF i = o THEN e ELSE heap[i]
      BY <1>1, <1>2, <1>3, <2>1
    <2> QED
      BY <1>2, <2>2, <2>3 DEF AllSized
  <1>4. ASSUME UNCHANGED heap PROVE AllSized'
    BY <1>4 DEF AllSized
  <1>5. ASSUME NEW t \in Handlers, CreateContract(t) PROVE AllSized'
    <2>1. PICK offer \in Offers : heap' = Append(heap, NewContract(offer))
      BY <1>5 DEF CreateContract
    <2>2. PICK e, m : e = NewContract(offer) /\ m = n + 1 /\ m \in Nat
      OBVIOUS
    <2>3. Sized(e)
      BY <2>2, NewFits DEF Sized
    <2>4. Len(heap') = m /\ heap'[m] = e /\ \A o \in 1 .. n : heap'[o] = heap[o]
      BY <1>1, <1>2, <2>1, <2>2
    <2>5. \A o \in 1 .. m : o = m \/ o \in 1 .. n
      BY <2>2
    <2> QED
      BY <1>2, <2>3, <2>4, <2>5 DEF AllSized
  <1>6. ASSUME NEW t \in Handlers, ApproveMilestone(t) PROVE AllSized'
    <2>1. PICK e : /\ e = Approved(Held(t), th[t].milestone)
                   /\ heap' = [heap EXCEPT ![th[t].obj] = e] /\ th[t].pc # "idle"
      BY <1>6 DEF ApproveMilestone, ChangeThenAdvance
    <2>2. Held(t) \in Contract
      BY <1>1, <2>1, HandlerProps
    <2> QED
      BY <1>3, <2>1, <2>2, StatusSame DEF Approved
  <1>7. ASSUME NEW t \in Handlers, ResolveArbitration(t) PROVE AllSized'
    <2>1. PICK e : /\ e = IF th[t].terminate THEN Held(t)
                          ELSE Approved(Held(t), th[t].milestone)
                   /\ heap' = [heap EXCEPT ![th[t].obj] = e] /\ th[t].pc # "idle"
      BY <1>7 DEF ResolveArbitration, ChangeThenAdvance
    <2>2. Held(t) \in Contract
      BY <1>1, <2>1, HandlerProps
    <2>3. SameAmounts(Held(t), Held(t))
      BY DEF SameAmounts
    <2> QED
      BY <1>3, <2>1, <2>2, <2>3, StatusSame DEF Approved
  <1>8. ASSUME NEW t \in Handlers, Terminate(t) PROVE AllSized'
    <2>1. heap' = [heap EXCEPT ![th[t].obj] = Held(t)] /\ th[t].pc # "idle"
      BY <1>8 DEF Terminate, ChangeThenAdvance
    <2>2. SameAmounts(Held(t), Held(t))
      BY DEF SameAmounts
    <2> QED
      BY <1>3, <2>1, <2>2
  <1>9. ASSUME NEW t \in Handlers, WriteState(t) PROVE AllSized'
    <2>1. PICK e : /\ e = Written(th[t], Held(t)) /\ th[t].pc = "write"
                   /\ heap' = [heap EXCEPT ![th[t].obj] = e]
      BY <1>9 DEF WriteState, Written
    <2>2. /\ Held(t) \in Contract /\ th[t].targets \in Seq(ContractState)
          /\ th[t].targets # <<>>
      BY <1>1, <2>1, HandlerProps DEF HandlerOK
    <2>3. Head(th[t].targets) \in ContractState
      BY <2>2
    <2> QED
      BY <1>3, <2>1, <2>2, <2>3, WrittenSame
  <1>10. ASSUME NEW t \in Handlers, Request(t) PROVE AllSized'
    BY <1>4, <1>5, <1>10 DEF Request, AdvanceContract, ConfirmFunded, SubmitMilestone,
       DisputeMilestone, ReleaseMilestone, Arbitrate, Refund, Sign
  <1>11. ASSUME NEW t \in Handlers, Finish(t) PROVE AllSized'
    BY <1>4, <1>6, <1>7, <1>8, <1>9, <1>11 DEF Finish, SubmitTx, CheckAdvance,
       PutContract, Marshal, SaveContract, SaveContractFails
  <1>12. ASSUME CrashAndRestart PROVE FALSE
    BY <1>1, <1>12 DEF CrashAndRestart, OneAtATime
  <1> QED
    BY <1>4, <1>10, <1>11, <1>12 DEF Next, vars, FundEscrow, ClientTx, CommitBlock

\* The first start has no contract.
LEMMA SizedInvariant ==
    ASSUME OneAtATime, OffersFit
    PROVE  Spec => []AllSized
  <1>1. Init => SerialInv /\ AllSized
    BY SerialInit DEF Init, AllSized
  <1>2. SerialInv /\ AllSized /\ [Next]_vars => (SerialInv /\ AllSized)'
    BY SerialNext, SizedStep
  <1> QED
    BY <1>1, <1>2, PTL DEF Spec

\* Positive amounts that leave nothing open are all approved.
LEMMA NothingOpen ==
    ASSUME NEW deal \in Contract, Fits(deal), RemainingAmount(deal.milestones) = 0,
           \A i \in DOMAIN deal.milestones : deal.milestones[i].amount > 0
    PROVE  With(deal, "APPROVED") = DOMAIN deal.milestones
  <1>1. PICK f, T : f = Amounts(deal.milestones) /\ T = Open(deal)
    OBVIOUS
  <1>2. T \subseteq DOMAIN deal.milestones /\ IsFiniteSet(T)
    BY <1>1, AmountProps, FS_Subset DEF Open
  <1>3. \A i \in T : f[i] \in Nat /\ f[i] > 0
    BY <1>1, <1>2, AmountProps
  <1>4. SumFunctionOnSet(f, T) = 0
    BY <1>1, RemainingIsSum
  <1>5. \A i \in T : f[i] <= SumFunctionOnSet(f, T)
    BY <1>2, <1>3, SumBounds
  <1>6. T = {}
    BY <1>3, <1>4, <1>5
  <1> QED
    BY <1>1, <1>6 DEF Open, With

\* When a single handler serves a process that does not crash, and the amounts
\* of an offer add up to an int64, a contract that no client advanced past its
\* signature tells between requests the same story as its milestones: one
\* is submitted exactly in review, none is touched before funding, and none is
\* left open at the end.
THEOREM MilestonesInOrder ==
    ASSUME OneAtATime, OffersFit
    PROVE  Spec => []MilestonesMatchState
  <1>1. ASSUME BetweenInv, AllSized, Quiet, NEW c \in ContractId \ steered, Exists(c),
               NEW deal, deal = Deal(c)
        PROVE  /\ Count(deal, "SUBMITTED") =
                    IF deal.state = "MILESTONE_REVIEW" THEN 1 ELSE 0
               /\ deal.state \in {"DRAFT", "PENDING_SIGNATURE", "SIGNED", "FUNDED"}
                    => Count(deal, "PENDING") = Len(deal.milestones)
               /\ deal.state = "COMPLETED"
                  /\ (\A m \in Range(deal.milestones) : m.amount > 0)
                    => Count(deal, "APPROVED") = Len(deal.milestones)
    <2>1. Told(deal) /\ deal \in Contract
      BY <1>1, QuietFine DEF Fine, Story
    <2>2. Fits(deal)
      <3>1. registry[c] \in 1 .. Len(heap)
        BY <1>1, DealProps DEF BetweenInv, SerialInv, Exists
      <3> QED
        BY <1>1, <3>1 DEF AllSized, Sized, Deal
    <2>3. \A st : Count(deal, st) = Cardinality(With(deal, st))
      BY <2>1, CountPositive
    <2>4. Cardinality(DOMAIN deal.milestones) = Len(deal.milestones)
      <3>1. PICK n \in Nat : n = Len(deal.milestones) /\ DOMAIN deal.milestones = 1 .. n
        BY <2>1, Milestones
      <3>2. Cardinality(1 .. n) = n
        BY FS_Interval
      <3> QED
        BY <3>1, <3>2
    <2>5. Count(deal, "SUBMITTED") = IF deal.state = "MILESTONE_REVIEW" THEN 1 ELSE 0
      BY <2>1, <2>3, FS_EmptySet, FS_Singleton DEF Told
    <2>6. deal.state \in {"DRAFT", "PENDING_SIGNATURE", "SIGNED", "FUNDED"}
            => Count(deal, "PENDING") = Len(deal.milestones)
      BY <2>1, <2>3, <2>4 DEF Told
    <2>7. ASSUME deal.state = "COMPLETED", \A m \in Range(deal.milestones) : m.amount > 0
          PROVE  Count(deal, "APPROVED") = Len(deal.milestones)
      <3>1. \A i \in DOMAIN deal.milestones : deal.milestones[i].amount > 0
        BY <2>7 DEF Range
      <3>2. With(deal, "APPROVED") = DOMAIN deal.milestones
        BY <2>1, <2>2, <2>7, <3>1, NothingOpen DEF Told
      <3> QED
        BY <2>3, <2>4, <3>2
    <2> QED
      BY <2>5, <2>6, <2>7
  <1>2. BetweenInv /\ AllSized => MilestonesMatchState
    BY <1>1 DEF MilestonesMatchState
  <1> QED
    BY <1>2, BetweenInvariant, SizedInvariant, PTL
-----------------------------------------------------------------------------
(* The books: what the milestones leave open is what the escrow holds, less *)
(* the releases that are in no block.                                       *)

\* The contracts that BooksAgree speaks of.
Plain(c) == c \notin steered /\ PaidByHandlers(c)

\* The milestones of deal leave n more open than the escrow of c has for them.
Balanced(c, deal, n) ==
    /\ state.locked[c] # NoLock
    /\ RemainingAmount(deal.milestones) = state.locked[c].amount - Waiting(c) + n

\* What the chain and the posts hold for contract c while it is in state st.
Ledgered(c, deal, st, n) ==
    Plain(c) =>
        /\ st \in {"DRAFT", "PENDING_SIGNATURE", "SIGNED"} => Releases(c) = {}
        /\ st \in {"FUNDED", "IN_PROGRESS", "MILESTONE_REVIEW", "DISPUTED", "COMPLETED"}
            => Balanced(c, deal, n)

\* The amount of the milestone that a handler names.
Asked(r) == heap[r.obj].milestones[findMilestone(heap[r.obj], r.milestone)].amount

\* A release is posted before its milestone is approved.
Due(r, c) ==
    IF r.pc = "resolve" /\ r.op = "release" /\ r.contract = c THEN Asked(r) ELSE 0

\* A release that a handler signed.
IsRelease(tx) == tx.type = "RELEASE_MILESTONE" /\ tx.signer = Authority

\* What a handler at work adds to the books.
Booking(r) ==
    LET deal == heap[r.obj] IN
    /\ r.pc = "submit" => r.tx.signer = Authority
    /\ r.pc = "submit" /\ r.op = "release" =>
        /\ r.tx.amount = Asked(r) /\ r.tx.nonce <= ops
        /\ \A tx \in posted : IsRelease(tx) => tx.nonce < r.tx.nonce
    /\ r.pc = "resolve" /\ r.op # "release" => ~Plain(r.contract)
    /\ r.pc = "check" /\ Transition(deal.state, Head(r.targets))
        => Ledgered(r.contract, deal, Head(r.targets), 0)
    /\ r.pc = "write" => Ledgered(r.contract, deal, Head(r.targets), 0)
    /\ r.pc = "put" /\ registry[r.contract] = 0 => deal.state = "DRAFT"

\* The posts are finite, and no release of the handlers is newer than the last
\* signature.
PostedKnown ==
    /\ IsFiniteSet(posted) /\ chain \in Seq(EscrowTx) /\ Range(chain) \subseteq posted
    /\ \A tx \in posted : IsRelease(tx) => tx.nonce <= ops

\* The books of contract c while handler t works, if it does.
BookOf(c, r) == Ledgered(c, Deal(c), Deal(c).state, Due(r, c))

\* The books of every contract.
Books ==
    /\ PostedKnown
    /\ \A t \in Handlers : th[t].pc # "idle" => Booking(th[t])
    /\ \A c \in ContractId :
        /\ registry[c] = 0 /\ Plain(c) => Releases(c) = {}
        /\ registry[c] # 0 => \E t \in Handlers : BookOf(c, th[t])

\* The sum of the amounts of some transactions.
AmountOf(P, S) == SumFunctionOnSet([tx \in P |-> tx.amount], S)

\* It depends on these transactions only.
LEMMA AmountSame ==
    ASSUME NEW P \in SUBSET EscrowTx, NEW Q \in SUBSET EscrowTx, NEW S,
           S \subseteq P, S \subseteq Q, IsFiniteSet(S)
    PROVE  AmountOf(P, S) = AmountOf(Q, S) /\ AmountOf(P, S) \in Int
  <1>1. PICK f, g : f = [tx \in P |-> tx.amount] /\ g = [tx \in Q |-> tx.amount]
    OBVIOUS
  <1>2. \A tx \in S : f[tx] = tx.amount /\ g[tx] = tx.amount
    BY <1>1
  <1>3. \A tx \in S : f[tx] \in Int
    BY <1>2, LedgerAssumption DEF EscrowTx, Int64
  <1>4. SumFunctionOnSet(f, S) = SumFunctionOnSet(g, S) /\ SumFunctionOnSet(f, S) \in Int
    BY <1>2, <1>3, SumSame, SumType
  <1> QED
    BY <1>1, <1>4 DEF AmountOf

\* One transaction less.
LEMMA AmountLess ==
    ASSUME NEW P \in SUBSET EscrowTx, NEW Q \in SUBSET EscrowTx, NEW S, NEW R, NEW tx \in S,
           S \subseteq P, R = S \ {tx}, R \subseteq Q, IsFiniteSet(S)
    PROVE  /\ AmountOf(P, S) - AmountOf(Q, R) = tx.amount /\ tx.amount \in Int
           /\ AmountOf(P, S) \in Int /\ AmountOf(Q, R) \in Int
  <1>1. PICK f : f = [u \in P |-> u.amount]
    OBVIOUS
  <1>2. \A u \in S : f[u] = u.amount
    BY <1>1
  <1>3. \A u \in S : f[u] \in Int
    BY <1>2, LedgerAssumption DEF EscrowTx, Int64
  <1>4. /\ SumFunctionOnSet(f, S) = f[tx] + SumFunctionOnSet(f, S \ {tx})
        /\ SumFunctionOnSet(f, S \ {tx}) \in Int
    BY <1>3, SumRemove
  <1>5. IsFiniteSet(R) /\ R \subseteq P
    BY FS_Subset
  <1>6. AmountOf(P, R) = AmountOf(Q, R) /\ AmountOf(P, R) \in Int
    BY <1>5, AmountSame
  <1>7. AmountOf(P, S) = tx.amount + AmountOf(P, R)
    BY <1>1, <1>2, <1>4 DEF AmountOf
  <1>8. tx.amount \in Int
    BY <1>2, <1>3
  <1> QED
    BY <1>6, <1>7, <1>8

\* What waits is the amount of the releases.
LEMMA WaitingIs ==
    ASSUME NEW c
    PROVE  Waiting(c) = AmountOf(posted, Releases(c)) /\ Releases(c) \subseteq posted
  BY DEF Waiting, AmountOf, Releases

\* What the invariant says of the posts.
LEMMA PostedProps ==
    ASSUME IInv, PostedKnown, NEW c
    PROVE  /\ posted \in SUBSET EscrowTx /\ IsFiniteSet(Releases(c))
           /\ Waiting(c) \in Int
           /\ Releases(c) = {} => Waiting(c) = 0
  <1>1. posted \in SUBSET EscrowTx
    BY DEF IInv, Typed
  <1>2. IsFiniteSet(Releases(c))
    BY FS_Subset DEF Releases, PostedKnown
  <1>3. Waiting(c) = AmountOf(posted, Releases(c)) /\ Releases(c) \subseteq posted
    BY WaitingIs
  <1>4. Waiting(c) \in Int
    BY <1>1, <1>2, <1>3, AmountSame
  <1>5. Releases(c) = {} => Waiting(c) = 0
    BY <1>3, SumEmpty DEF AmountOf
  <1> QED
    BY <1>1, <1>2, <1>4, <1>5

\* A chain with one more transaction.
OneLonger(s, tx, r) == s \in Seq(EscrowTx) /\ r = Append(s, tx)

\* The transactions of a chain with one more.
LEMMA OneMore ==
    ASSUME NEW s, NEW tx, NEW r, OneLonger(s, tx, r)
    PROVE  /\ Range(r) = Range(s) \cup {tx}
           /\ DOMAIN s \subseteq DOMAIN r /\ \A i \in DOMAIN s : r[i] = s[i]
           /\ \E i \in DOMAIN r : i \notin DOMAIN s /\ r[i] = tx
  <1>1. PICK n \in Nat, m \in Nat : n = Len(s) /\ DOMAIN s = 1 .. n /\ m = n + 1
    BY DEF OneLonger
  <1>2. DOMAIN r = 1 .. m /\ r[m] = tx /\ \A i \in 1 .. n : r[i] = s[i]
    BY <1>1 DEF OneLonger
  <1>3. \A i \in 1 .. m : i \in 1 .. n \/ i = m
    BY <1>1
  <1>4. 1 .. n \subseteq 1 .. m /\ m \in 1 .. m /\ m \notin 1 .. n
    BY <1>1
  <1>5. Range(r) = Range(s) \cup {tx}
    BY <1>1, <1>2, <1>3, <1>4 DEF Range
  <1> QED
    BY <1>1, <1>2, <1>4, <1>5

\* Posts, blocks and advances: nothing is taken back.
Later ==
    /\ steered \subseteq steered' /\ posted \subseteq posted'
    /\ DOMAIN chain \subseteq DOMAIN chain'
    /\ \A i \in DOMAIN chain : chain'[i] = chain[i]

\* A contract that was refunded, awarded, paid twice or advanced stays so.
LEMMA PlainBefore ==
    ASSUME Later, NEW c, Plain(c)'
    PROVE  Plain(c)
  BY DEF Plain, PaidByHandlers, Later

\* A step that the books do not see.
Unseen == UNCHANGED <<posted, chain, state>> /\ steered \subseteq steered'

\* It takes nothing back and leaves the releases.
LEMMA UnseenLater ==
    ASSUME Unseen
    PROVE  Later /\ \A c : Releases(c)' = Releases(c) /\ Waiting(c)' = Waiting(c)
  BY DEF Unseen, Later, Releases, Waiting

\* A state that differs in nothing the books read.
LEMMA LedgeredSame ==
    ASSUME NEW c, NEW deal, NEW e, NEW st, NEW n, Plain(c)' => Ledgered(c, deal, st, n),
           RemainingAmount(e.milestones) = RemainingAmount(deal.milestones),
           Unseen
    PROVE  Ledgered(c, e, st, n)'
  <1>1. Later /\ Releases(c)' = Releases(c) /\ Waiting(c)' = Waiting(c)
    BY UnseenLater
  <1>2. Plain(c)' => Plain(c)
    BY <1>1, PlainBefore
  <1>3. Balanced(c, deal, n) => Balanced(c, e, n)'
    BY <1>1 DEF Balanced, Unseen
  <1> QED
    BY <1>1, <1>2, <1>3 DEF Ledgered

\* A block changes what is locked by what waits.
LEMMA LedgeredMoves ==
    ASSUME NEW c, NEW deal, NEW st, NEW n, Ledgered(c, deal, st, n), Later,
           Plain(c)' => Releases(c)' \subseteq Releases(c),
           Plain(c)' /\ state.locked[c] # NoLock =>
                /\ state'.locked[c] # NoLock
                /\ state'.locked[c].amount - Waiting(c)' = state.locked[c].amount - Waiting(c)
    PROVE  Ledgered(c, deal, st, n)'
  <1>1. Plain(c)' => Plain(c)
    BY PlainBefore
  <1>2. ASSUME Plain(c)', Balanced(c, deal, n) PROVE Balanced(c, deal, n)'
    <2>1. PICK x, y : x = state.locked[c].amount - Waiting(c)
                      /\ y = (state.locked[c].amount - Waiting(c))'
      OBVIOUS
    <2> QED
      BY <1>2, <2>1 DEF Balanced
  <1> QED
    BY <1>1, <1>2 DEF Ledgered

\* A credit and a spend leave the locks alone.
LEMMA CreditLocks ==
    ASSUME NEW s, WellFormed(s), NEW a, NEW n
    PROVE  WellFormed(Credit(s, a, n)) /\ Credit(s, a, n).locked = s.locked
  BY DEF Credit, WellFormed

\* The sender pays from its balance.
LEMMA SpendLocks ==
    ASSUME NEW s, WellFormed(s), NEW a, NEW n
    PROVE  WellFormed(Spend(s, a, n)) /\ Spend(s, a, n).locked = s.locked
  BY DEF Spend, WellFormed

\* One lock is written.
LEMMA SetLockLocks ==
    ASSUME NEW s, WellFormed(s), NEW c, NEW lock
    PROVE  /\ WellFormed(SetLock(s, c, lock))
           /\ SetLock(s, c, lock).locked = [s.locked EXCEPT ![c] = lock]
  BY DEF SetLock, WellFormed

\* A payout leaves a lock, and takes what it pays from it.
LEMMA PayOutLocks ==
    ASSUME NEW s, WellFormed(s), NEW n, NEW c \in ContractId, NEW st, st # "NONE",
           s.locked \in [ContractId -> EscrowLock \cup {NoLock}], NEW d \in ContractId
    PROVE  /\ WellFormed(PayOut(s, c, n, st))
           /\ d # c => PayOut(s, c, n, st).locked[d] = s.locked[d]
           /\ d = c => /\ PayOut(s, c, n, st).locked[d] # NoLock
                       /\ PayOut(s, c, n, st).locked[d].amount = s.locked[d].amount - n
  <1>1. PICK lock : lock = Reduced(s.locked[c], n, st)
    OBVIOUS
  <1>2. lock # NoLock /\ lock.amount = s.locked[c].amount - n
    BY <1>1 DEF Reduced, NoLock
  <1>3. WellFormed(SetLock(s, c, lock))
        /\ SetLock(s, c, lock).locked = [s.locked EXCEPT ![c] = lock]
    BY SetLockLocks
  <1>4. PayOut(s, c, n, st) = SetLock(s, c, lock)
    BY <1>1 DEF PayOut
  <1> QED
    BY <1>2, <1>3, <1>4

\* No rule takes anything from the lock of another contract; none but those of a
\* refund and an award takes more from a lock than a release pays; and none
\* removes it.
LEMMA LocksKept ==
    ASSUME NEW s \in State, NEW tx, Signed(tx), ValidateTransaction(tx, s),
           NEW d \in ContractId, tx.contract = d => tx.type \notin {"REFUND", "ARBITRATE"},
           s.locked[d] # NoLock, NEW u, u = ApplyTransaction(tx, s)
    PROVE  /\ u.locked[d] # NoLock
           /\ u.locked[d].amount = IF tx.type = "RELEASE_MILESTONE" /\ tx.contract = d
                                   THEN s.locked[d].amount - tx.amount
                                   ELSE s.locked[d].amount
  <1>1. /\ WellFormed(s) /\ s.locked \in [ContractId -> EscrowLock \cup {NoLock}]
        /\ tx.type \in TxType /\ tx.amount \in Int
    BY LedgerAssumption DEF State, WellFormed, Signed, Int64
  <1>2. PICK c, x, lock : c = tx.contract /\ x = tx.amount /\ lock = GetLock(s, c)
    OBVIOUS
  <1>3. /\ lock.status # "NONE" => c \in ContractId /\ lock = s.locked[c]
        /\ s.locked[d].amount \in Int
    BY <1>1, <1>2, LedgerAssumption DEF GetLock, NoLock, EscrowLock, Int64
  <1>4. CASE tx.type = "MINT"
    BY <1>1, <1>4, ApplyCases, CreditLocks
  <1>5. CASE tx.type = "TRANSFER"
    <2>1. PICK p : p = Spend(s, tx.from, tx.amount)
      OBVIOUS
    <2>2. u = Credit(p, tx.to, tx.amount)
      BY <1>5, <2>1, ApplyCases DEF ApplyTransfer
    <2>3. WellFormed(p) /\ p.locked = s.locked
      BY <1>1, <2>1, SpendLocks
    <2>4. u.locked = s.locked
      BY <2>2, <2>3, CreditLocks
    <2> QED
      BY <1>5, <2>4
  <1>6. CASE tx.type = "LOCK"
    <2>1. c # d
      BY <1>2, <1>6, ValidCases DEF LockValid, GetLock
    <2>2. PICK p, new : /\ p = Spend(s, tx.from, x) /\ u = SetLock(p, c, new)
      BY <1>2, <1>6, ApplyCases DEF ApplyLock
    <2>3. WellFormed(p)
      BY <1>1, <2>2, SpendLocks
    <2>4. SetLock(p, c, new).locked = [p.locked EXCEPT ![c] = new]
      BY <2>3, SetLockLocks
    <2>5. p.locked = s.locked
      BY <1>1, <2>2, SpendLocks
    <2>6. u.locked = [s.locked EXCEPT ![c] = new]
      BY <2>2, <2>4, <2>5
    <2> QED
      BY <1>1, <1>6, <2>1, <2>6
  <1>7. CASE tx.type = "RELEASE_MILESTONE"
    <2>1. lock.status = "LOCKED"
      BY <1>2, <1>7, ValidCases DEF ReleaseValid
    <2>2. c \in ContractId /\ lock = s.locked[c]
      BY <1>3, <2>1
    <2>3. PICK st, p : /\ st # "NONE" /\ p = PayOut(s, c, x, st) /\ u = Credit(p, tx.to, x)
      <3>1. PICK st : st = IF lock.amount = x THEN "RELEASED" ELSE lock.status
        OBVIOUS
      <3>2. u = Credit(PayOut(s, c, x, st), tx.to, x)
        BY <1>2, <1>7, <2>2, <3>1, ApplyCases DEF ApplyRelease
      <3> QED
        BY <2>1, <3>1, <3>2
    <2>4. /\ WellFormed(PayOut(s, c, x, st))
          /\ d # c => PayOut(s, c, x, st).locked[d] = s.locked[d]
          /\ d = c => /\ PayOut(s, c, x, st).locked[d] # NoLock
                      /\ PayOut(s, c, x, st).locked[d].amount = s.locked[d].amount - x
      <3>1. st # "NONE"
        BY <2>3
      <3> QED
        BY <1>1, <2>2, <3>1, PayOutLocks
    <2>5. u.locked = p.locked
      BY <2>3, <2>4, CreditLocks
    <2> QED
      BY <1>2, <1>7, <2>3, <2>4, <2>5
  <1>8. CASE tx.type = "FREEZE_DISPUTE"
    <2>1. c \in ContractId
      BY <1>2, <1>3, <1>8, ValidCases DEF FreezeValid
    <2>2. u = PayOut(s, c, 0, "FROZEN")
      BY <1>2, <1>8, ApplyCases DEF ApplyFreeze
    <2>3. PICK n, st : n = 0 /\ st = "FROZEN"
      OBVIOUS
    <2>4. /\ d # c => PayOut(s, c, n, st).locked[d] = s.locked[d]
          /\ d = c => /\ PayOut(s, c, n, st).locked[d] # NoLock
                      /\ PayOut(s, c, n, st).locked[d].amount = s.locked[d].amount - n
      <3>1. st # "NONE"
        BY <2>3
      <3> QED
        BY <1>1, <2>1, <3>1, PayOutLocks
    <2> QED
      BY <1>3, <1>8, <2>2, <2>3, <2>4
  <1>9. CASE tx.type \in {"REFUND", "ARBITRATE"}
    <2>1. c \in ContractId /\ c # d
      BY <1>2, <1>3, <1>9, ValidCases DEF RefundValid, ArbitrateValid
    <2>2. PICK st, m, p : st # "NONE" /\ p = PayOut(s, c, m, st) /\ u = Credit(p, tx.to, m)
      <3>1. CASE tx.type = "REFUND"
        <4>1. PICK m : m = s.locked[c].amount
          OBVIOUS
        <4>2. u = Credit(PayOut(s, c, m, "REFUNDED"), tx.to, m)
          BY <1>2, <3>1, <4>1, ApplyCases DEF ApplyRefund
        <4> QED
          BY <4>2
      <3>2. CASE tx.type = "ARBITRATE"
        <4>1. PICK st : st = IF s.locked[c].amount = x THEN "RELEASED" ELSE "LOCKED"
          OBVIOUS
        <4>2. u = Credit(PayOut(s, c, x, st), tx.to, x)
          BY <1>2, <3>2, <4>1, ApplyCases DEF ApplyArbitrate
        <4> QED
          BY <4>1, <4>2
      <3> QED
        BY <1>9, <3>1, <3>2
    <2>3. WellFormed(p) /\ p.locked[d] = s.locked[d]
      <3>1. st # "NONE"
        BY <2>2
      <3> QED
        BY <1>1, <2>1, <2>2, <3>1, PayOutLocks
    <2>4. u.locked = p.locked
      BY <2>2, <2>3, CreditLocks
    <2> QED
      BY <1>2, <1>9, <2>3, <2>4
  <1> QED
    BY <1>1, <1>4, <1>5, <1>6, <1>7, <1>8, <1>9 DEF TxType

\* A block that holds a release of a contract takes it from what waits and from
\* the lock.
LEMMA CommitLedgered ==
    ASSUME IInv, PostedKnown, CommitBlock,
           NEW c \in ContractId, NEW deal, NEW st, NEW n, Ledgered(c, deal, st, n)
    PROVE  Ledgered(c, deal, st, n)'
  <1>1. PICK tx \in posted :
            /\ ValidateTransaction(tx, state) /\ state' = ApplyTransaction(tx, state)
            /\ chain' = Append(chain, tx) /\ UNCHANGED <<posted, steered>>
    BY DEF CommitBlock
  <1>2. /\ state \in SoundState /\ posted \in SUBSET EscrowTx /\ IsFiniteSet(Releases(c))
        /\ chain \in Seq(EscrowTx)
    BY PostedProps DEF IInv, Typed, PostedKnown
  <1>3. Signed(tx) /\ state \in State /\ tx.amount \in Int
    BY <1>2, LedgerAssumption DEF EscrowTx, Signed, SoundState, Int64
  <1>4. /\ Range(chain') = Range(chain) \cup {tx}
        /\ DOMAIN chain \subseteq DOMAIN chain'
        /\ \A i \in DOMAIN chain : chain'[i] = chain[i]
        /\ \E i \in DOMAIN chain' : i \notin DOMAIN chain /\ chain'[i] = tx
    <2>1. PICK q, r : q = chain /\ r = chain'
      OBVIOUS
    <2>2. OneLonger(q, tx, r)
      BY <1>1, <1>2, <2>1 DEF OneLonger
    <2>3. /\ Range(r) = Range(q) \cup {tx}
          /\ DOMAIN q \subseteq DOMAIN r /\ \A i \in DOMAIN q : r[i] = q[i]
          /\ \E i \in DOMAIN r : i \notin DOMAIN q /\ r[i] = tx
      BY <2>2, OneMore
    <2>4. Range(chain') = Range(chain) \cup {tx}
      BY <2>1, <2>3
    <2>5. DOMAIN chain \subseteq DOMAIN chain'
      BY <2>1, <2>3
    <2>6. \A i \in DOMAIN chain : chain'[i] = chain[i]
      BY <2>1, <2>3
    <2>7. \E i \in DOMAIN chain' : i \notin DOMAIN chain /\ chain'[i] = tx
      BY <2>1, <2>3
    <2> QED
      BY <2>4, <2>5, <2>6, <2>7
  <1>5. Later
    BY <1>1, <1>4 DEF Later
  <1>6. PICK P, S, R : P = posted /\ S = Releases(c) /\ R = Releases(c)'
    OBVIOUS
  <1>7. /\ P \in SUBSET EscrowTx /\ S \subseteq P /\ R = S \ {tx} /\ R \subseteq P
        /\ IsFiniteSet(S)
        /\ tx \in S => tx.type = "RELEASE_MILESTONE" /\ tx.contract = c
    BY <1>1, <1>2, <1>4, <1>6 DEF Releases
  <1>8. Waiting(c) = AmountOf(P, S) /\ Waiting(c)' = AmountOf(P, R)
    BY <1>1, <1>6 DEF Waiting, AmountOf
  <1>9. ASSUME Plain(c)', tx.type = "RELEASE_MILESTONE", tx.contract = c
        PROVE  tx \in S
    <2>1. ASSUME tx \in Range(chain) PROVE FALSE
      <3>1. PICK i \in DOMAIN chain : chain[i] = tx
        BY <2>1 DEF Range
      <3>2. PICK j \in DOMAIN chain' : j \notin DOMAIN chain /\ chain'[j] = tx
        BY <1>4
      <3>3. i \in DOMAIN chain' /\ chain'[i] = chain'[j] /\ i # j
        BY <1>4, <3>1, <3>2
      <3> QED
        BY <1>9, <3>2, <3>3 DEF Plain, PaidByHandlers
    <2> QED
      BY <1>1, <1>6, <1>9, <2>1 DEF Releases
  <1>10. ASSUME Plain(c)', state.locked[c] # NoLock
        PROVE  /\ state'.locked[c] # NoLock
               /\ state'.locked[c].amount - Waiting(c)' = state.locked[c].amount - Waiting(c)
    <2>1. tx.contract = c => tx.type \notin {"REFUND", "ARBITRATE"}
      BY <1>1, <1>10 DEF Plain, PaidByHandlers
    <2>2. /\ state'.locked[c] # NoLock
          /\ state'.locked[c].amount = IF tx.type = "RELEASE_MILESTONE" /\ tx.contract = c
                                       THEN state.locked[c].amount - tx.amount
                                       ELSE state.locked[c].amount
      BY <1>1, <1>3, <1>10, <2>1, LocksKept
    <2>3. PICK x, y : x = state.locked[c].amount /\ y = state'.locked[c].amount
      OBVIOUS
    <2>4. x \in Int
      BY <1>3, <2>3, LedgerAssumption DEF State, EscrowLock, NoLock, Int64
    <2>5. CASE tx \in S
      <3>1. AmountOf(P, S) - AmountOf(P, R) = tx.amount
        BY <1>7, <2>5, AmountLess
      <3>2. AmountOf(P, S) \in Int /\ AmountOf(P, R) \in Int
        BY <1>7, <2>5, AmountLess
      <3>3. y = x - tx.amount
        BY <1>7, <2>2, <2>3, <2>5
      <3> QED
        BY <1>3, <1>8, <2>2, <2>3, <2>4, <3>1, <3>2, <3>3
    <2>6. CASE tx \notin S
      <3>1. R = S
        BY <1>7, <2>6
      <3>2. y = x
        BY <1>9, <1>10, <2>2, <2>3, <2>6
      <3> QED
        BY <1>8, <2>2, <2>3, <3>1, <3>2
    <2> QED
      BY <2>5, <2>6
  <1>11. Releases(c)' \subseteq Releases(c)
    BY <1>6, <1>7
  <1> QED
    BY <1>5, <1>10, <1>11, LedgeredMoves

\* A transaction is posted that is no release of contract c, or no handler's.
LEMMA PostedGrows ==
    ASSUME IInv, PostedKnown, NEW tx, posted' = posted \cup {tx},
           UNCHANGED <<state, chain, steered>>, posted' \subseteq EscrowTx,
           NEW c, tx.type # "RELEASE_MILESTONE" \/ tx.contract # c \/ tx.signer # Authority
    PROVE  /\ Plain(c)' => Releases(c)' = Releases(c)
           /\ Later
           /\ \A deal, st, n : Ledgered(c, deal, st, n) => Ledgered(c, deal, st, n)'
  <1>1. Plain(c)' => Releases(c)' = Releases(c)
    BY DEF Releases, Plain, PaidByHandlers
  <1>2. posted \in SUBSET EscrowTx /\ IsFiniteSet(Releases(c))
    BY PostedProps
  <1>3. PICK P, Q, S : P = posted /\ Q = posted' /\ S = Releases(c)
    OBVIOUS
  <1>4. ASSUME Plain(c)' PROVE Waiting(c)' = Waiting(c)
    <2>1. Waiting(c) = AmountOf(P, S) /\ Waiting(c)' = AmountOf(Q, S)
      BY <1>1, <1>3, <1>4 DEF Waiting, AmountOf
    <2>2. /\ P \in SUBSET EscrowTx /\ Q \in SUBSET EscrowTx /\ S \subseteq P
          /\ S \subseteq Q /\ IsFiniteSet(S)
      BY <1>2, <1>3 DEF Releases
    <2> QED
      BY <2>1, <2>2, AmountSame
  <1>5. Later
    BY DEF Later
  <1> QED
    BY <1>1, <1>4, <1>5, LedgeredMoves

\* A release is posted: its milestone stays open a little longer.
LEMMA ReleaseEnters ==
    ASSUME IInv, PostedKnown, NEW tx, posted' = posted \cup {tx},
           UNCHANGED <<state, chain>>, tx \notin posted, tx \notin Range(chain),
           posted' \subseteq EscrowTx, NEW c \in ContractId,
           tx.type = "RELEASE_MILESTONE", tx.contract = c,
           NEW deal, Balanced(c, deal, 0)
    PROVE  Balanced(c, deal, tx.amount)'
  <1>1. posted \in SUBSET EscrowTx /\ IsFiniteSet(Releases(c)) /\ state \in SoundState
    BY PostedProps DEF IInv, Typed
  <1>2. PICK P, Q, S, R : P = posted' /\ Q = posted /\ S = Releases(c)' /\ R = Releases(c)
    OBVIOUS
  <1>3. /\ P \in SUBSET EscrowTx /\ Q \in SUBSET EscrowTx /\ S \subseteq P
        /\ R = S \ {tx} /\ R \subseteq Q /\ tx \in S
    BY <1>1, <1>2 DEF Releases
  <1>4. IsFiniteSet(S)
    <2>1. S = R \cup {tx}
      BY <1>3
    <2> QED
      BY <1>1, <1>2, <2>1, FS_AddElement
  <1>5. AmountOf(P, S) - AmountOf(Q, R) = tx.amount
    BY <1>3, <1>4, AmountLess
  <1>6. AmountOf(P, S) \in Int /\ AmountOf(Q, R) \in Int /\ tx.amount \in Int
    BY <1>3, <1>4, AmountLess
  <1>7. Waiting(c)' = AmountOf(P, S) /\ Waiting(c) = AmountOf(Q, R)
    BY <1>2 DEF Waiting, AmountOf
  <1>8. PICK x \in Int : x = state.locked[c].amount
    BY <1>1, LedgerAssumption DEF SoundState, State, EscrowLock, NoLock, Int64
  <1>9. PICK m : m = RemainingAmount(deal.milestones)
    OBVIOUS
  <1>10. state.locked[c] # NoLock /\ m = x - Waiting(c) + 0
    BY <1>8, <1>9 DEF Balanced
  <1>11. m = x - Waiting(c)' + tx.amount
    BY <1>5, <1>6, <1>7, <1>10
  <1> QED
    BY <1>8, <1>9, <1>10, <1>11 DEF Balanced

\* What the one handler and the books say of a contract.
LEMMA BookProps ==
    ASSUME OneAtATime, BetweenInv, Books, NEW t \in Handlers, NEW c \in ContractId
    PROVE  /\ registry[c] = 0 /\ Plain(c) => Releases(c) = {}
           /\ registry[c] # 0 => BookOf(c, th[t])
           /\ th[t].pc # "idle" => Booking(th[t])
           /\ IInv /\ PostedKnown /\ posted \in SUBSET EscrowTx /\ ops \in Nat
  <1>1. IInv /\ PostedKnown
    BY DEF BetweenInv, SerialInv, Books
  <1>2. posted \in SUBSET EscrowTx /\ ops \in Nat
    BY <1>1 DEF IInv, Typed
  <1>3. registry[c] # 0 => BookOf(c, th[t])
    BY DEF Books, OneAtATime
  <1> QED
    BY <1>1, <1>2, <1>3 DEF Books

\* A handler that waits for no release.
LEMMA NothingDue ==
    ASSUME NEW r, NEW c, r.pc # "resolve"
    PROVE  Due(r, c) = 0
  BY DEF Due

\* The posts of a step that the books do not see.
LEMMA PostedStays ==
    ASSUME IInv, PostedKnown, Unseen, ops' \in Nat, ops <= ops'
    PROVE  PostedKnown'
  <1>1. posted \in SUBSET EscrowTx /\ ops \in Nat
    BY DEF IInv, Typed
  <1>2. ASSUME NEW tx \in posted, IsRelease(tx) PROVE tx.nonce <= ops'
    <2>1. tx.nonce \in Nat /\ tx.nonce <= ops
      BY <1>1, <1>2 DEF EscrowTx, PostedKnown
    <2> QED
      BY <1>1, <2>1
  <1> QED
    BY <1>2 DEF PostedKnown, Unseen

\* A request changes no contract and nothing the books read.
LEMMA RequestBooks ==
    ASSUME OneAtATime, BetweenInv, Books, NEW t \in Handlers, NEW r, th[t].pc = "idle",
           th' = [th EXCEPT ![t] = r], r.pc # "resolve", Booking(r)',
           UNCHANGED registry, Unseen, ops' \in Nat, ops <= ops',
           \A o \in 1 .. Len(heap) : heap'[o] = heap[o]
    PROVE  Books'
  <1>1. IInv /\ PostedKnown
    BY DEF BetweenInv, SerialInv, Books
  <1>2. PostedKnown'
    BY <1>1, PostedStays
  <1>3. th = [u \in Handlers |-> th[u]]
    BY <1>1 DEF IInv, Typed
  <1>4. \A u \in Handlers : u = t /\ th'[u] = r
    BY <1>3 DEF OneAtATime
  <1>5. \A u \in Handlers : Booking(th[u])'
    BY <1>4 DEF Booking, Asked
  <1>6. ASSUME NEW c \in ContractId
        PROVE  /\ registry'[c] = 0 /\ Plain(c)' => Releases(c)' = {}
               /\ registry'[c] # 0 => BookOf(c, th[t])'
    <2>1. Releases(c)' = Releases(c) /\ (Plain(c)' => Plain(c))
      BY UnseenLater, PlainBefore
    <2>2. CASE registry[c] = 0
      BY <2>1, <2>2, BookProps
    <2>3. CASE registry[c] # 0
      <3>1. PICK deal : deal = heap[registry[c]]
        OBVIOUS
      <3>2. Ledgered(c, deal, deal.state, 0)
        BY <2>3, <3>1, BookProps, NothingDue DEF BookOf, Deal
      <3>3. Ledgered(c, deal, deal.state, 0)'
        BY <3>2, LedgeredSame
      <3>4. heap'[registry'[c]] = deal
        BY <1>1, <2>3, <3>1, DealProps
      <3>5. Due(th[t], c)' = 0
        BY <1>4 DEF Due
      <3> QED
        BY <2>3, <3>3, <3>4, <3>5 DEF BookOf, Deal
    <2> QED
      BY <2>2, <2>3
  <1> QED
    BY <1>2, <1>5, <1>6 DEF Books

\* The object that a handler holds is that of its contract alone.
LEMMA OtherDeals ==
    ASSUME IInv, NEW t \in Handlers, th[t].pc # "idle", NEW c \in ContractId,
           c # th[t].contract, registry[c] # 0
    PROVE  registry[c] \in 1 .. Len(heap) /\ registry[c] # th[t].obj
  <1>1. PICK owner : OwnedBy(owner)
    BY DEF IInv, Owned
  <1>2. owner[registry[c]] = c /\ th[t].obj # 0
    BY <1>1, HolderProps DEF OwnedBy
  <1>3. owner[th[t].obj] = th[t].contract
    BY <1>1, <1>2 DEF OwnedBy
  <1> QED
    BY <1>2, <1>3, DealProps

\* A step of a handler at work keeps the books of other contracts: it changes
\* what is accepted, and its contract k, and leaves the world state.
LEMMA WorkBooks ==
    ASSUME OneAtATime, BetweenInv, Books, NEW t \in Handlers, NEW r, NEW k,
           th[t].pc # "idle", k = th[t].contract, th' = [th EXCEPT ![t] = r],
           r.pc # "idle" => Booking(r)', r.pc = "resolve" => r.contract = k,
           PostedKnown', Later,
           \A c \in ContractId : c # k =>
                /\ registry'[c] = registry[c]
                /\ Plain(c)' => Releases(c)' = Releases(c)
                /\ \A deal, st : Ledgered(c, deal, st, 0) => Ledgered(c, deal, st, 0)',
           \A o \in 1 .. Len(heap) : o # th[t].obj => heap'[o] = heap[o],
           registry'[k] # 0, BookOf(k, r)'
    PROVE  Books'
  <1>1. IInv /\ PostedKnown /\ k \in ContractId
    BY HolderProps DEF BetweenInv, SerialInv, Books
  <1>3. th = [u \in Handlers |-> th[u]]
    BY <1>1 DEF IInv, Typed
  <1>4. \A u \in Handlers : u = t /\ th'[u] = r
    BY <1>3 DEF OneAtATime
  <1>5. \A u \in Handlers : th'[u].pc # "idle" => Booking(th[u])'
    BY <1>4 DEF Booking, Asked
  <1>6. ASSUME NEW c \in ContractId, c # k
        PROVE  /\ registry'[c] = 0 /\ Plain(c)' => Releases(c)' = {}
               /\ registry'[c] # 0 => BookOf(c, th[t])'
    <2>1. CASE registry[c] = 0
      BY <1>6, <2>1, BookProps, PlainBefore
    <2>2. CASE registry[c] # 0
      <3>1. PICK deal : deal = heap[registry[c]]
        OBVIOUS
      <3>2. Due(th[t], c) = 0 /\ Due(th[t], c)' = 0
        BY <1>4, <1>6 DEF Due
      <3>3. Ledgered(c, deal, deal.state, 0)
        BY <2>2, <3>1, <3>2, BookProps DEF BookOf, Deal
      <3>4. Ledgered(c, deal, deal.state, 0)'
        BY <1>6, <3>3
      <3>5. heap'[registry'[c]] = deal
        BY <1>1, <1>6, <2>2, <3>1, OtherDeals
      <3> QED
        BY <1>6, <2>2, <3>2, <3>4, <3>5 DEF BookOf, Deal
    <2> QED
      BY <2>1, <2>2
  <1>7. BookOf(k, th[t])'
    BY <1>4 DEF BookOf, Due, Asked
  <1>8. \A c \in ContractId : registry'[c] # 0 => BookOf(c, th[t])'
    BY <1>6, <1>7
  <1>9. \A c \in ContractId : registry'[c] = 0 /\ Plain(c)' => Releases(c)' = {}
    BY <1>6
  <1> QED
    BY <1>5, <1>8, <1>9 DEF Books

\* So does a step that posts nothing.
LEMMA LocalBooks ==
    ASSUME OneAtATime, BetweenInv, Books, NEW t \in Handlers, NEW r, NEW k, NEW e,
           th[t].pc # "idle", k = th[t].contract, th' = [th EXCEPT ![t] = r],
           r.pc # "idle" => Booking(r)', r.pc # "resolve",
           Unseen, UNCHANGED ops,
           \A c \in ContractId : c # k => registry'[c] = registry[c],
           \A o \in 1 .. Len(heap) : o # th[t].obj => heap'[o] = heap[o],
           registry'[k] = th[t].obj, e = heap'[th[t].obj], Ledgered(k, e, e.state, 0)
    PROVE  Books'
  <1>1. IInv /\ PostedKnown /\ ops \in Nat
    BY BookProps, HolderProps DEF BetweenInv, SerialInv, Books
  <1>2. PostedKnown'
    BY <1>1, PostedStays
  <1>3. /\ Later
        /\ \A c : /\ Releases(c)' = Releases(c)
                  /\ \A deal, st : Ledgered(c, deal, st, 0) => Ledgered(c, deal, st, 0)'
    BY LedgeredSame, UnseenLater
  <1>4. Due(r, k)' = 0
    BY DEF Due
  <1>5. Ledgered(k, e, e.state, 0)'
    BY <1>3
  <1>6. heap'[registry'[k]] = e
    OBVIOUS
  <1>7. BookOf(k, r)'
    BY <1>4, <1>5, <1>6 DEF BookOf, Deal
  <1>8. registry'[k] # 0
    BY <1>1, HolderProps
  <1> QED
    BY <1>2, <1>3, <1>7, <1>8, WorkBooks

\* Nothing approved leaves everything open.
LEMMA AllOpen ==
    ASSUME NEW deal, With(deal, "PENDING") = DOMAIN deal.milestones
    PROVE  RemainingAmount(deal.milestones) = TotalAmount(deal.milestones)
  <1>1. PICK ms : ms = deal.milestones
    OBVIOUS
  <1>2. \A i \in DOMAIN ms : ms[i].status = "PENDING"
    BY <1>1 DEF With
  <1>3. [i \in DOMAIN ms |-> IF ms[i].status = "APPROVED" THEN 0 ELSE ms[i].amount]
            = [i \in DOMAIN ms |-> ms[i].amount]
    BY <1>2
  <1> QED
    BY <1>1, <1>3 DEF RemainingAmount, TotalAmount, Amounts

\* The books of the contract that a request gets.
LEMMA RequestBook ==
    ASSUME OneAtATime, BetweenInv, Books, NEW t \in Handlers, NEW c \in ContractId,
           Ready(t, c), NEW deal, deal = heap[registry[c]]
    PROVE  Ledgered(c, deal, deal.state, 0)
  <1>1. th[t].pc = "idle" /\ registry[c] # 0
    BY DEF Ready
  <1>2. BookOf(c, th[t]) /\ Due(th[t], c) = 0
    BY <1>1, BookProps, NothingDue
  <1> QED
    BY <1>2 DEF BookOf, Deal

\* Requests that sign nothing: the books hold for the state that comes next.
LEMMA ServeBooks ==
    ASSUME OneAtATime, BetweenInv, Books, NEW t \in Handlers, NEW c \in ContractId,
           Ready(t, c), NEW op, NEW id, NEW to, NEW targets, NEW mark,
           Serve(t, op, c, id, "write", targets, mark), Head(targets) = to,
           UNCHANGED <<heap, registry, ops>>, Unseen,
           Plain(c)' => Ledgered(c, heap[registry[c]], to, 0)
    PROVE  Books'
  <1>1. PICK r : r = [Idle EXCEPT !.pc = "write", !.op = op, !.contract = c,
                    !.obj = registry[c], !.milestone = id, !.targets = targets,
                    !.mark = mark]
    OBVIOUS
  <1>2. r.pc = "write" /\ r.contract = c /\ r.obj = registry[c] /\ Head(r.targets) = to
    BY <1>1 DEF Idle
  <1>3. th' = [th EXCEPT ![t] = r] /\ th[t].pc = "idle"
    BY <1>1 DEF Serve, Ready
  <1>4. PICK deal : deal = heap[registry[c]]
    OBVIOUS
  <1>5. Ledgered(c, deal, to, 0)'
    BY <1>4, LedgeredSame
  <1>6. Booking(r)'
    BY <1>2, <1>4, <1>5 DEF Booking
  <1>7. ops' \in Nat /\ ops <= ops'
    <2>1. ops \in Nat /\ ops' = ops
      BY BookProps
    <2> QED
      BY <2>1
  <1>8. UNCHANGED registry /\ r.pc # "resolve"
        /\ \A o \in 1 .. Len(heap) : heap'[o] = heap[o]
    BY <1>2
  <1> QED
    BY <1>3, <1>6, <1>7, <1>8, RequestBooks

\* Requests that sign a transaction: a release asks for the amount of its
\* milestone, and is the newest.
LEMMA SignBooks ==
    ASSUME OneAtATime, BetweenInv, Books, NEW t \in Handlers, NEW c \in ContractId,
           Ready(t, c), NEW op, NEW id, NEW type, NEW to, NEW amount, NEW terminate,
           Sign(t, op, c, id, type, to, amount, terminate),
           NEW deal, deal = heap[registry[c]],
           op = "release" => amount = deal.milestones[findMilestone(deal, id)].amount
    PROVE  Books'
  <1>1. PICK r : /\ r.pc = "submit" /\ r.op = op /\ r.contract = c /\ r.milestone = id
                 /\ r.obj = registry[c] /\ th' = [th EXCEPT ![t] = r]
                 /\ r.tx.amount = amount /\ r.tx.nonce = ops' /\ r.tx.signer = Authority
    <2>1. PICK tx : tx = [type |-> type, from |-> Authority, to |-> to,
                          amount |-> amount, contract |-> c, nonce |-> ops',
                          signer |-> Authority]
      OBVIOUS
    <2>2. PICK r : r = [Idle EXCEPT !.pc = "submit", !.op = op, !.contract = c,
                          !.obj = registry[c], !.milestone = id,
                          !.terminate = terminate, !.tx = tx]
      OBVIOUS
    <2>3. th' = [th EXCEPT ![t] = r]
      BY <2>1, <2>2 DEF Sign
    <2>4. /\ r.pc = "submit" /\ r.op = op /\ r.contract = c /\ r.milestone = id
          /\ r.obj = registry[c] /\ r.tx = tx
      BY <2>2 DEF Idle
    <2>5. tx.amount = amount /\ tx.nonce = ops' /\ tx.signer = Authority
      BY <2>1
    <2> QED
      BY <2>3, <2>4, <2>5
  <1>2. UNCHANGED <<heap, registry, posted>> /\ Unseen /\ ops' = ops + 1
    BY DEF Sign, Unseen
  <1>3. /\ IInv /\ PostedKnown /\ posted \in SUBSET EscrowTx /\ ops \in Nat
        /\ th[t].pc = "idle"
    BY BookProps DEF Ready
  <1>4. ops' \in Nat /\ ops < ops' /\ ops <= ops'
    BY <1>2, <1>3
  <1>5. ASSUME NEW tx \in posted, IsRelease(tx) PROVE tx.nonce < ops'
    <2>1. tx.nonce \in Nat /\ tx.nonce <= ops
      BY <1>3, <1>5 DEF EscrowTx, PostedKnown
    <2> QED
      BY <1>3, <1>4, <2>1
  <1>6. heap'[r.obj] = deal
    BY <1>1, <1>2
  <1>7. op = "release" => r.tx.amount = Asked(r)'
    BY <1>1, <1>6 DEF Asked
  <1>8. Booking(r)'
    BY <1>1, <1>2, <1>4, <1>5, <1>7 DEF Booking
  <1> QED
    BY <1>1, <1>2, <1>3, <1>4, <1>8, RequestBooks

\* The requests.
LEMMA RequestKeepsBooks ==
    ASSUME OneAtATime, BetweenInv, AllSized, Books,
           NEW t \in Handlers, Request(t)
    PROVE  Books'
  <1>1. /\ IInv /\ Len(heap) \in Nat /\ heap \in Seq(Contract) /\ ops \in Nat
        /\ th = [u \in Handlers |-> th[u]]
    BY HandlerProps DEF BetweenInv, SerialInv, IInv, Typed
  <1>2. CASE CreateContract(t)
    <2>1. PICK c \in ContractId, offer \in Offers :
            /\ th[t].pc = "idle" /\ registry[c] = 0
            /\ heap' = Append(heap, NewContract(offer))
            /\ th' = [th EXCEPT ![t] = [Idle EXCEPT !.pc = "put", !.op = "create",
                                    !.contract = c, !.obj = Len(heap) + 1]]
            /\ UNCHANGED <<registry, ops>> /\ Unseen
      BY <1>2 DEF CreateContract, Unseen
    <2>2. PICK n \in Nat, m \in Nat : n = Len(heap) /\ m = n + 1
      BY <1>1
    <2>3. PICK r : r = [Idle EXCEPT !.pc = "put", !.op = "create", !.contract = c,
                                    !.obj = m]
      OBVIOUS
    <2>4. r.pc = "put" /\ r.obj = m /\ th' = [th EXCEPT ![t] = r]
      BY <2>1, <2>2, <2>3 DEF Idle
    <2>5. heap'[m] = NewContract(offer) /\ \A o \in 1 .. Len(heap) : heap'[o] = heap[o]
      BY <1>1, <2>1, <2>2
    <2>6. NewContract(offer).state = "DRAFT"
      BY DEF NewContract
    <2>7. Booking(r)'
      BY <2>4, <2>5, <2>6 DEF Booking
    <2>8. ops' \in Nat /\ ops <= ops'
      BY <1>1, <2>1
    <2> QED
      BY <2>1, <2>4, <2>5, <2>7, <2>8, RequestBooks
  <1>3. CASE AdvanceContract(t)
    <2>1. PICK c \in ContractId, to \in AdvanceTargets :
            /\ Ready(t, c) /\ Transition(heap[registry[c]].state, to)
            /\ Serve(t, "advance", c, "none", "write", <<to>>, "none")
            /\ to \in Signing \/ c \in steered'
            /\ UNCHANGED <<heap, registry, ops>> /\ Unseen
      BY <1>3 DEF AdvanceContract, Unseen
    <2>2. Head(<<to>>) = to
      OBVIOUS
    <2> SUFFICES ASSUME Plain(c)'
                 PROVE  Ledgered(c, heap[registry[c]], to, 0)
      BY <2>1, <2>2, ServeBooks
    <2>3. PICK deal \in Contract : deal = heap[registry[c]]
      BY <2>1, RequestDeal
    <2>4. /\ deal.state \in ContractState /\ Transition(deal.state, to)
          /\ Ledgered(c, deal, deal.state, 0)
      BY <2>1, <2>3, RequestDeal, RequestBook
    <2>5. to \in Signing
      BY <2>1 DEF Plain
    <2>6. to \in ContractState /\ to \in {"DRAFT", "PENDING_SIGNATURE", "SIGNED"}
      BY <2>4, <2>5, TransitionKnown DEF Signing
    <2>7. deal.state \in {"DRAFT", "PENDING_SIGNATURE"}
      BY <2>4, <2>6, Lifecycle
    <2> QED
      BY <2>3, <2>4, <2>6, <2>7 DEF Ledgered
  <1>4. CASE ConfirmFunded(t)
    <2>1. PICK c \in ContractId :
            /\ Ready(t, c) /\ Transition(heap[registry[c]].state, "FUNDED")
            /\ GetLock(state, c) # NoLock
            /\ GetLock(state, c).amount = heap[registry[c]].total
            /\ Serve(t, "confirm", c, "none", "write", <<"FUNDED", "IN_PROGRESS">>, "none")
            /\ UNCHANGED <<heap, registry, ops>> /\ Unseen
      BY <1>4 DEF ConfirmFunded, Unseen
    <2> SUFFICES ASSUME Plain(c)
                 PROVE  Ledgered(c, heap[registry[c]], "FUNDED", 0)
      <3>1. Head(<<"FUNDED", "IN_PROGRESS">>) = "FUNDED"
        OBVIOUS
      <3>2. Plain(c)' => Plain(c)
        BY <2>1, UnseenLater, PlainBefore
      <3> QED
        BY <2>1, <3>1, <3>2, ServeBooks
    <2>2. PICK deal \in Contract : deal = heap[registry[c]]
      BY <2>1, RequestDeal
    <2>3. /\ Told(deal) /\ deal.state \in ContractState
          /\ Ledgered(c, deal, deal.state, 0)
      BY <2>1, <2>2, RequestDeal, RequestBook DEF Fine, Story, Plain
    <2>4. deal.state = "SIGNED"
      BY <2>1, <2>2, <2>3, Lifecycle
    <2>5. Releases(c) = {} /\ Waiting(c) = 0
      <3>1. Releases(c) = {}
        BY <2>3, <2>4 DEF Ledgered
      <3> QED
        BY <2>1, <3>1, PostedProps, BookProps
    <2>6. RemainingAmount(deal.milestones) = deal.total
      <3>1. With(deal, "PENDING") = DOMAIN deal.milestones
        BY <2>3, <2>4 DEF Told
      <3>2. registry[c] \in 1 .. Len(heap)
        BY <1>1, <2>1, DealProps DEF Ready
      <3>3. Sized(deal)
        BY <2>2, <3>2 DEF AllSized
      <3> QED
        BY <3>1, <3>3, AllOpen DEF Sized
    <2>7. PICK x \in Int : x = state.locked[c].amount /\ x = deal.total
      <3>1. deal.total \in Int
        BY LedgerAssumption DEF Contract, Int64
      <3> QED
        BY <2>1, <2>2, <3>1 DEF GetLock
    <2>8. state.locked[c] # NoLock
      BY <2>1 DEF GetLock
    <2>9. Balanced(c, deal, 0)
      BY <2>5, <2>6, <2>7, <2>8 DEF Balanced
    <2> QED
      BY <2>2, <2>9 DEF Ledgered
  <1>5. CASE SubmitMilestone(t)
    <2>1. PICK c \in ContractId, id \in MilestoneId :
            /\ Ready(t, c) /\ SubmitAllowed(heap[registry[c]], id)
            /\ Serve(t, "submit", c, id, "write", <<"MILESTONE_REVIEW">>, "SUBMITTED")
            /\ UNCHANGED <<heap, registry, ops>> /\ Unseen
      BY <1>5 DEF SubmitMilestone, Unseen
    <2>2. PICK deal \in Contract : deal = heap[registry[c]]
      BY <2>1, RequestDeal
    <2>3. /\ deal.state \in ContractState /\ Ledgered(c, deal, deal.state, 0)
          /\ Transition(deal.state, "MILESTONE_REVIEW")
      BY <2>1, <2>2, RequestDeal, RequestBook DEF SubmitAllowed
    <2>4. deal.state = "IN_PROGRESS"
      BY <2>3, Lifecycle
    <2>5. Ledgered(c, heap[registry[c]], "MILESTONE_REVIEW", 0)
      BY <2>2, <2>3, <2>4 DEF Ledgered
    <2>6. Head(<<"MILESTONE_REVIEW">>) = "MILESTONE_REVIEW"
      OBVIOUS
    <2> QED
      BY <2>1, <2>5, <2>6, ServeBooks
  <1>6. CASE DisputeMilestone(t)
    <2>1. PICK c \in ContractId, id \in MilestoneId :
            /\ Ready(t, c) /\ DisputeAllowed(heap[registry[c]], id)
            /\ Serve(t, "dispute", c, id, "write", <<"DISPUTED">>, "DISPUTED")
            /\ UNCHANGED <<heap, registry, ops>> /\ Unseen
      BY <1>6 DEF DisputeMilestone, Unseen
    <2>2. PICK deal \in Contract : deal = heap[registry[c]]
      BY <2>1, RequestDeal
    <2>3. /\ deal.state \in ContractState /\ Ledgered(c, deal, deal.state, 0)
          /\ Transition(deal.state, "DISPUTED")
      BY <2>1, <2>2, RequestDeal, RequestBook DEF DisputeAllowed
    <2>4. deal.state = "MILESTONE_REVIEW"
      BY <2>3, Lifecycle
    <2>5. Ledgered(c, heap[registry[c]], "DISPUTED", 0)
      BY <2>2, <2>3, <2>4 DEF Ledgered
    <2>6. Head(<<"DISPUTED">>) = "DISPUTED"
      OBVIOUS
    <2> QED
      BY <2>1, <2>5, <2>6, ServeBooks
  <1>7. CASE ReleaseMilestone(t)
    <2>1. PICK c, id, deal, amount :
            /\ c \in ContractId /\ Ready(t, c) /\ deal = heap[registry[c]]
            /\ amount = deal.milestones[findMilestone(deal, id)].amount
            /\ Sign(t, "release", c, id, "RELEASE_MILESTONE", deal.founder, amount, FALSE)
      BY <1>7 DEF ReleaseMilestone
    <2> QED
      BY <2>1, SignBooks
  <1>8. CASE Arbitrate(t)
    <2>1. PICK op, c, id, amount, terminate, to :
            /\ c \in ContractId /\ Ready(t, c) /\ op = "arbitrate"
            /\ Sign(t, op, c, id, "ARBITRATE", to, amount, terminate)
      BY <1>8 DEF Arbitrate
    <2>2. /\ op # "release" /\ c \in ContractId /\ Ready(t, c)
          /\ Sign(t, op, c, id, "ARBITRATE", to, amount, terminate)
      BY <2>1
    <2>3. PICK deal : deal = heap[registry[c]]
      OBVIOUS
    <2> QED
      BY <2>2, <2>3, SignBooks
  <1>9. CASE Refund(t)
    <2>1. PICK op, c, id, type, to, amount, terminate :
            /\ c \in ContractId /\ Ready(t, c) /\ op = "refund"
            /\ Sign(t, op, c, id, type, to, amount, terminate)
      BY <1>9 DEF Refund
    <2>2. /\ op # "release" /\ c \in ContractId /\ Ready(t, c)
          /\ Sign(t, op, c, id, type, to, amount, terminate)
      BY <2>1
    <2>3. PICK deal : deal = heap[registry[c]]
      OBVIOUS
    <2> QED
      BY <2>2, <2>3, SignBooks
  <1> QED
    BY <1>2, <1>3, <1>4, <1>5, <1>6, <1>7, <1>8, <1>9 DEF Request

\* The contract of a handler at work, and its books.
LEMMA WorkerBook ==
    ASSUME OneAtATime, BetweenInv, Books, NEW t \in Handlers, th[t].pc # "idle",
           registry[th[t].contract] = th[t].obj
    PROVE  /\ Ledgered(th[t].contract, Held(t), Held(t).state, Due(th[t], th[t].contract))
           /\ Booking(th[t]) /\ heap[th[t].obj] = Held(t)
           /\ th[t].obj # 0 /\ th[t].contract \in ContractId
  <1>1. th[t].obj # 0 /\ th[t].contract \in ContractId /\ heap[th[t].obj] = Held(t)
    BY WorkerProps
  <1>2. BookOf(th[t].contract, th[t]) /\ Booking(th[t])
    BY <1>1, BookProps
  <1> QED
    BY <1>1, <1>2 DEF BookOf, Deal

\* An accepted release is posted before its milestone is approved; any other
\* accepted transaction ends the time in which the books must agree.
LEMMA SubmitTxBooks ==
    ASSUME OneAtATime, BetweenInv, Books, NEW t \in Handlers, SubmitTx(t)
    PROVE  Books'
  <1>1. /\ th[t].pc = "submit" /\ UNCHANGED <<heap, registry, state, chain, steered, ops>>
        /\ th[t].pc # "idle" /\ th[t].pc # "put"
    BY DEF SubmitTx
  <1>2. PICK k, deal, tx, op : /\ k = th[t].contract /\ deal = Held(t)
                               /\ tx = th[t].tx /\ op = th[t].op
    OBVIOUS
  <1>3. registry[k] = th[t].obj /\ registry[k] # 0 /\ k \in ContractId
    BY <1>1, <1>2, WorkerProps, Mapped
  <1>4. /\ Ledgered(k, deal, deal.state, 0) /\ Booking(th[t])
        /\ heap[th[t].obj] = deal
    BY <1>1, <1>2, <1>3, WorkerBook, NothingDue
  <1>5. /\ op \in {"release", "arbitrate", "refund"} /\ tx \in EscrowTx
        /\ tx.contract = k
        /\ op = "release" => tx.type = "RELEASE_MILESTONE"
        /\ op # "release" => tx.type \in {"REFUND", "ARBITRATE"}
    BY <1>1, <1>2, WorkerProps DEF HandlerOK, Paying
  <1>6. IInv /\ PostedKnown /\ posted \in SUBSET EscrowTx /\ ops \in Nat
    BY <1>3, BookProps
  <1>7. CASE ~ValidateTransaction(tx, state)
    <2>1. th' = [th EXCEPT ![t] = Idle] /\ Unseen
      BY <1>1, <1>2, <1>7 DEF SubmitTx, SubmitFailed, Unseen
    <2>2. PICK r : r = Idle
      OBVIOUS
    <2>3. th' = [th EXCEPT ![t] = r] /\ r.pc = "idle"
      BY <2>1, <2>2 DEF Idle
    <2>4. deal = heap'[th[t].obj] /\ registry'[k] = th[t].obj
      BY <1>1, <1>3, <1>4
    <2> QED
      BY <1>1, <1>2, <1>4, <2>1, <2>3, <2>4, LocalBooks
  <1>8. CASE ValidateTransaction(tx, state)
    <2>1. PICK r : r = [th[t] EXCEPT !.pc = "resolve", !.tx = NoTx]
      OBVIOUS
    <2>2. th' = [th EXCEPT ![t] = r] /\ posted' = posted \cup {tx}
      BY <1>1, <1>2, <1>8, <2>1, WorkerProps DEF SubmitTx
    <2>3. /\ r.pc = "resolve" /\ r.op = op /\ r.contract = k /\ r.obj = th[t].obj
          /\ r.milestone = th[t].milestone
      BY <1>1, <1>2, <2>1, WorkerProps DEF HandlerFields
    <2>4. posted' \subseteq EscrowTx /\ Later /\ (Plain(k)' => Plain(k) /\ op = "release")
      <3>1. posted' \subseteq EscrowTx /\ Later
        BY <1>1, <1>5, <1>6, <2>2 DEF Later
      <3>2. Plain(k)' => op = "release"
        BY <1>5, <2>2 DEF Plain, PaidByHandlers
      <3> QED
        BY <3>1, <3>2, PlainBefore
    <2>5. PostedKnown'
      <3>1. IsFiniteSet(posted')
        BY <1>6, <2>2, FS_AddElement DEF PostedKnown
      <3>2. op = "release" => tx.nonce <= ops
        BY <1>1, <1>2, <1>4 DEF Booking
      <3>3. IsRelease(tx) => op = "release"
        BY <1>5 DEF IsRelease
      <3>4. chain' \in Seq(EscrowTx) /\ Range(chain') \subseteq posted'
        BY <1>1, <1>6, <2>2 DEF PostedKnown
      <3> QED
        BY <1>1, <1>6, <2>2, <3>1, <3>2, <3>3, <3>4 DEF PostedKnown
    <2>6. ASSUME NEW c, tx.type # "RELEASE_MILESTONE" \/ tx.contract # c
          PROVE  /\ Plain(c)' => Releases(c)' = Releases(c)
                 /\ \A d, st : Ledgered(c, d, st, 0) => Ledgered(c, d, st, 0)'
      BY <1>1, <1>6, <2>2, <2>4, <2>6, PostedGrows
    <2>7. Booking(r)'
      BY <2>3, <2>4 DEF Booking
    <2>8. ASSUME Plain(k)' PROVE Ledgered(k, deal, deal.state, Due(r, k))'
      <3>1. op = "release" /\ Plain(k)
        BY <2>4, <2>8
      <3>2. Told(deal) /\ HasStatus(deal, th[t].milestone, "SUBMITTED") /\ deal \in Contract
        BY <1>1, <1>2, <1>4, <3>1, WorkerProps DEF Working, Fine, Story, Plain, SerialOK
      <3>3. With(deal, "SUBMITTED") # {}
        BY <3>2, FoundWith
      <3>4. deal.state = "MILESTONE_REVIEW"
        BY <3>2, <3>3 DEF Told
      <3>5. /\ tx.amount = Asked(th[t]) /\ tx.signer = Authority
            /\ \A u \in posted : IsRelease(u) => u.nonce < tx.nonce
        BY <1>1, <1>2, <1>4, <3>1 DEF Booking
      <3>6. tx \notin posted
        <4>1. tx.nonce \in Nat
          BY <1>5 DEF EscrowTx
        <4>2. ~(tx.nonce < tx.nonce)
          BY <4>1
        <4> QED
          BY <1>5, <3>1, <3>5, <4>2 DEF IsRelease
      <3>7. Asked(r)' = Asked(th[t])
        BY <1>1, <2>3 DEF Asked
      <3>8. Due(r, k)' = tx.amount
        BY <2>3, <3>1, <3>5, <3>7 DEF Due
      <3>9. Balanced(k, deal, tx.amount)'
        <4>1. Balanced(k, deal, 0)
          BY <1>4, <3>1, <3>4 DEF Ledgered
        <4>2. tx \notin Range(chain)
          BY <1>6, <3>6 DEF PostedKnown
        <4> QED
          BY <1>1, <1>3, <1>5, <1>6, <2>2, <2>4, <3>1, <3>6, <4>1, <4>2, ReleaseEnters
      <3> QED
        BY <3>4, <3>8, <3>9 DEF Ledgered
    <2>9. heap'[registry'[k]] = deal /\ registry'[k] # 0
      BY <1>1, <1>3, <1>4
    <2>10. BookOf(k, r)'
      <3>1. Ledgered(k, deal, deal.state, Due(r, k))'
        BY <2>8 DEF Ledgered
      <3> QED
        BY <2>9, <3>1 DEF BookOf, Deal
    <2>11. \A c \in ContractId : c # k =>
                /\ registry'[c] = registry[c] /\ (Plain(c)' => Releases(c)' = Releases(c))
                /\ \A d, st : Ledgered(c, d, st, 0) => Ledgered(c, d, st, 0)'
      BY <1>1, <1>5, <2>6
    <2>12. \A o \in 1 .. Len(heap) : o # th[t].obj => heap'[o] = heap[o]
      BY <1>1
    <2> QED
      BY <1>1, <1>2, <2>2, <2>3, <2>4, <2>5, <2>7, <2>9, <2>10, <2>11, <2>12, WorkBooks
  <1> QED
    BY <1>7, <1>8

\* A change after which Advance is called: the books hold for the contract as
\* it is now, and for the state it may go to.
LEMMA ChangeBooks ==
    ASSUME OneAtATime, BetweenInv, Books, NEW t \in Handlers, NEW k, NEW e, NEW to,
           k = th[t].contract, th[t].pc = "resolve", ChangeThenAdvance(t, e, to),
           Ledgered(k, e, e.state, 0), Transition(e.state, to) => Ledgered(k, e, to, 0)
    PROVE  Books'
  <1>1. PICK r : r = [th[t] EXCEPT !.pc = "check", !.targets = <<to>>]
    OBVIOUS
  <1>2. /\ th' = [th EXCEPT ![t] = r] /\ heap' = [heap EXCEPT ![th[t].obj] = e]
        /\ UNCHANGED <<registry, ops>> /\ Unseen
    BY <1>1, WorkerProps DEF ChangeThenAdvance, Unseen
  <1>3. r.pc = "check" /\ r.targets = <<to>> /\ r.contract = k /\ r.obj = th[t].obj
    BY <1>1, WorkerProps DEF HandlerFields
  <1>4. /\ heap'[th[t].obj] = e /\ heap'[r.obj] = e
        /\ \A o \in 1 .. Len(heap) : o # th[t].obj => heap'[o] = heap[o]
    BY <1>2, <1>3, WorkerProps
  <1>5. Head(r.targets) = to
    BY <1>3
  <1>6. Ledgered(k, e, to, 0) => Ledgered(k, e, to, 0)'
    BY <1>2, LedgeredSame
  <1>7. Booking(r)'
    BY <1>3, <1>4, <1>5, <1>6 DEF Booking
  <1>8. registry'[k] = th[t].obj
    BY <1>2, WorkerProps, Mapped
  <1>9. r.pc # "resolve" /\ \A c \in ContractId : c # k => registry'[c] = registry[c]
    BY <1>2, <1>3
  <1> QED
    BY <1>2, <1>4, <1>7, <1>8, <1>9, LocalBooks

\* Approving a milestone takes its amount from what is open.
LEMMA ApprovedAmount ==
    ASSUME NEW deal \in Contract, Fits(deal), NEW id, NEW k, k = findMilestone(deal, id),
           NEW st, HasStatus(deal, id, st), st # "APPROVED", NEW e, e = Approved(deal, id)
    PROVE  /\ RemainingAmount(e.milestones)
                = RemainingAmount(deal.milestones) - deal.milestones[k].amount
           /\ RemainingAmount(deal.milestones) \in Int /\ deal.milestones[k].amount \in Int
  <1>1. "APPROVED" \in MilestoneStatus /\ e = SetStatus(deal, id, "APPROVED")
    BY DEF MilestoneStatus, Approved
  <1>2. k # 0 /\ k \in With(deal, st)
    BY FoundWith
  <1>3. e \in Contract /\ SameAmounts(deal, e)
        /\ With(e, "APPROVED") = With(deal, "APPROVED") \cup {k}
        /\ DOMAIN e.milestones = DOMAIN deal.milestones
    BY <1>1, <1>2, MarkMoves, StatusSame
  <1>4. Fits(e) /\ Amounts(e.milestones) = Amounts(deal.milestones)
    BY <1>3, SameFits
  <1>5. PICK f, S, T : f = Amounts(deal.milestones) /\ S = Open(deal) /\ T = Open(e)
    OBVIOUS
  <1>6. T = S \ {k} /\ k \in S /\ S \subseteq DOMAIN deal.milestones
    BY <1>2, <1>3, <1>5 DEF Open, With
  <1>7. IsFiniteSet(S) /\ \A i \in S : f[i] \in Int /\ f[i] = deal.milestones[i].amount
    BY <1>5, <1>6, AmountProps, FS_Subset
  <1>8. /\ SumFunctionOnSet(f, S) = f[k] + SumFunctionOnSet(f, S \ {k})
        /\ SumFunctionOnSet(f, S \ {k}) \in Int
    BY <1>6, <1>7, SumRemove
  <1>9. RemainingAmount(deal.milestones) = SumFunctionOnSet(f, S)
    BY <1>5, RemainingIsSum
  <1>10. RemainingAmount(e.milestones) = SumFunctionOnSet(f, T)
    BY <1>3, <1>4, <1>5, RemainingIsSum
  <1>11. f[k] \in Int /\ f[k] = deal.milestones[k].amount
    BY <1>6, <1>7
  <1> QED
    BY <1>6, <1>8, <1>9, <1>10, <1>11

\* The milestone of an accepted release is approved: what it left open too
\* much is gone.
LEMMA ApproveMilestoneBooks ==
    ASSUME OneAtATime, BetweenInv, AllSized, Books, NEW t \in Handlers, ApproveMilestone(t)
    PROVE  Books'
  <1>1. PICK k, id, e, to : /\ k = th[t].contract /\ id = th[t].milestone
                            /\ e = Approved(Held(t), id) /\ to = AfterApproval(e)
    OBVIOUS
  <1>2. th[t].pc = "resolve" /\ th[t].op = "release" /\ ChangeThenAdvance(t, e, to)
    BY <1>1 DEF ApproveMilestone
  <1> SUFFICES ASSUME Plain(k)
               PROVE  Books'
    BY <1>1, <1>2, ChangeBooks DEF Ledgered
  <1>3. PICK deal \in Contract : deal = Held(t)
    BY <1>2, WorkerProps
  <1>4. Told(deal) /\ HasStatus(deal, id, "SUBMITTED")
    BY <1>1, <1>2, <1>3, WorkerProps DEF SerialOK, Working, Fine, Story, Plain
  <1>5. PICK i, x : i = findMilestone(deal, id) /\ x = deal.milestones[i].amount
    OBVIOUS
  <1>6. deal.state = "MILESTONE_REVIEW"
    <2>1. With(deal, "SUBMITTED") # {}
      BY <1>4, FoundWith
    <2> QED
      BY <1>4, <2>1 DEF Told
  <1>7. Ledgered(k, deal, "MILESTONE_REVIEW", x)
    <2>1. registry[k] = th[t].obj
      BY <1>1, <1>2, WorkerProps, Mapped
    <2>2. Ledgered(k, deal, deal.state, Due(th[t], k)) /\ heap[th[t].obj] = deal
      BY <1>1, <1>2, <1>3, <2>1, WorkerBook
    <2>3. Due(th[t], k) = x
      BY <1>1, <1>2, <1>5, <2>2 DEF Due, Asked
    <2> QED
      BY <1>6, <2>2, <2>3
  <1>8. /\ RemainingAmount(e.milestones) = RemainingAmount(deal.milestones) - x
        /\ RemainingAmount(deal.milestones) \in Int /\ x \in Int
    <2>1. Fits(deal)
      BY <1>2, <1>3, WorkerProps DEF AllSized, Sized
    <2>2. PICK st : st = "SUBMITTED"
      OBVIOUS
    <2>3. HasStatus(deal, id, st) /\ st # "APPROVED"
      BY <1>4, <2>2
    <2>4. e = Approved(deal, id)
      BY <1>1, <1>3
    <2> QED
      BY <1>5, <2>1, <2>3, <2>4, ApprovedAmount
  <1>9. Balanced(k, e, 0)
    <2>1. Balanced(k, deal, x)
      BY <1>7 DEF Ledgered
    <2>2. k \in ContractId /\ IInv /\ PostedKnown
      BY <1>1, <1>2, WorkerProps DEF Books
    <2>3. Waiting(k) \in Int
      BY <2>2, PostedProps
    <2>4. state.locked[k].amount \in Int
      BY <2>2, LedgerAssumption DEF IInv, Typed, SoundState, State, EscrowLock, NoLock, Int64
    <2>5. PICK m, n, w, y : /\ m = RemainingAmount(deal.milestones)
                            /\ n = RemainingAmount(e.milestones)
                            /\ w = Waiting(k) /\ y = state.locked[k].amount
      OBVIOUS
    <2>6. m = y - w + x /\ state.locked[k] # NoLock
      BY <2>1, <2>5 DEF Balanced
    <2>7. n = y - w + 0
      BY <1>8, <2>3, <2>4, <2>5, <2>6
    <2> QED
      BY <2>5, <2>6, <2>7 DEF Balanced
  <1>10. to \in {"COMPLETED", "IN_PROGRESS"}
    BY <1>1 DEF AfterApproval
  <1>11. e.state = "MILESTONE_REVIEW"
    <2>1. "APPROVED" \in MilestoneStatus /\ e = SetStatus(deal, id, "APPROVED")
      BY <1>1, <1>3 DEF MilestoneStatus, Approved
    <2> QED
      BY <1>5, <1>6, <2>1, MarkMoves
  <1>12. Ledgered(k, e, e.state, 0) /\ Ledgered(k, e, to, 0)
    BY <1>9, <1>10, <1>11 DEF Ledgered
  <1> QED
    BY <1>1, <1>2, <1>12, ChangeBooks

\* After an award or a refund the books need not agree.
LEMMA PaidBooks ==
    ASSUME OneAtATime, BetweenInv, Books, NEW t \in Handlers, NEW e, NEW to,
           th[t].pc = "resolve", th[t].op # "release", ChangeThenAdvance(t, e, to),
           e.state = Held(t).state, to \notin {"DRAFT", "PENDING_SIGNATURE", "SIGNED"}
    PROVE  Books'
  <1>1. PICK k, deal : k = th[t].contract /\ deal = Held(t)
    OBVIOUS
  <1>2. registry[k] = th[t].obj
    BY <1>1, WorkerProps, Mapped
  <1>3. Ledgered(k, deal, deal.state, Due(th[t], k)) /\ Booking(th[t])
    BY <1>1, <1>2, WorkerBook
  <1>4. ~Plain(k)
    BY <1>1, <1>3 DEF Booking
  <1>5. Ledgered(k, e, e.state, 0) /\ Ledgered(k, e, to, 0)
    BY <1>4 DEF Ledgered
  <1> QED
    BY <1>1, <1>5, ChangeBooks

\* An award approves a milestone or ends the contract, a refund ends it.
LEMMA ResolveBooks ==
    ASSUME OneAtATime, BetweenInv, Books, NEW t \in Handlers,
           ResolveArbitration(t) \/ Terminate(t)
    PROVE  Books'
  <1>1. CASE ResolveArbitration(t)
    <2>1. PICK e, to :
            /\ e = IF th[t].terminate THEN Held(t) ELSE Approved(Held(t), th[t].milestone)
            /\ to = IF th[t].terminate THEN "TERMINATED" ELSE AfterApproval(e)
      OBVIOUS
    <2>2. /\ th[t].pc = "resolve" /\ th[t].op = "arbitrate"
          /\ ChangeThenAdvance(t, e, to)
      BY <1>1, <2>1 DEF ResolveArbitration
    <2>3. e.state = Held(t).state
      <3>1. CASE th[t].terminate
        BY <2>1, <3>1
      <3>2. CASE ~th[t].terminate
        <4>1. PICK id, k, deal : /\ id = th[t].milestone /\ deal = Held(t)
                                 /\ k = findMilestone(deal, id)
          OBVIOUS
        <4>2. deal \in Contract /\ "APPROVED" \in MilestoneStatus
          BY <2>2, <4>1, WorkerProps DEF MilestoneStatus
        <4>3. e = SetStatus(deal, id, "APPROVED")
          BY <2>1, <3>2, <4>1 DEF Approved
        <4>4. e.state = deal.state
          BY <4>1, <4>2, <4>3, MarkMoves
        <4> QED
          BY <4>1, <4>4
      <3> QED
        BY <3>1, <3>2
    <2>4. to \notin {"DRAFT", "PENDING_SIGNATURE", "SIGNED"}
      BY <2>1 DEF AfterApproval
    <2>5. th[t].op # "release"
      BY <2>2
    <2> QED
      BY <2>2, <2>3, <2>4, <2>5, PaidBooks
  <1>2. CASE Terminate(t)
    <2>1. PICK to : to = "TERMINATED"
      OBVIOUS
    <2>2. /\ th[t].pc = "resolve" /\ th[t].op # "release"
          /\ ChangeThenAdvance(t, Held(t), to)
      BY <1>2, <2>1 DEF Terminate
    <2>3. to \notin {"DRAFT", "PENDING_SIGNATURE", "SIGNED"}
      BY <2>1
    <2> QED
      BY <2>2, <2>3, PaidBooks
  <1> QED
    BY <1>1, <1>2

\* Advance agrees or the handler ends: the books were ready for both.
LEMMA CheckAdvanceBooks ==
    ASSUME OneAtATime, BetweenInv, Books, NEW t \in Handlers, CheckAdvance(t)
    PROVE  Books'
  <1>1. /\ th[t].pc = "check"
        /\ UNCHANGED <<heap, registry, ops>> /\ Unseen
    BY DEF CheckAdvance, Unseen
  <1>2. PICK k, deal, to : /\ k = th[t].contract /\ deal = Held(t)
                           /\ to = Head(th[t].targets)
    OBVIOUS
  <1>3. registry[k] = th[t].obj
    BY <1>1, <1>2, WorkerProps, Mapped
  <1>4. /\ Ledgered(k, deal, deal.state, 0) /\ Booking(th[t]) /\ heap[th[t].obj] = deal
    BY <1>1, <1>2, <1>3, WorkerBook, NothingDue
  <1>5. deal = heap'[th[t].obj] /\ registry'[k] = th[t].obj
    BY <1>1, <1>3, <1>4
  <1>6. CASE Transition(deal.state, to)
    <2>1. PICK r : r = [th[t] EXCEPT !.pc = "write"]
      OBVIOUS
    <2>2. th' = [th EXCEPT ![t] = r]
      BY <1>1, <1>2, <1>6, <2>1, WorkerProps DEF CheckAdvance
    <2>3. /\ r.pc = "write" /\ r.contract = k /\ r.obj = th[t].obj
          /\ r.targets = th[t].targets
      BY <1>1, <1>2, <2>1, WorkerProps DEF HandlerFields
    <2>4. Ledgered(k, deal, to, 0)
      BY <1>1, <1>2, <1>4, <1>6 DEF Booking
    <2>5. Ledgered(k, deal, to, 0)'
      BY <1>1, <2>4, LedgeredSame
    <2>6. Booking(r)'
      BY <1>2, <1>5, <2>3, <2>5 DEF Booking
    <2> QED
      BY <1>1, <1>2, <1>4, <1>5, <2>2, <2>3, <2>6, LocalBooks
  <1>7. CASE ~Transition(deal.state, to)
    <2>1. PICK r : r = Idle
      OBVIOUS
    <2>2. th' = [th EXCEPT ![t] = r] /\ r.pc = "idle"
      BY <1>1, <1>2, <1>7, <2>1, WorkerProps DEF CheckAdvance, Idle
    <2> QED
      BY <1>1, <1>2, <1>4, <1>5, <2>2, LocalBooks
  <1> QED
    BY <1>6, <1>7

\* What WriteState changes of a contract: its state, and not what is open.
LEMMA WrittenOpen ==
    ASSUME NEW deal \in Contract, NEW r, Head(r.targets) \in ContractState,
           r.mark \in {"none", "SUBMITTED", "DISPUTED"},
           r.mark # "none" => ~HasStatus(deal, r.milestone, "APPROVED"),
           NEW e, e = Written(r, deal)
    PROVE  /\ e.state = Head(r.targets)
           /\ RemainingAmount(e.milestones) = RemainingAmount(deal.milestones)
  <1>1. PICK next : next = [deal EXCEPT !.state = Head(r.targets)]
    OBVIOUS
  <1>2. next \in Contract /\ next.milestones = deal.milestones
        /\ next.state = Head(r.targets)
    BY <1>1 DEF Contract
  <1>3. CASE r.mark = "none"
    <2>1. e = next
      BY <1>1, <1>3 DEF Written
    <2> QED
      BY <1>2, <2>1
  <1>4. CASE r.mark # "none"
    <2>1. PICK id, mark, k : /\ id = r.milestone /\ mark = r.mark
                             /\ k = findMilestone(next, id)
      OBVIOUS
    <2>2. e = SetStatus(next, id, mark)
      BY <1>1, <1>4, <2>1 DEF Written
    <2>3. mark \in MilestoneStatus /\ mark # "APPROVED"
      BY <1>4, <2>1 DEF MilestoneStatus
    <2>4. Marked(next, e, id, mark) /\ SameAmounts(next, e)
      BY <1>2, <2>2, <2>3, SetStatusMarks, StatusSame
    <2>5. PICK ms, ns, n : /\ ms = next.milestones /\ ns = e.milestones
                           /\ n \in Nat /\ n = Len(ms) /\ DOMAIN ms = 1 .. n
      BY <1>2, Milestones
    <2>6. /\ DOMAIN ns = 1 .. n
          /\ \A i \in 1 .. n : ns[i].amount = ms[i].amount
          /\ \A i \in 1 .. n : ns[i].status = IF i = k THEN mark ELSE ms[i].status
      BY <2>1, <2>4, <2>5 DEF SameAmounts, Marked
    <2>7. k # 0 => ms[k].status # "APPROVED"
      BY <1>2, <1>4, <2>1, <2>5 DEF HasStatus, findMilestone
    <2>8. \A i \in 1 .. n : ns[i].status = "APPROVED" <=> ms[i].status = "APPROVED"
      BY <2>3, <2>6, <2>7
    <2>9. [i \in DOMAIN ns |-> IF ns[i].status = "APPROVED" THEN 0 ELSE ns[i].amount]
            = [i \in DOMAIN ms |-> IF ms[i].status = "APPROVED" THEN 0 ELSE ms[i].amount]
      BY <2>5, <2>6, <2>8
    <2>10. RemainingAmount(ns) = RemainingAmount(ms)
      BY <2>9 DEF RemainingAmount
    <2>11. e.state = next.state
      BY <2>4 DEF Marked
    <2> QED
      BY <1>2, <2>5, <2>10, <2>11
  <1> QED
    BY <1>3, <1>4

\* The state is written; the funded contract is ready for its second move.
LEMMA WriteStateBooks ==
    ASSUME OneAtATime, BetweenInv, Books, NEW t \in Handlers, WriteState(t)
    PROVE  Books'
  <1>1. PICK k, deal, e, rest, to :
            /\ k = th[t].contract /\ deal = Held(t) /\ e = Written(th[t], deal)
            /\ rest = Tail(th[t].targets) /\ to = Head(th[t].targets)
    OBVIOUS
  <1>2. /\ th[t].pc = "write" /\ heap' = [heap EXCEPT ![th[t].obj] = e]
        /\ UNCHANGED <<registry, ops>> /\ Unseen
    BY <1>1 DEF WriteState, Written, Unseen
  <1>3. PICK r : r = [th[t] EXCEPT !.targets = rest, !.pc = AfterWrite(th[t].op, rest)]
    OBVIOUS
  <1>4. th' = [th EXCEPT ![t] = r]
    BY <1>1, <1>2, <1>3, WorkerProps DEF WriteState
  <1>5. /\ r.contract = k /\ r.obj = th[t].obj /\ r.targets = rest
        /\ r.pc = IF rest # <<>> THEN "check" ELSE "put"
    BY <1>1, <1>2, <1>3, WorkerProps DEF HandlerFields, AfterWrite
  <1>6. /\ heap'[th[t].obj] = e
        /\ \A o \in 1 .. Len(heap) : o # th[t].obj => heap'[o] = heap[o]
    BY <1>2, WorkerProps
  <1>7. registry[k] = th[t].obj /\ registry[k] # 0
    BY <1>1, <1>2, WorkerProps, Mapped
  <1>8. deal \in Contract /\ Booking(th[t]) /\ heap[th[t].obj] = deal
    BY <1>1, <1>2, <1>7, WorkerProps, WorkerBook
  <1>9. Ledgered(k, deal, to, 0)
    BY <1>1, <1>2, <1>8 DEF Booking
  <1>10. e.state = to /\ RemainingAmount(e.milestones) = RemainingAmount(deal.milestones)
    <2>1. to \in ContractState /\ th[t].mark \in {"none", "SUBMITTED", "DISPUTED"}
      <3>1. /\ th[t].targets \in Seq(ContractState) /\ th[t].targets # <<>>
            /\ th[t].mark \in {"none", "SUBMITTED", "DISPUTED"}
        BY <1>2, WorkerProps DEF HandlerOK
      <3> QED
        BY <1>1, <3>1
    <2>2. th[t].mark # "none" => ~HasStatus(deal, th[t].milestone, "APPROVED")
      BY <1>1, <1>2, WorkerProps DEF SerialOK
    <2> QED
      BY <1>1, <1>8, <2>1, <2>2, WrittenOpen
  <1>11. Ledgered(k, e, to, 0) /\ Ledgered(k, e, e.state, 0)
    BY <1>9, <1>10 DEF Ledgered, Balanced
  <1>12. Booking(r)'
    <2>1. CASE rest = <<>>
      BY <1>2, <1>5, <1>7, <2>1 DEF Booking
    <2>2. CASE rest # <<>>
      <3>1. PICK u : u = th[t].targets
        OBVIOUS
      <3>2. u = <<"FUNDED", "IN_PROGRESS">>
        BY <1>1, <1>2, <2>2, <3>1, WorkerProps DEF Working
      <3>3. to = "FUNDED" /\ Head(rest) = "IN_PROGRESS"
        <4>1. Head(u) = "FUNDED" /\ Tail(u) = <<"IN_PROGRESS">>
          BY <3>2
        <4>2. Head(<<"IN_PROGRESS">>) = "IN_PROGRESS"
          OBVIOUS
        <4> QED
          BY <1>1, <3>1, <4>1, <4>2
      <3>4. Ledgered(k, e, "IN_PROGRESS", 0)
        BY <1>11, <3>3 DEF Ledgered
      <3>5. Ledgered(k, e, "IN_PROGRESS", 0)'
        BY <1>2, <3>4, LedgeredSame
      <3>6. heap'[r.obj] = e
        BY <1>5, <1>6
      <3> QED
        BY <1>5, <2>2, <3>3, <3>5, <3>6 DEF Booking
    <2> QED
      BY <2>1, <2>2
  <1>13. r.pc # "resolve" /\ registry'[k] = th[t].obj
         /\ \A c \in ContractId : c # k => registry'[c] = registry[c]
    BY <1>2, <1>5, <1>7
  <1>14. th[t].pc # "idle" /\ e = heap'[th[t].obj]
    BY <1>2, <1>6
  <1> QED
    BY <1>1, <1>2, <1>4, <1>6, <1>11, <1>12, <1>13, <1>14, LocalBooks

\* Save changes no contract: a new one enters the map as a draft.
LEMMA SaveBooks ==
    ASSUME OneAtATime, BetweenInv, Books, NEW t \in Handlers,
           PutContract(t) \/ Marshal(t) \/ SaveContract(t) \/ SaveContractFails(t)
    PROVE  Books'
  <1>1. PICK k, deal : k = th[t].contract /\ deal = Held(t)
    OBVIOUS
  <1>2. /\ th[t].pc \in {"put", "marshal", "persist"}
        /\ UNCHANGED <<heap, ops>> /\ Unseen
    BY DEF PutContract, Marshal, SaveContract, SaveContractFails, Unseen
  <1>3. heap[th[t].obj] = deal /\ deal = heap'[th[t].obj] /\ k \in ContractId
    BY <1>1, <1>2, WorkerProps
  <1>4. registry[k] = th[t].obj => Ledgered(k, deal, deal.state, 0)
    BY <1>1, <1>2, WorkerBook, NothingDue
  <1>5. CASE PutContract(t)
    <2>1. PICK r : r = [th[t] EXCEPT !.pc = "marshal"]
      OBVIOUS
    <2>2. /\ th' = [th EXCEPT ![t] = r] /\ th[t].pc = "put"
          /\ registry' = [registry EXCEPT ![k] = th[t].obj]
      BY <1>1, <1>2, <1>5, <2>1, WorkerProps DEF PutContract
    <2>3. r.pc = "marshal"
      BY <1>2, <2>1, WorkerProps DEF HandlerFields
    <2>4. Booking(r)'
      BY <2>3 DEF Booking
    <2>5. registry'[k] = th[t].obj
          /\ \A c \in ContractId : c # k => registry'[c] = registry[c]
      BY <1>1, <1>2, <2>2, WorkerProps
    <2>6. ASSUME registry[k] = 0 PROVE Ledgered(k, deal, deal.state, 0)
      <3>1. (Plain(k) => Releases(k) = {}) /\ Booking(th[t])
        BY <1>2, <1>3, <2>6, BookProps
      <3>2. deal.state = "DRAFT"
        BY <1>1, <1>3, <2>2, <2>6, <3>1 DEF Booking
      <3> QED
        BY <3>1, <3>2 DEF Ledgered
    <2>7. Ledgered(k, deal, deal.state, 0)
      <3>1. registry[k] = th[t].obj \/ registry[k] = 0
        BY <1>1, <1>2, WorkerProps DEF SerialOK
      <3> QED
        BY <1>4, <2>6, <3>1
    <2> QED
      BY <1>1, <1>2, <1>3, <2>2, <2>3, <2>4, <2>5, <2>7, LocalBooks
  <1>6. ASSUME NEW r, th' = [th EXCEPT ![t] = r], r.pc \in {"idle", "persist"},
               UNCHANGED registry, th[t].pc # "put"
        PROVE  Books'
    <2>1. Booking(r)'
      BY <1>6 DEF Booking
    <2>2. registry[k] = th[t].obj
      BY <1>1, <1>2, <1>6, WorkerProps, Mapped
    <2>3. Ledgered(k, deal, deal.state, 0)
      BY <1>4, <2>2
    <2> QED
      BY <1>1, <1>2, <1>3, <1>6, <2>1, <2>2, <2>3, LocalBooks
  <1>7. CASE Marshal(t)
    <2>1. PICK r : r = [th[t] EXCEPT !.pc = "persist", !.copy = Held(t)]
      OBVIOUS
    <2>2. th' = [th EXCEPT ![t] = r] /\ UNCHANGED registry /\ th[t].pc = "marshal"
      BY <1>2, <1>7, <2>1, WorkerProps DEF Marshal
    <2>3. r.pc = "persist"
      BY <1>2, <2>1, WorkerProps DEF HandlerFields
    <2> QED
      BY <1>6, <2>2, <2>3
  <1>8. CASE SaveContract(t) \/ SaveContractFails(t)
    <2>1. PICK r : r = Idle
      OBVIOUS
    <2>2. th' = [th EXCEPT ![t] = r] /\ UNCHANGED registry /\ th[t].pc = "persist"
      BY <1>8, <2>1 DEF SaveContract, SaveContractFails
    <2>3. r.pc = "idle"
      BY <2>1 DEF Idle
    <2> QED
      BY <1>6, <2>2, <2>3
  <1> QED
    BY <1>5, <1>7, <1>8

\* A step of the chain or of a client leaves contracts and handlers alone.
LEMMA ChainBooks ==
    ASSUME IInv, Books, UNCHANGED <<heap, registry, th, ops>>, Later, PostedKnown',
           \A tx \in posted' : IsRelease(tx) => tx \in posted,
           \A c \in ContractId : /\ Plain(c)' => Releases(c)' \subseteq Releases(c)
                                 /\ \A deal, st, n : Ledgered(c, deal, st, n)
                                                        => Ledgered(c, deal, st, n)'
    PROVE  Books'
  <1>1. \A c : Plain(c)' => Plain(c)
    BY PlainBefore
  <1>3. ASSUME NEW t \in Handlers, th[t].pc # "idle" PROVE Booking(th[t])'
    <2>1. th[t].contract \in ContractId
      BY <1>3, HolderProps
    <2>2. Booking(th[t])
      BY <1>3 DEF Books
    <2>3. PICK r, k, deal : r = th[t] /\ k = r.contract /\ deal = heap[r.obj]
      OBVIOUS
    <2>4. PICK to : to = Head(r.targets)
      OBVIOUS
    <2>5. Ledgered(k, deal, to, 0) => Ledgered(k, deal, to, 0)'
      BY <2>1, <2>3
    <2>6. th'[t] = r /\ heap'[r.obj] = deal /\ Asked(r)' = Asked(r)
      BY <2>3 DEF Asked
    <2>7. Booking(r)'
      BY <1>1, <2>2, <2>3, <2>4, <2>5, <2>6 DEF Booking
    <2> QED
      BY <2>6, <2>7 DEF Booking, Asked
  <1>4. ASSUME NEW c \in ContractId
        PROVE  /\ registry'[c] = 0 /\ Plain(c)' => Releases(c)' = {}
               /\ registry'[c] # 0 => \E t \in Handlers : BookOf(c, th[t])'
    <2>1. registry[c] = 0 /\ Plain(c)' => Releases(c)' = {}
      BY <1>1 DEF Books
    <2>2. ASSUME registry[c] # 0 PROVE \E t \in Handlers : BookOf(c, th[t])'
      <3>1. PICK t \in Handlers : BookOf(c, th[t])
        BY <2>2 DEF Books
      <3>2. PICK deal, n : deal = heap[registry[c]] /\ n = Due(th[t], c)
        OBVIOUS
      <3>3. Ledgered(c, deal, deal.state, n)
        BY <3>1, <3>2 DEF BookOf, Deal
      <3>4. Ledgered(c, deal, deal.state, n)'
        BY <3>3
      <3>5. heap'[registry'[c]] = deal /\ Due(th[t], c)' = n
        BY <3>2 DEF Due, Asked
      <3>6. BookOf(c, th[t])'
        BY <3>4, <3>5 DEF BookOf, Deal
      <3> QED
        BY <3>6
    <2> QED
      BY <2>1, <2>2
  <1> QED
    BY <1>3, <1>4 DEF Books

\* A funding transaction is no release, and a client's not of the handlers; a
\* block holds one transaction more.
LEMMA ChainKeepsBooks ==
    ASSUME IInv, IInv', Books, FundEscrow \/ ClientTx \/ CommitBlock
    PROVE  Books'
  <1>1. /\ PostedKnown /\ posted' \subseteq EscrowTx /\ IsFiniteSet(posted)
        /\ posted \subseteq EscrowTx
    BY DEF Books, IInv, Typed, PostedKnown
  <1>2. ASSUME NEW tx, posted' = posted \cup {tx},
               tx.type = "LOCK" \/ tx.signer # Authority,
               UNCHANGED <<heap, registry, th, state, chain, steered, ops>>
        PROVE  Books'
    <2>1. IsFiniteSet(posted')
      BY <1>1, <1>2, FS_AddElement
    <2>2. ~IsRelease(tx)
      BY <1>2 DEF IsRelease
    <2>3. PostedKnown'
      BY <1>1, <1>2, <2>1, <2>2 DEF PostedKnown
    <2>4. \A u \in posted' : IsRelease(u) => u \in posted
      BY <1>2, <2>2
    <2>5. Later
      BY <1>2 DEF Later
    <2>6. \A c \in ContractId : /\ Plain(c)' => Releases(c)' \subseteq Releases(c)
                                /\ \A deal, st, n : Ledgered(c, deal, st, n)
                                                       => Ledgered(c, deal, st, n)'
      BY <1>1, <1>2, PostedGrows
    <2> QED
      BY <1>2, <2>3, <2>4, <2>5, <2>6, ChainBooks
  <1>3. CASE FundEscrow
    <2>1. PICK tx : /\ tx.type = "LOCK" /\ posted' = posted \cup {tx}
                    /\ UNCHANGED <<heap, registry, th, state, chain, steered, ops>>
      BY <1>3 DEF FundEscrow, FundingTx
    <2> QED
      BY <1>2, <2>1
  <1>4. CASE ClientTx
    <2>1. PICK tx \in ClientTxs :
                    /\ posted' = posted \cup {tx}
                    /\ UNCHANGED <<heap, registry, th, state, chain, steered, ops>>
      BY <1>4 DEF ClientTx
    <2>2. tx.signer # Authority
      BY EscrowApiAssumption
    <2> QED
      BY <1>2, <2>1, <2>2
  <1>5. CASE CommitBlock
    <2>1. PICK tx \in posted : /\ chain' = Append(chain, tx)
                               /\ UNCHANGED <<heap, registry, th, posted, steered, ops>>
      BY <1>5 DEF CommitBlock
    <2>2. chain \in Seq(EscrowTx) /\ tx \in EscrowTx /\ Range(chain) \subseteq posted
      BY <1>1 DEF PostedKnown
    <2>3. /\ Range(chain') = Range(chain) \cup {tx} /\ DOMAIN chain \subseteq DOMAIN chain'
          /\ \A i \in DOMAIN chain : chain'[i] = chain[i]
      <3>1. PICK q, r : q = chain /\ r = chain'
        OBVIOUS
      <3>2. OneLonger(q, tx, r)
        BY <2>1, <2>2, <3>1 DEF OneLonger
      <3>3. /\ Range(r) = Range(q) \cup {tx}
            /\ DOMAIN q \subseteq DOMAIN r /\ \A i \in DOMAIN q : r[i] = q[i]
        BY <3>2, OneMore
      <3>4. Range(chain') = Range(chain) \cup {tx}
        BY <3>1, <3>3
      <3>5. DOMAIN chain \subseteq DOMAIN chain'
        BY <3>1, <3>3
      <3>6. \A i \in DOMAIN chain : chain'[i] = chain[i]
        BY <3>1, <3>3
      <3> QED
        BY <3>4, <3>5, <3>6
    <2>4. PostedKnown' /\ Later
      <3>1. chain' \in Seq(EscrowTx)
        BY <2>1, <2>2
      <3>2. Range(chain') \subseteq posted'
        BY <2>1, <2>2, <2>3
      <3> QED
        BY <1>1, <2>1, <2>3, <3>1, <3>2 DEF PostedKnown, Later
    <2>5. \A c \in ContractId : Releases(c)' \subseteq Releases(c)
      BY <2>1, <2>3 DEF Releases
    <2>6. \A c \in ContractId : \A deal, st, n :
                Ledgered(c, deal, st, n) => Ledgered(c, deal, st, n)'
      BY <1>1, <1>5, CommitLedgered
    <2> QED
      BY <2>1, <2>4, <2>5, <2>6, ChainBooks
  <1> QED
    BY <1>3, <1>4, <1>5

\* The first start has no contract and no posts.
LEMMA BooksInit ==
    ASSUME Init
    PROVE  Books
  <1>1. IsFiniteSet({})
    BY FS_EmptySet
  <1>2. posted = {} /\ chain = <<>> /\ Range(chain) = {}
    BY DEF Init, Range
  <1>3. PostedKnown
    BY <1>1, <1>2 DEF PostedKnown
  <1>4. \A c : Releases(c) = {}
    BY <1>2 DEF Releases
  <1> QED
    BY <1>3, <1>4 DEF Init, Books, Idle

\* Every step keeps the books, one request at a time, for offers whose amounts
\* do not wrap.
LEMMA BooksNext ==
    ASSUME OneAtATime, BetweenInv, BetweenInv', AllSized, Books, [Next]_vars
    PROVE  Books'
  <1>1. IInv /\ IInv' /\ crashes = 0
    BY DEF BetweenInv, SerialInv, Once
  <1>2. ASSUME NEW t \in Handlers, Request(t) PROVE Books'
    BY <1>2, RequestKeepsBooks
  <1>3. ASSUME NEW t \in Handlers, Finish(t) PROVE Books'
    BY <1>3, SubmitTxBooks, ApproveMilestoneBooks, ResolveBooks, CheckAdvanceBooks,
       WriteStateBooks, SaveBooks DEF Finish
  <1>4. ASSUME FundEscrow \/ ClientTx \/ CommitBlock PROVE Books'
    BY <1>1, <1>4, ChainKeepsBooks
  <1>5. ASSUME UNCHANGED vars PROVE Books'
    <2>1. Unseen /\ UNCHANGED <<heap, registry, th, posted, chain, ops>>
      BY <1>5 DEF vars, Unseen
    <2>2. PostedKnown' /\ Later
      BY <2>1, UnseenLater DEF Books, PostedKnown
    <2>3. \A c \in ContractId : /\ Releases(c)' \subseteq Releases(c)
                                /\ \A deal, st, n : Ledgered(c, deal, st, n)
                                                       => Ledgered(c, deal, st, n)'
      BY <2>1, UnseenLater, LedgeredSame
    <2> QED
      BY <1>1, <2>1, <2>2, <2>3, ChainBooks
  <1>6. ASSUME CrashAndRestart PROVE FALSE
    BY <1>1, <1>6 DEF CrashAndRestart, OneAtATime
  <1> QED
    BY <1>2, <1>3, <1>4, <1>5, <1>6 DEF Next

\* When a single handler serves a process that does not crash, and the amounts
\* of an offer add up to an int64, then between requests what the milestones of
\* a funded contract leave open is what its escrow holds on the chain, less the
\* releases that are in no block.  The contracts are those that no client
\* advanced past their signature, and of which the posts hold no refund, award
\* or client's release, and the chain no release twice.  Their number, that of
\* milestones, blocks and transactions, and the order of blocks are arbitrary.
THEOREM BooksInOrder ==
    ASSUME OneAtATime, OffersFit
    PROVE  Spec => []BooksAgree
  <1>1. ASSUME BetweenInv, Books, Quiet, NEW c \in ContractId \ steered, Exists(c),
               PaidByHandlers(c), Deal(c).state \in {"IN_PROGRESS", "MILESTONE_REVIEW", "DISPUTED", "COMPLETED"}
        PROVE  RemainingAmount(Deal(c).milestones) = state.locked[c].amount - Waiting(c)
    <2>1. PICK t \in Handlers : BookOf(c, th[t])
      BY <1>1 DEF Books, Exists
    <2>2. Due(th[t], c) = 0
      BY <1>1 DEF Quiet, Due
    <2>3. Ledgered(c, Deal(c), Deal(c).state, 0)
      BY <2>1, <2>2 DEF BookOf
    <2>4. Balanced(c, Deal(c), 0)
      BY <1>1, <2>3 DEF Ledgered, Plain
    <2>5. IInv /\ PostedKnown
      BY <1>1 DEF BetweenInv, SerialInv, Books
    <2>6. Waiting(c) \in Int
      BY <2>5, PostedProps
    <2>7. state.locked[c] # NoLock /\ state.locked[c] \in EscrowLock \cup {NoLock}
      BY <2>4, <2>5 DEF Balanced, IInv, Typed, SoundState, State
    <2>8. state.locked[c].amount \in Int
      BY <2>7, LedgerAssumption DEF EscrowLock, Int64
    <2>9. PICK x \in Int, w \in Int : x = state.locked[c].amount /\ w = Waiting(c)
      BY <2>6, <2>8
    <2>10. RemainingAmount(Deal(c).milestones) = x - w + 0
      BY <2>4, <2>9 DEF Balanced
    <2> QED
      BY <2>9, <2>10
  <1>2. BetweenInv /\ Books => BooksAgree
    BY <1>1 DEF BooksAgree
  <1>3. Init => Books
    BY BooksInit
  <1>4. BetweenInv /\ BetweenInv' /\ AllSized /\ Books /\ [Next]_vars => Books'
    BY BooksNext
  <1> QED
    BY <1>2, <1>3, <1>4, BetweenInvariant, SizedInvariant, PTL DEF Spec
=============================================================================

-------------------------------- MODULE Node --------------------------------
(***************************************************************************)
(* One validator process: the goroutines that commit blocks (the           *)
(* production loop and the /p2p/block handlers), the goroutines that admit *)
(* transactions (/p2p/tx, POST /api/chain/tx and the other API handlers),  *)
(* the chain, world state and mempool they share, and the Badger store the *)
(* node restarts from.                                                     *)
(*                                                                         *)
(* bc.mu serialises AddBlock, but the world state is read without it: by   *)
(* transaction admission and by SaveState.  SaveBlock and SaveState are    *)
(* two Badger transactions, taken after bc.mu is released.                 *)
(***************************************************************************)
EXTENDS Mempool, Store

CONSTANTS
    Txs,             \* transactions that clients of any node submit
    LocalID,         \* this node's validator id
    Producer,        \* the goroutine of RunProductionLoop
    Handlers,        \* goroutines serving POST /p2p/block
    Submitters,      \* goroutines serving transaction submissions
    Free,            \* bc.mu is not held
    MaxCrashes,      \* bound: crashes of this process
    MaxFailures      \* bound: Badger transactions that fail

Committers == Handlers \cup {Producer}
Threads == Committers \cup Submitters

ASSUME NodeAssumption ==
    /\ Txs \subseteq Tx
    /\ LocalID \in Range(Validators)
    /\ Producer \notin Handlers /\ Committers \cap Submitters = {}
    /\ Free \notin Threads
    /\ {MaxCrashes, MaxFailures} \subseteq Nat

VARIABLES
    phase,    \* "down", "boot" (genesis block saved, its state not) or "up"
    blocks,   \* bc.Blocks; blocks[i + 1] has index i
    state,    \* bc.State
    mu,       \* the goroutine that holds bc.mu, or Free
    pool,     \* the mempool's transactions
    th,       \* per goroutine: where it is and its local variables
    disk,     \* the Badger store: blocks by index, height and world state
    net,      \* the chain the other validators hold
    crashes,  \* number of crashes so far
    failures  \* number of failed Badger transactions so far

vars == <<phase, blocks, state, mu, pool, th, disk, net, crashes, failures>>

-----------------------------------------------------------------------------

Genesis == GenesisBlock(0)

LatestBlock == Last(blocks)

-----------------------------------------------------------------------------
(* Start, crash and restart *)

Idle == [pc |-> "idle", block |-> Genesis, i |-> 0, snap |-> EmptyState]

Init ==
    /\ phase = "down"
    /\ blocks = <<>> /\ state = EmptyState
    /\ mu = Free
    /\ pool = {}
    /\ th = [t \in Threads |-> Idle]
    /\ disk = EmptyDisk
    /\ net = <<Genesis>>
    /\ crashes = 0 /\ failures = 0

\* main on an empty store: NewBlockchain, then SaveBlock(genesis) ...
FirstBoot ==
    /\ phase = "down" /\ disk.height < 0
    /\ phase' = "boot"
    /\ blocks' = <<Genesis>>
    /\ state' = NewState(Allocations)
    /\ disk' = StoreBlock(disk, Genesis)
    /\ UNCHANGED <<mu, pool, th, net, crashes, failures>>

\* ... then SaveState, before any goroutine starts.
FirstSaveState ==
    /\ phase = "boot"
    /\ disk' = StoreState(disk, state)
    /\ phase' = "up"
    /\ UNCHANGED <<blocks, state, mu, pool, th, net, crashes, failures>>

\* main on a store that has a chain.
Restart ==
    /\ phase = "down" /\ disk.height >= 0
    /\ CanLoad(disk)
    /\ phase' = "up"
    /\ blocks' = LoadAllBlocks(disk)
    /\ state' = LoadState(disk)
    /\ UNCHANGED <<mu, pool, th, disk, net, crashes, failures>>

\* The process dies; what is not in the store is lost.  A SaveState that the
\* Go runtime aborts because a map is written while it iterates ends here too.
Crash ==
    /\ phase # "down" /\ crashes < MaxCrashes
    /\ crashes' = crashes + 1
    /\ phase' = "down"
    /\ blocks' = <<>> /\ state' = EmptyState
    /\ mu' = Free
    /\ pool' = {}
    /\ th' = [t \in Threads |-> Idle]
    /\ UNCHANGED <<disk, net, failures>>

-----------------------------------------------------------------------------
(* Where a block comes from *)

\* The other validators extend the chain they hold with transactions that
\* are valid on it.
PeerProduces ==
    /\ Len(net) <= MaxHeight
    /\ ProposerForHeight(Len(net)) # LocalID
    /\ \E txs \in {q \in SeqOf(Txs, MaxTxsPerBlock) : IsInjective(q)} :
        /\ ValidRun(txs, Replay(net))
        /\ net' = Append(net, NewBlock(Last(net), txs, ProposerForHeight(Len(net)), 0))
    /\ UNCHANGED <<phase, blocks, state, mu, pool, th, disk, crashes, failures>>

\* Gossip delivers the blocks of the network in any order, any number of
\* times or never, and also a block of a validator with another genesis.
Delivered ==
    Range(net) \cup
    {Block(h, <<>>, <<>>, ProposerForHeight(h), 0) : h \in 1 .. MaxHeight}

\* handleReceiveBlock up to AcceptBlock's proposer check.  Blocks that are
\* not the next one are answered without any change.
ReceiveBlock(t) ==
    /\ phase = "up" /\ th[t].pc = "idle"
    /\ \E b \in Delivered :
        /\ b.index = LatestBlock.index + 1
        /\ ExpectedProposer(b)
        /\ th' = [th EXCEPT ![t].pc = "accept", ![t].block = b]
    /\ UNCHANGED <<phase, blocks, state, mu, pool, disk, net, crashes, failures>>

\* A tick of RunProductionLoop at this node's turn: ProposeBlock reads the
\* tip (a block proposed again after a restart has another timestamp) ...
ProposeBlock ==
    LET h == LatestBlock.index + 1 IN
    /\ phase = "up" /\ th[Producer].pc = "idle"
    /\ h <= MaxHeight
    /\ ProposerForHeight(h) = LocalID
    /\ th' = [th EXCEPT ![Producer].pc = "pending",
                        ![Producer].block = NewBlock(LatestBlock, <<>>, LocalID, crashes)]
    /\ UNCHANGED <<phase, blocks, state, mu, pool, disk, net, crashes, failures>>

\* ... and takes up to MaxTxsPerBlock pool transactions, in map order.
Pending ==
    /\ th[Producer].pc = "pending"
    /\ \E txs \in Batches(pool) :
        th' = [th EXCEPT ![Producer].pc = "accept", ![Producer].block.txs = txs]
    /\ UNCHANGED <<phase, blocks, state, mu, pool, disk, net, crashes, failures>>

-----------------------------------------------------------------------------
(* AcceptBlock: AddBlock under bc.mu, then RemoveBatch *)

\* Faulty variant: a block that AcceptBlock rejected is persisted.
RejectedIsSaved(t) == [th EXCEPT ![t].pc = "saveBlock"]

\* The goroutine gives up its block when AcceptBlock returns an error.
Rejected(t) == [th EXCEPT ![t] = Idle]

\* ValidateBlock; on success clone the state.  By itself the faulty variant
\* that does not wait for bc.mu.
AddBlockUnlocked(t) ==
    /\ th[t].pc = "accept"
    /\ IF ValidateBlock(th[t].block, LatestBlock)
       THEN /\ mu' = t
            /\ th' = [th EXCEPT ![t].pc = "apply", ![t].i = 1, ![t].snap = state]
       ELSE th' = Rejected(t) /\ UNCHANGED mu
    /\ UNCHANGED <<phase, blocks, state, pool, disk, net, crashes, failures>>

\* Lock bc.mu.
AddBlock(t) == mu = Free /\ AddBlockUnlocked(t)

\* Faulty variant: the clone shares the lock records with the live state.
RolledBackShallow(snapshot, live) ==
    [snapshot EXCEPT !.locked = [c \in ContractId |->
        IF @[c] = NoLock THEN NoLock ELSE live.locked[c]]]

\* What bc.State = snapshot leaves, given the deep copy clone took.
RolledBack(snapshot, live) == snapshot

\* One transaction of the block; an invalid one rejects the block.
ApplyNext(t) ==
    LET tx == th[t].block.txs[th[t].i] IN
    /\ th[t].pc = "apply" /\ th[t].i <= Len(th[t].block.txs)
    /\ IF ValidateTransaction(tx, state)
       THEN /\ state' = ApplyTransaction(tx, state)
            /\ th' = [th EXCEPT ![t].i = @ + 1]
            /\ UNCHANGED mu
       ELSE /\ state' = RolledBack(th[t].snap, state)
            /\ th' = Rejected(t)
            /\ mu' = Free
    /\ UNCHANGED <<phase, blocks, pool, disk, net, crashes, failures>>

\* BroadcastBlock by the production loop: the other validators get the block
\* and take it if it is next, or never see it.  A handler broadcasts a block
\* that they already have.
Broadcast(t) ==
    \/ /\ t = Producer
       /\ ValidateBlock(th[t].block, Last(net))
       /\ ValidRun(th[t].block.txs, Replay(net))
       /\ net' = Append(net, th[t].block)
    \/ UNCHANGED net

\* Faulty variant: the block is broadcast before it is saved.
AppendBlockBroadcasts(t) ==
    /\ th[t].pc = "apply" /\ th[t].i > Len(th[t].block.txs)
    /\ blocks' = Append(blocks, th[t].block)
    /\ mu' = Free
    /\ th' = [th EXCEPT ![t].pc = "remove", ![t].snap = EmptyState]
    /\ Broadcast(t)
    /\ UNCHANGED <<phase, state, pool, disk, crashes, failures>>

AppendBlock(t) ==
    /\ th[t].pc = "apply" /\ th[t].i > Len(th[t].block.txs)
    /\ blocks' = Append(blocks, th[t].block)
    /\ mu' = Free
    /\ th' = [th EXCEPT ![t].pc = "remove", ![t].snap = EmptyState]
    /\ UNCHANGED <<phase, state, pool, disk, net, crashes, failures>>

CleanPool(t) ==
    /\ th[t].pc = "remove"
    /\ pool' = RemoveBatch(pool, th[t].block.txs)
    /\ th' = [th EXCEPT ![t].pc = "saveBlock"]
    /\ UNCHANGED <<phase, blocks, state, mu, disk, net, crashes, failures>>

-----------------------------------------------------------------------------
(* Persistence, outside bc.mu *)

SaveBlock(t) ==
    /\ th[t].pc = "saveBlock"
    /\ disk' = StoreBlock(disk, th[t].block)
    /\ th' = [th EXCEPT ![t].pc = "saveState"]
    /\ UNCHANGED <<phase, blocks, state, mu, pool, net, crashes, failures>>

\* The Badger transaction fails: the error is logged and nothing else.
SaveBlockFails(t) ==
    /\ th[t].pc = "saveBlock" /\ failures < MaxFailures
    /\ failures' = failures + 1
    /\ th' = [th EXCEPT ![t].pc = "saveState"]
    /\ UNCHANGED <<phase, blocks, state, mu, pool, disk, net, crashes>>

\* SaveState reads the live maps, whoever is changing them ...
ReadState(t) ==
    /\ th[t].pc = "saveState"
    /\ th' = [th EXCEPT ![t].pc = "flush", ![t].snap = state]
    /\ UNCHANGED <<phase, blocks, state, mu, pool, disk, net, crashes, failures>>

\* ... and its Badger transaction commits.  The broadcast follows, whether the
\* two saves succeeded or not.
SaveState(t) ==
    /\ th[t].pc = "flush"
    /\ disk' = StoreState(disk, th[t].snap)
    /\ th' = [th EXCEPT ![t] = Idle]
    /\ Broadcast(t)
    /\ UNCHANGED <<phase, blocks, state, mu, pool, crashes, failures>>

SaveStateFails(t) ==
    /\ th[t].pc = "flush" /\ failures < MaxFailures
    /\ failures' = failures + 1
    /\ th' = [th EXCEPT ![t] = Idle]
    /\ Broadcast(t)
    /\ UNCHANGED <<phase, blocks, state, mu, pool, disk, crashes>>

-----------------------------------------------------------------------------
(* Admission: ValidateTransaction on the live state, then Mempool.Add *)

\* submitTx of the API and handleReceiveTx; the latter has asked before whether
\* the id is in the mempool, which Add asks again.
SubmitTx(t) ==
    /\ phase = "up" /\ th[t].pc = "idle"
    /\ \E tx \in Txs :
        /\ ValidateTransaction(tx, state)
        /\ th' = [th EXCEPT ![t].pc = "add", ![t].block.txs = <<tx>>]
    /\ UNCHANGED <<phase, blocks, state, mu, pool, disk, net, crashes, failures>>

\* The client is told that its transaction was accepted, added or not.
AddToPool(t) ==
    /\ th[t].pc = "add"
    /\ pool' = Add(pool, Head(th[t].block.txs))
    /\ th' = [th EXCEPT ![t] = Idle]
    /\ UNCHANGED <<phase, blocks, state, mu, disk, net, crashes, failures>>

-----------------------------------------------------------------------------

\* What a goroutine that commits a block does once it has one.
Commit(t) ==
    \/ ApplyNext(t)
    \/ AppendBlock(t)
    \/ CleanPool(t)
    \/ SaveBlock(t)
    \/ ReadState(t)
    \/ SaveState(t)

Fail(t) == SaveBlockFails(t) \/ SaveStateFails(t)

Next ==
    \/ FirstBoot \/ FirstSaveState \/ Restart \/ Crash
    \/ PeerProduces
    \/ ProposeBlock \/ Pending
    \/ \E t \in Handlers : ReceiveBlock(t)
    \/ \E t \in Committers : AddBlock(t) \/ Commit(t) \/ Fail(t)
    \/ \E t \in Submitters : SubmitTx(t) \/ AddToPool(t)

Spec == Init /\ [][Next]_vars

\* The Go scheduler runs every goroutine that can run, and sync.RWMutex does
\* not starve a goroutine that waits for it.
Fairness ==
    /\ WF_vars(FirstBoot) /\ WF_vars(FirstSaveState)
    /\ WF_vars(ProposeBlock) /\ WF_vars(Pending)
    /\ \A t \in Committers : SF_vars(AddBlock(t)) /\ WF_vars(Commit(t))
    /\ \A t \in Submitters : WF_vars(AddToPool(t))

FairSpec == Spec /\ Fairness

-----------------------------------------------------------------------------
(* Invariants *)

Pc == {"idle", "accept", "pending", "apply", "remove", "saveBlock",
       "saveState", "flush", "add"}

\* The shape of the process: at most the holder of bc.mu is inside AddBlock's
\* loop, the store's height names a block it holds.
TypeOK ==
    /\ phase \in {"down", "boot", "up"}
    /\ state \in State /\ disk.state \in State
    /\ pool \subseteq Txs
    /\ \A t \in Threads :
        /\ th[t].pc \in Pc
        /\ th[t].snap \in State
        /\ th[t].pc = "apply" <=> mu = t
    /\ disk.height >= 0 => disk.blocks[disk.height] # NoBlock
    /\ crashes \in 0 .. MaxCrashes /\ failures \in 0 .. MaxFailures

\* Whenever bc.mu is free the world state is what replaying the chain gives:
\* AddBlock applies a block as a whole or, when any of its transactions is
\* invalid, not at all.
AtomicBlocks == phase = "up" /\ mu = Free => state = Replay(blocks)

\* This node and the other validators never commit different blocks at one
\* height, whatever gossip delivers and however the goroutines interleave.
NoFork == IsPrefix(blocks, net) \/ IsPrefix(net, blocks)

\* A block of this node that the others hold is in its store: it is
\* persisted before it is broadcast, so a crash cannot make this node
\* propose another block for that height.
StoredBeforeBroadcast ==
    \A i \in 2 .. Len(net) :
        net[i].validator = LocalID => disk.blocks[net[i].index] = net[i]

\* What the store holds up to its height is the chain this node committed:
\* never a block that AddBlock rejected, nor one of another branch, through
\* out-of-order SaveBlocks, a crash and a restart.  It is promised for one
\* crash and no failed save: a save that fails, or a second crash, can leave
\* below the height a block that this node has proposed again since.
StoredIsCommitted ==
    phase = "up" /\ crashes <= 1 /\ failures = 0 =>
        \A i \in 0 .. disk.height :
            disk.blocks[i] # NoBlock =>
                i < Len(blocks) /\ disk.blocks[i] = blocks[i + 1]

-----------------------------------------------------------------------------
(* Action properties *)

\* A transaction leaves the mempool of a running node only when its chain has
\* a transaction with its id: never for a block that was rejected or that
\* another goroutine committed first.
OnlyIncludedLeavePool ==
    [][phase' = "up" =>
        \A tx \in pool \ pool' : \E b \in Range(blocks') : Has(Range(b.txs), tx.id)]_vars

\* A validated transaction waits in the mempool until a block includes it:
\* that transaction, and not another one with its id.
WaitsUntilIncluded ==
    [][phase' = "up" =>
        \A tx \in pool \ pool' : \E b \in Range(blocks') : tx \in Range(b.txs)]_vars

\* The chain and the world state of a node, read while no AddBlock is between
\* its snapshot and its append or rollback, take only the steps AtomicChain
\* allows: the interleaved goroutines of one run commit one block at a time.
Chain == INSTANCE AtomicChain WITH
    chain <- blocks,
    world <- IF mu = Free THEN state ELSE th[mu].snap

ImplementsAtomicChain == Chain!Spec

\* A node that restarts comes back with every block it had persisted and
\* broadcast.  Without one of its own it proposes another for that height.
BroadcastSurvives ==
    [][phase = "down" /\ phase' = "up" =>
        \A i \in 1 .. Len(net) :
            net[i].validator = LocalID => i <= Len(blocks') /\ blocks'[i] = net[i]]_vars

\* The chain state survives a restart: the world state a node starts with
\* is the one its blocks stand for.
StateSurvives ==
    [][phase = "down" /\ phase' = "up" => state' = Replay(blocks')]_vars

-----------------------------------------------------------------------------
(* Liveness *)

\* Every block of a node that stays up reaches its store.
CommittedReachesDisk ==
    \A h \in 1 .. MaxHeight :
        Len(blocks) > h ~> (disk.blocks[h] # NoBlock /\ disk.blocks[h] = blocks[h + 1])

\* At its turn a node produces a block.
TurnProduces ==
    \A h \in 1 .. MaxHeight :
        (phase = "up" /\ Len(blocks) = h /\ ProposerForHeight(h) = LocalID)
            ~> Len(blocks) > h
=============================================================================

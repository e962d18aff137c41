----------------------------- MODULE NodeProofs -----------------------------
(***************************************************************************)
(* Theorems about Node, for every list of validators, every number of      *)
(* goroutines, any transactions and any number of crashes and failed       *)
(* saves.                                                                  *)
(***************************************************************************)
EXTENDS Node, BlocksProofs

-----------------------------------------------------------------------------
(* The inductive invariant *)

\* It is this node's turn at height h.
Own(h) == ProposerForHeight(h) = LocalID

\* Where a goroutine is from the moment it has a block of its own choice, and
\* from the moment that block is in the chain.
Saving == {"remove", "saveBlock", "saveState", "flush"}
Holding == Saving \cup {"accept", "apply"}

ThreadFields == {"pc", "block", "i", "snap"}
BlockFields == {"index", "prev", "txs", "validator", "time"}

\* A block that a goroutine holds.
BlockOK(b) ==
    /\ b.index \in 1 .. MaxHeight
    /\ b.txs \in Seq(Txs) /\ Len(b.txs) <= MaxTxsPerBlock
    /\ b.validator = ProposerForHeight(b.index)
    /\ b.time \in 0 .. crashes

\* A block of height h that this node has committed, now or before a crash: the
\* others hold it, or it is this node's turn.
FromChain(b, h) ==
    /\ b.index = h
    /\ b.validator = ProposerForHeight(h)
    /\ b.time \in 0 .. crashes
    /\ Own(h) \/ b \in Range(net)

Typed ==
    /\ phase \in {"down", "boot", "up"}
    /\ state \in SoundState
    /\ mu \in Committers \cup {Free}
    /\ pool \subseteq Txs
    /\ th = [t \in Threads |-> th[t]]
    /\ \A t \in Threads :
        /\ DOMAIN th[t] = ThreadFields /\ DOMAIN th[t].block = BlockFields
        /\ th[t].snap \in SoundState
        /\ th[t].pc = "apply" <=> mu = t
        /\ phase # "up" => th[t].pc = "idle"
    /\ crashes \in 0 .. MaxCrashes /\ failures \in 0 .. MaxFailures

NetOK ==
    /\ IsSeq(net) /\ Len(net) >= 1 /\ Len(net) <= MaxHeight + 1
    /\ net[1] = Genesis
    /\ \A i \in 2 .. Len(net) :
        /\ DOMAIN net[i] = BlockFields
        /\ net[i].index = i - 1
        /\ net[i].prev = <<net[i - 1]>>
        /\ net[i].validator = ProposerForHeight(i - 1)
        /\ net[i].txs \in Seq(Txs) /\ Len(net[i].txs) <= MaxTxsPerBlock
        /\ net[i].time \in 0 .. crashes

BlocksOK ==
    /\ IsSeq(blocks) /\ Len(blocks) <= MaxHeight + 1
    /\ phase = "down" <=> blocks = <<>>
    /\ blocks # <<>> => blocks[1] = Genesis
    /\ \A i \in 2 .. Len(blocks) :
        blocks[i].prev = <<blocks[i - 1]>> /\ FromChain(blocks[i], i - 1)

DiskOK ==
    /\ DOMAIN disk = {"blocks", "height", "state"}
    /\ disk.state \in SoundState
    /\ disk.blocks = [h \in 0 .. MaxHeight |-> disk.blocks[h]]
    /\ disk.height \in -1 .. MaxHeight
    /\ disk.height < 0 <=> phase = "down" /\ crashes = 0
    /\ disk.height >= 0 => disk.blocks[disk.height] # NoBlock
    /\ phase # "down" => disk.height < Len(blocks)
    /\ disk.blocks[0] \in {NoBlock, Genesis}
    /\ \A h \in 1 .. MaxHeight :
        disk.blocks[h] # NoBlock => FromChain(disk.blocks[h], h)

\* What a goroutine that is inside AddBlock's loop has validated and applied.
\* Here and below r is the goroutine's record in th.
Applying(r) ==
    /\ ValidateBlock(r.block, LatestBlock)
    /\ r.i \in 1 .. Len(r.block.txs) + 1
    /\ \A j \in 1 .. r.i - 1 :
        ValidateTransaction(r.block.txs[j], Run(SubSeq(r.block.txs, 1, j - 1), r.snap))
    /\ state = Run(SubSeq(r.block.txs, 1, r.i - 1), r.snap)

\* The block that a goroutine saves is in the chain.
InChain(b) == b.index < Len(blocks) /\ blocks[b.index + 1] = b

SubmitterOK(r) ==
    /\ r.pc \in {"idle", "add"}
    /\ r.pc = "add" => Head(r.block.txs) \in Txs

CommitterOK(r) ==
    /\ r.pc = "apply" => Applying(r)
    /\ r.pc \in Saving => InChain(r.block)

HandlerOK(r) ==
    /\ r.pc \in Holding \cup {"idle"}
    /\ r.pc # "idle" =>
        BlockOK(r.block) /\ (r.block.prev # <<>> => r.block \in Range(net))

\* A block of the production loop is the tip of the chain, and not known to the
\* others, until it is broadcast.
ProducerOK(r) ==
    /\ r.pc \in Holding \cup {"idle", "pending"}
    /\ r.pc # "idle" =>
        BlockOK(r.block) /\ r.block.validator = LocalID /\ r.block.time = crashes
    /\ r.pc \in Saving => r.block \notin Range(net) /\ r.block = LatestBlock
    /\ failures = 0 /\ r.pc \in {"saveState", "flush"} =>
        disk.blocks[r.block.index] = r.block

ThreadsOK ==
    /\ \A t \in Submitters : SubmitterOK(th[t])
    /\ \A t \in Committers : CommitterOK(th[t])
    /\ \A t \in Handlers : HandlerOK(th[t])
    /\ ProducerOK(th[Producer])

\* What this node has proposed since it started and the others hold is in its
\* chain, and in its store unless a save failed.
OwnBroadcast ==
    \A i \in 2 .. Len(net) :
        Own(i - 1) /\ net[i].time = crashes =>
            /\ i <= Len(blocks) /\ blocks[i] = net[i]
            /\ failures = 0 => disk.blocks[i - 1] = net[i]

\* What this node has proposed and saved since it started is in its chain.
OwnStored ==
    \A h \in 1 .. MaxHeight :
        disk.blocks[h] # NoBlock /\ Own(h) /\ disk.blocks[h].time = crashes =>
            h < Len(blocks)

\* The store agrees with the chain, but for the block that the production loop
\* is about to save.
StoreAgrees ==
    \A h \in 1 .. MaxHeight :
        h < Len(blocks) /\ disk.blocks[h] # NoBlock =>
            \/ disk.blocks[h] = blocks[h + 1]
            \/ /\ h = Len(blocks) - 1 /\ disk.height < h
               /\ th[Producer].pc \in {"remove", "saveBlock"}

\* A block that this node proposed before its first crash is the one the others
\* hold, if they hold one of then.
FirstLifeAgrees ==
    \A i \in 2 .. Len(net) :
        /\ Own(i - 1) /\ net[i].time = 0
        /\ disk.blocks[i - 1] # NoBlock /\ disk.blocks[i - 1].time = 0
        => disk.blocks[i - 1] = net[i]

\* The world state that the chain stands for, until the first crash.
World == IF mu = Free THEN state ELSE th[mu].snap
WorldAgrees == phase # "down" => World = Replay(blocks)

IInv ==
    /\ Typed /\ NetOK /\ BlocksOK /\ DiskOK /\ ThreadsOK
    /\ OwnBroadcast /\ OwnStored
    /\ crashes <= 1 /\ failures = 0 => StoreAgrees /\ FirstLifeAgrees
    /\ crashes = 0 => WorldAgrees

-----------------------------------------------------------------------------
(* What a step of one goroutine does to th *)

\* r is what goroutine t becomes, and no other goroutine moves.
Moves(t, r) == th' = [th EXCEPT ![t] = r] /\ DOMAIN r = ThreadFields

\* A step of one goroutine leaves the others where they are.
LEMMA OthersStay ==
    ASSUME NEW t \in Threads, NEW r, Typed, Moves(t, r)
    PROVE  /\ th' = [u \in Threads |-> th'[u]]
           /\ th'[t] = r
           /\ \A u \in Threads : u # t => th'[u] = th[u]
  BY DEF Typed, Moves

\* The kinds of goroutines are different ones.
LEMMA Roles ==
    /\ Producer \in Committers /\ Committers \subseteq Threads
    /\ Submitters \subseteq Threads /\ Handlers \subseteq Committers
    /\ \A t \in Committers : t \in Handlers \/ t = Producer
    /\ Producer \notin Handlers /\ Producer \notin Submitters
    /\ \A t \in Submitters : t \notin Committers
    /\ Free \notin Threads /\ Free \notin Committers
  BY NodeAssumption, StoreAssumption DEF Committers, Threads

\* The types, after a step of one goroutine.
LEMMA TypedStep ==
    ASSUME NEW t \in Threads, NEW r, Typed, phase = "up", Moves(t, r),
           UNCHANGED <<phase, crashes>>,
           DOMAIN r.block = BlockFields, r.snap \in SoundState, state' \in SoundState,
           pool' \subseteq Txs, failures' \in 0 .. MaxFailures,
           mu' \in Committers \cup {Free}, r.pc = "apply" <=> mu' = t,
           \A u \in Threads : u # t => (mu' = u <=> mu = u)
    PROVE  Typed'
  <1>1. /\ th' = [u \in Threads |-> th'[u]]
        /\ th'[t] = r
        /\ \A u \in Threads : u # t => th'[u] = th[u]
    BY OthersStay
  <1>2. ASSUME NEW u \in Threads
        PROVE  /\ DOMAIN th'[u] = ThreadFields /\ DOMAIN th'[u].block = BlockFields
               /\ th'[u].snap \in SoundState
               /\ th'[u].pc = "apply" <=> mu' = u
               /\ phase' # "up" => th'[u].pc = "idle"
    <2>1. CASE u = t
      BY <1>1, <2>1 DEF Moves
    <2>2. CASE u # t
      BY <1>1, <2>2 DEF Typed
    <2> QED
      BY <2>1, <2>2
  <1> QED
    BY <1>1, <1>2 DEF Typed

\* The goroutines, when each of them is as it should be after the step.
LEMMA ThreadsStep ==
    ASSUME NEW t \in Threads, NEW r, Typed, Moves(t, r),
           t \in Submitters => SubmitterOK(r)', t \in Committers => CommitterOK(r)',
           t \in Handlers => HandlerOK(r)', t = Producer => ProducerOK(r)',
           \A u \in Submitters \ {t} : SubmitterOK(th[u])',
           \A u \in Committers \ {t} : CommitterOK(th[u])',
           \A u \in Handlers \ {t} : HandlerOK(th[u])',
           Producer # t => ProducerOK(th[Producer])'
    PROVE  ThreadsOK'
  <1>1. th'[t] = r
    BY OthersStay
  <1>2. \A u \in Submitters : SubmitterOK(th[u])'
    BY <1>1 DEF SubmitterOK
  <1>3. \A u \in Committers : CommitterOK(th[u])'
    BY <1>1 DEF CommitterOK, Applying
  <1>4. \A u \in Handlers : HandlerOK(th[u])'
    BY <1>1 DEF HandlerOK
  <1>5. ProducerOK(th[Producer])'
    BY <1>1 DEF ProducerOK
  <1> QED
    BY <1>2, <1>3, <1>4, <1>5 DEF ThreadsOK

\* Goroutines that do not move stay as they should be while the chain and what
\* the others hold only grow.
LEMMA OtherSubmitter ==
    ASSUME NEW u \in Submitters, IInv, th'[u] = th[u]
    PROVE  SubmitterOK(th[u])'
  BY DEF IInv, ThreadsOK, SubmitterOK

\* A handler's block stays one that the others hold.
LEMMA OtherHandler ==
    ASSUME NEW u \in Handlers, IInv, th'[u] = th[u], UNCHANGED crashes,
           Range(net) \subseteq Range(net')
    PROVE  HandlerOK(th[u])'
  BY DEF IInv, ThreadsOK, HandlerOK, BlockOK

\* A goroutine that has added its block finds it in the chain that others
\* extend, and one in the loop of AddBlock is alone there.
LEMMA OtherCommitter ==
    ASSUME NEW u \in Committers, IInv, th'[u] = th[u],
           th[u].pc = "apply" => UNCHANGED <<blocks, state>>,
           Len(blocks) <= Len(blocks'), \A i \in 1 .. Len(blocks) : blocks'[i] = blocks[i],
           th[u].pc \in Saving => th[u].block.index \in Nat
    PROVE  CommitterOK(th[u])'
  <1>1. CommitterOK(th[u])
    BY DEF IInv, ThreadsOK
  <1>2. th'[u].pc = "apply" => Applying(th[u])'
    BY <1>1 DEF CommitterOK, Applying, LatestBlock
  <1>3. Len(blocks) \in Nat /\ Len(blocks') \in Int
    BY SeqProps DEF IInv, BlocksOK
  <1>4. th'[u].pc \in Saving => InChain(th[u].block)'
    <2> SUFFICES ASSUME th[u].pc \in Saving PROVE InChain(th[u].block)'
      OBVIOUS
    <2>1. /\ th[u].block.index < Len(blocks)
          /\ blocks[th[u].block.index + 1] = th[u].block
      BY <1>1 DEF CommitterOK, InChain
    <2>2. th[u].block.index + 1 \in 1 .. Len(blocks)
      BY <1>3, <2>1
    <2> QED
      BY <1>3, <2>1, <2>2 DEF InChain
  <1> QED
    BY <1>2, <1>4 DEF CommitterOK

\* The production loop keeps the tip while nobody extends the chain.
LEMMA OtherProducer ==
    ASSUME IInv, th'[Producer] = th[Producer],
           UNCHANGED <<blocks, net, disk, crashes>>, failures' = 0 => failures = 0
    PROVE  ProducerOK(th[Producer])'
  BY DEF IInv, ThreadsOK, ProducerOK, BlockOK, LatestBlock

\* The committers hold blocks with an index.
LEMMA HeldIndex ==
    ASSUME NEW u \in Committers, IInv, th[u].pc \in Holding
    PROVE  BlockOK(th[u].block) /\ th[u].block.index \in Nat \ {0}
  <1>1. BlockOK(th[u].block)
    BY Roles DEF IInv, ThreadsOK, HandlerOK, ProducerOK, Holding, Saving
  <1> QED
    BY <1>1, NodeAssumption, StoreAssumption DEF BlockOK

\* What a step that changes neither chain nor store nor network leaves alone.
LEMMA Kept ==
    ASSUME IInv, UNCHANGED <<phase, blocks, disk, net, crashes>>,
           failures' = 0 => failures = 0
    PROVE  /\ NetOK' /\ BlocksOK' /\ DiskOK' /\ OwnBroadcast' /\ OwnStored'
           /\ crashes' <= 1 /\ failures' = 0 => FirstLifeAgrees'
  <1>1. NetOK'
    BY DEF IInv, NetOK
  <1>2. BlocksOK'
    BY DEF IInv, BlocksOK, FromChain
  <1>3. DiskOK'
    BY DEF IInv, DiskOK, FromChain
  <1>4. OwnBroadcast' /\ OwnStored'
    BY DEF IInv, OwnBroadcast, OwnStored
  <1>5. crashes' <= 1 /\ failures' = 0 => FirstLifeAgrees'
    BY DEF IInv, FirstLifeAgrees
  <1> QED
    BY <1>1, <1>2, <1>3, <1>4, <1>5

\* A step of one goroutine on its own variables, bc.mu, the state or the pool.
LEMMA ThreadStep ==
    ASSUME NEW t \in Threads, NEW r, IInv, phase = "up", Moves(t, r),
           UNCHANGED <<phase, blocks, disk, net, crashes>>,
           failures' \in 0 .. MaxFailures, failures' = 0 => failures = 0,
           DOMAIN r.block = BlockFields, r.snap \in SoundState, state' \in SoundState,
           pool' \subseteq Txs,
           mu' \in Committers \cup {Free}, r.pc = "apply" <=> mu' = t,
           \A u \in Threads : u # t => (mu' = u <=> mu = u) /\ (mu = u => UNCHANGED state),
           t \in Submitters => SubmitterOK(r)', t \in Committers => CommitterOK(r)',
           t \in Handlers => HandlerOK(r)', t = Producer => ProducerOK(r)',
           /\ failures' = 0 /\ t = Producer /\ th[t].pc \in {"remove", "saveBlock"}
           => r.pc \in {"remove", "saveBlock"},
           crashes = 0 => UNCHANGED World
    PROVE  IInv'
  <1>1. Typed
    BY DEF IInv
  <1>2. Typed'
    BY <1>1, TypedStep
  <1>3. th'[t] = r /\ \A u \in Threads : u # t => th'[u] = th[u]
    BY <1>1, OthersStay
  <1>4. \A u \in Submitters \ {t} : SubmitterOK(th[u])'
    BY <1>3, Roles, OtherSubmitter
  <1>5. \A u \in Handlers \ {t} : HandlerOK(th[u])'
    BY <1>3, Roles, OtherHandler
  <1>6. ASSUME NEW u \in Committers \ {t} PROVE CommitterOK(th[u])'
    <2>1. u \in Threads /\ th'[u] = th[u] /\ u \in Committers
      BY <1>3, Roles
    <2>2. th[u].pc = "apply" => UNCHANGED <<blocks, state>>
      BY <1>1, <2>1 DEF Typed
    <2>3. th[u].pc \in Saving => th[u].block.index \in Nat
      BY <2>1, HeldIndex DEF Holding
    <2>4. Len(blocks) <= Len(blocks') /\ \A i \in 1 .. Len(blocks) : blocks'[i] = blocks[i]
      BY SeqProps DEF IInv, BlocksOK
    <2> QED
      BY <2>1, <2>2, <2>3, <2>4, OtherCommitter
  <1>7. Producer # t => ProducerOK(th[Producer])'
    BY <1>3, Roles, OtherProducer
  <1>8. ThreadsOK'
    BY <1>1, <1>4, <1>5, <1>6, <1>7, ThreadsStep
  <1>9. crashes' <= 1 /\ failures' = 0 => StoreAgrees'
    <2> SUFFICES ASSUME crashes <= 1, failures' = 0 PROVE StoreAgrees'
      OBVIOUS
    <2>1. StoreAgrees
      BY DEF IInv
    <2>2. th[Producer].pc \in {"remove", "saveBlock"} => th'[Producer].pc \in {"remove", "saveBlock"}
      BY <1>3, Roles
    <2> QED
      BY <2>1, <2>2 DEF StoreAgrees
  <1>10. crashes' = 0 => WorldAgrees'
    BY DEF IInv, WorldAgrees
  <1> QED
    BY <1>2, <1>8, <1>9, <1>10, Kept DEF IInv

-----------------------------------------------------------------------------
(* One lemma per action: steps of one goroutine on its own *)

\* The tip of the chain of a running node.
LEMMA Tip ==
    ASSUME IInv, phase # "down"
    PROVE  /\ Len(blocks) \in 1 .. MaxHeight + 1
           /\ LatestBlock = blocks[Len(blocks)]
           /\ LatestBlock.index = Len(blocks) - 1
  <1>1. Len(blocks) \in 1 .. MaxHeight + 1
    BY SeqProps, NodeAssumption, StoreAssumption DEF IInv, BlocksOK
  <1>2. LatestBlock = blocks[Len(blocks)]
    BY DEF LatestBlock, Last
  <1>3. blocks # <<>> /\ blocks[1] = Genesis /\ Genesis.index = 0
    BY DEF IInv, BlocksOK, Genesis, GenesisBlock, Block
  <1>4. \A i \in 2 .. Len(blocks) : blocks[i].index = i - 1
    BY DEF IInv, BlocksOK, FromChain
  <1>5. LatestBlock.index = Len(blocks) - 1
    <2>1. CASE Len(blocks) = 1
      BY <2>1, <1>2, <1>3
    <2>2. CASE Len(blocks) # 1
      <3>1. PICK k \in Nat : k = Len(blocks)
        BY <1>1, NodeAssumption, StoreAssumption
      <3>2. k \in 2 .. Len(blocks)
        BY <2>2, <3>1, <1>1
      <3>3. blocks[k].index = k - 1
        BY <3>2, <1>4
      <3> QED
        BY <3>1, <3>3, <1>2
    <2> QED
      BY <2>1, <2>2
  <1> QED
    BY <1>1, <1>2, <1>5

\* A goroutine that has left "idle" belongs to a running process.
LEMMA Running ==
    ASSUME NEW t \in Threads, IInv, th[t].pc # "idle"
    PROVE  phase = "up"
  BY DEF IInv, Typed

\* A block that gossip delivers at the height after the tip.
LEMMA DeliveredOK ==
    ASSUME IInv, phase = "up", NEW b \in Delivered,
           b.index = LatestBlock.index + 1, ExpectedProposer(b)
    PROVE  /\ DOMAIN b = BlockFields /\ BlockOK(b)
           /\ b.prev # <<>> => b \in Range(net)
  <1>1. b.index \in Nat \ {0}
    <2>1. LatestBlock.index = Len(blocks) - 1 /\ Len(blocks) \in 1 .. MaxHeight + 1
      BY Tip
    <2> QED
      BY <2>1, NodeAssumption, StoreAssumption
  <1>2. CASE b \in Range(net)
    <2>1. PICK i \in 1 .. Len(net) : b = net[i]
      BY <1>2, SeqProps DEF IInv, NetOK
    <2>2. i # 1
      BY <1>1, <2>1 DEF IInv, NetOK, Genesis, GenesisBlock, Block
    <2>3. i \in 2 .. Len(net) /\ Len(net) \in Nat /\ Len(net) <= MaxHeight + 1
      BY <2>1, <2>2, SeqProps DEF IInv, NetOK
    <2>4. i - 1 \in 1 .. MaxHeight
      BY <2>3, NodeAssumption, StoreAssumption
    <2> QED
      BY <1>2, <2>1, <2>3, <2>4 DEF IInv, NetOK, BlockOK
  <1>3. CASE b \notin Range(net)
    <2>1. PICK h \in 1 .. MaxHeight : b = Block(h, <<>>, <<>>, ProposerForHeight(h), 0)
      BY <1>3 DEF Delivered
    <2>2. <<>> \in Seq(Txs) /\ Len(<<>>) <= MaxTxsPerBlock /\ 0 \in 0 .. crashes
      BY BlocksAssumption, NodeAssumption, StoreAssumption DEF IInv, Typed
    <2> QED
      BY <2>1, <2>2 DEF Block, BlockFields, BlockOK
  <1> QED
    BY <1>2, <1>3

\* The world state that the chain stands for does not change while bc.mu and
\* the goroutine that holds it stay as they are.
LEMMA WorldStays ==
    ASSUME NEW t \in Threads, NEW r, IInv, Moves(t, r), mu # t,
           UNCHANGED <<state, mu>>
    PROVE  UNCHANGED World
  <1>1. CASE mu = Free
    BY <1>1 DEF World
  <1>2. CASE mu # Free
    <2>1. mu \in Threads /\ Typed
      BY <1>2, Roles DEF IInv, Typed
    <2>2. th'[mu] = th[mu]
      BY <2>1, OthersStay
    <2> QED
      BY <1>2, <2>2 DEF World
  <1> QED
    BY <1>1, <1>2

\* A handler takes a delivered block, to be accepted.
LEMMA ReceiveStep ==
    ASSUME NEW t \in Handlers, IInv, ReceiveBlock(t)
    PROVE  IInv'
  <1>1. t \in Threads /\ t \in Committers /\ t \notin Submitters /\ t # Producer
    BY Roles
  <1>2. phase = "up" /\ th[t].pc = "idle" /\ Typed
    BY DEF ReceiveBlock, IInv
  <1>3. PICK b \in Delivered :
            /\ b.index = LatestBlock.index + 1 /\ ExpectedProposer(b)
            /\ th' = [th EXCEPT ![t].pc = "accept", ![t].block = b]
    BY DEF ReceiveBlock
  <1>4. UNCHANGED <<phase, blocks, state, mu, pool, disk, net, crashes, failures>>
    BY DEF ReceiveBlock
  <1>5. PICK r : Moves(t, r) /\ r.pc = "accept" /\ r.block = b /\ r.snap = th[t].snap
    <2>1. th' = [th EXCEPT ![t] = th'[t]] /\ DOMAIN th'[t] = ThreadFields
          /\ th'[t].pc = "accept" /\ th'[t].block = b /\ th'[t].snap = th[t].snap
      BY <1>1, <1>2, <1>3 DEF Typed, ThreadFields
    <2> QED
      BY <2>1 DEF Moves
  <1>6. /\ DOMAIN r.block = BlockFields /\ BlockOK(b)
        /\ b.prev # <<>> => b \in Range(net)
    BY <1>2, <1>3, <1>5, DeliveredOK
  <1>7. HandlerOK(r)' /\ CommitterOK(r)'
    BY <1>4, <1>5, <1>6 DEF HandlerOK, CommitterOK, BlockOK, Holding, Saving
  <1>8. mu # t /\ r.snap \in SoundState
    BY <1>1, <1>2, <1>5 DEF Typed
  <1>9. UNCHANGED World
    BY <1>1, <1>4, <1>5, <1>8, WorldStays
  <1>10. state' \in SoundState /\ pool' \subseteq Txs /\ mu' \in Committers \cup {Free}
         /\ failures' \in 0 .. MaxFailures
    BY <1>2, <1>4 DEF Typed
  <1> QED
    BY <1>1, <1>2, <1>4, <1>5, <1>6, <1>7, <1>8, <1>9, <1>10, ThreadStep

\* The production loop reads the tip.
LEMMA ProposeStep ==
    ASSUME IInv, ProposeBlock
    PROVE  IInv'
  <1> DEFINE t == Producer
             h == LatestBlock.index + 1
  <1>1. t \in Threads /\ t \in Committers /\ t \notin Submitters /\ t \notin Handlers
    BY Roles
  <1>2. phase = "up" /\ th[t].pc = "idle" /\ Typed /\ h <= MaxHeight /\ Own(h)
    BY DEF ProposeBlock, IInv, Own
  <1>3. th' = [th EXCEPT ![t].pc = "pending",
                         ![t].block = NewBlock(LatestBlock, <<>>, LocalID, crashes)]
    BY DEF ProposeBlock
  <1>4. UNCHANGED <<phase, blocks, state, mu, pool, disk, net, crashes, failures>>
    BY DEF ProposeBlock
  <1>5. PICK r : /\ Moves(t, r) /\ r.pc = "pending" /\ r.snap = th[t].snap
                 /\ r.block = NewBlock(LatestBlock, <<>>, LocalID, crashes)
    <2>1. th' = [th EXCEPT ![t] = th'[t]] /\ DOMAIN th'[t] = ThreadFields
          /\ th'[t].pc = "pending" /\ th'[t].snap = th[t].snap
          /\ th'[t].block = NewBlock(LatestBlock, <<>>, LocalID, crashes)
      BY <1>1, <1>2, <1>3 DEF Typed, ThreadFields
    <2> QED
      BY <2>1 DEF Moves
  <1>6. DOMAIN r.block = BlockFields /\ BlockOK(r.block)
        /\ r.block.validator = LocalID /\ r.block.time = crashes
    <2>1. h \in 1 .. MaxHeight
      <3>1. Len(blocks) \in 1 .. MaxHeight + 1 /\ LatestBlock.index = Len(blocks) - 1
        BY <1>2, Tip
      <3> QED
        BY <3>1, <1>2, NodeAssumption, StoreAssumption
    <2>2. <<>> \in Seq(Txs) /\ Len(<<>>) <= MaxTxsPerBlock /\ crashes \in 0 .. crashes
      BY BlocksAssumption, NodeAssumption, StoreAssumption, <1>2 DEF Typed
    <2> QED
      BY <2>1, <2>2, <1>2, <1>5 DEF NewBlock, Block, BlockFields, BlockOK, Own
  <1>7. ProducerOK(r)' /\ CommitterOK(r)'
    BY <1>4, <1>5, <1>6 DEF ProducerOK, CommitterOK, BlockOK, Holding, Saving
  <1>8. mu # t /\ r.snap \in SoundState
    BY <1>1, <1>2, <1>5 DEF Typed
  <1>9. UNCHANGED World
    BY <1>1, <1>4, <1>5, <1>8, WorldStays
  <1>10. state' \in SoundState /\ pool' \subseteq Txs /\ mu' \in Committers \cup {Free}
         /\ failures' \in 0 .. MaxFailures
    BY <1>2, <1>4 DEF Typed
  <1> QED
    BY <1>1, <1>2, <1>4, <1>5, <1>6, <1>7, <1>8, <1>9, <1>10, ThreadStep

\* What a batch of the pool is.
LEMMA BatchOK ==
    ASSUME pool \subseteq Txs, NEW txs \in Batches(pool)
    PROVE  txs \in Seq(Txs) /\ Len(txs) <= MaxTxsPerBlock
  <1>1. txs \in SeqOf(pool, MaxTxsPerBlock)
    BY DEF Batches
  <1>2. PICK n \in 0 .. MaxTxsPerBlock : txs \in [1 .. n -> pool]
    BY <1>1 DEF SeqOf
  <1>3. txs \in [1 .. n -> Txs] /\ n \in Nat
    BY <1>2
  <1> QED
    BY <1>2, <1>3, BlocksAssumption

\* The production loop fills its block from the pool.
LEMMA PendingStep ==
    ASSUME IInv, Pending
    PROVE  IInv'
  <1> DEFINE t == Producer
  <1>1. t \in Threads /\ t \in Committers /\ t \notin Submitters /\ t \notin Handlers
    BY Roles
  <1>2. phase = "up" /\ th[t].pc = "pending" /\ Typed
    BY <1>1, Running DEF Pending, IInv
  <1>3. PICK txs \in Batches(pool) :
            th' = [th EXCEPT ![t].pc = "accept", ![t].block.txs = txs]
    BY DEF Pending
  <1>4. UNCHANGED <<phase, blocks, state, mu, pool, disk, net, crashes, failures>>
    BY DEF Pending
  <1> DEFINE b == [th[t].block EXCEPT !.txs = txs]
  <1>5. PICK r : Moves(t, r) /\ r.pc = "accept" /\ r.snap = th[t].snap /\ r.block = b
    <2>1. th' = [th EXCEPT ![t] = th'[t]] /\ DOMAIN th'[t] = ThreadFields
          /\ th'[t].pc = "accept" /\ th'[t].snap = th[t].snap
          /\ th'[t].block = b
      BY <1>1, <1>2, <1>3 DEF Typed, ThreadFields
    <2> QED
      BY <2>1 DEF Moves
  <1>6. DOMAIN b = BlockFields /\ BlockOK(b)
        /\ b.validator = LocalID /\ b.time = crashes
    <2>1. BlockOK(th[t].block) /\ th[t].block.validator = LocalID
          /\ th[t].block.time = crashes
      BY <1>2 DEF IInv, ThreadsOK, ProducerOK
    <2>2. txs \in Seq(Txs) /\ Len(txs) <= MaxTxsPerBlock
      BY <1>2, BatchOK DEF Typed
    <2>3. DOMAIN th[t].block = BlockFields
      BY <1>1, <1>2 DEF Typed
    <2>4. /\ DOMAIN b = BlockFields /\ b.txs = txs /\ b.index = th[t].block.index
          /\ b.validator = th[t].block.validator /\ b.time = th[t].block.time
      BY <2>3 DEF BlockFields
    <2> HIDE DEF b
    <2> QED
      BY <2>1, <2>2, <2>4 DEF BlockOK
  <1> HIDE DEF b
  <1>7. ProducerOK(r)' /\ CommitterOK(r)'
    BY <1>4, <1>5, <1>6 DEF ProducerOK, CommitterOK, BlockOK, Holding, Saving
  <1>8. mu # t /\ r.snap \in SoundState
    BY <1>1, <1>2, <1>5 DEF Typed
  <1>9. UNCHANGED World
    BY <1>1, <1>4, <1>5, <1>8, WorldStays
  <1>10. state' \in SoundState /\ pool' \subseteq Txs /\ mu' \in Committers \cup {Free}
         /\ failures' \in 0 .. MaxFailures
    BY <1>2, <1>4 DEF Typed
  <1> QED
    BY <1>1, <1>2, <1>4, <1>5, <1>6, <1>7, <1>8, <1>9, <1>10, ThreadStep

\* A submitter has validated a transaction.
LEMMA SubmitStep ==
    ASSUME NEW t \in Submitters, IInv, SubmitTx(t)
    PROVE  IInv'
  <1>1. t \in Threads /\ t \notin Committers /\ t \notin Handlers /\ t # Producer
    BY Roles
  <1>2. phase = "up" /\ th[t].pc = "idle" /\ Typed
    BY DEF SubmitTx, IInv
  <1>3. PICK tx \in Txs :
            th' = [th EXCEPT ![t].pc = "add", ![t].block.txs = <<tx>>]
    BY DEF SubmitTx
  <1>4. UNCHANGED <<phase, blocks, state, mu, pool, disk, net, crashes, failures>>
    BY DEF SubmitTx
  <1>5. PICK r : /\ Moves(t, r) /\ r.pc = "add" /\ r.snap = th[t].snap
                 /\ DOMAIN r.block = BlockFields /\ r.block.txs = <<tx>>
    <2>1. th' = [th EXCEPT ![t] = th'[t]] /\ DOMAIN th'[t] = ThreadFields
          /\ th'[t].pc = "add" /\ th'[t].snap = th[t].snap
          /\ DOMAIN th'[t].block = BlockFields /\ th'[t].block.txs = <<tx>>
      BY <1>1, <1>2, <1>3 DEF Typed, ThreadFields, BlockFields
    <2> QED
      BY <2>1 DEF Moves
  <1>6. SubmitterOK(r)'
    BY <1>5 DEF SubmitterOK
  <1>7. mu # t /\ r.snap \in SoundState
    BY <1>1, <1>2, <1>5 DEF Typed
  <1>8. UNCHANGED World
    BY <1>1, <1>4, <1>5, <1>7, WorldStays
  <1>9. state' \in SoundState /\ pool' \subseteq Txs /\ mu' \in Committers \cup {Free}
        /\ failures' \in 0 .. MaxFailures
    BY <1>2, <1>4 DEF Typed
  <1> QED
    BY <1>1, <1>2, <1>4, <1>5, <1>6, <1>7, <1>8, <1>9, ThreadStep

\* What a goroutine without a block is.
LEMMA IdleOK ==
    /\ DOMAIN Idle = ThreadFields /\ DOMAIN Idle.block = BlockFields
    /\ Idle.pc = "idle" /\ Idle.snap \in SoundState
    /\ SubmitterOK(Idle)' /\ CommitterOK(Idle)' /\ HandlerOK(Idle)' /\ ProducerOK(Idle)'
    /\ SubmitterOK(Idle) /\ CommitterOK(Idle) /\ HandlerOK(Idle) /\ ProducerOK(Idle)
  <1>1. /\ DOMAIN Idle = ThreadFields /\ DOMAIN Idle.block = BlockFields
        /\ Idle.pc = "idle" /\ Idle.snap = EmptyState
    BY DEF Idle, Genesis, GenesisBlock, Block, ThreadFields, BlockFields
  <1>2. EmptyState \in SoundState
    BY LedgerAssumption DEF EmptyState, NewState, SoundState, State, NoLock, Int64
  <1>3. Idle.pc \notin Holding /\ Idle.pc \notin Saving
    BY <1>1 DEF Holding, Saving
  <1> QED
    BY <1>1, <1>2, <1>3 DEF SubmitterOK, CommitterOK, HandlerOK, ProducerOK

\* A goroutine gives up what it did and leaves the state and bc.mu alone.
LEMMA MovesIdle ==
    ASSUME NEW t \in Threads, th' = [th EXCEPT ![t] = Idle]
    PROVE  Moves(t, Idle)
  BY IdleOK DEF Moves

\* The submitted transaction enters the pool.
LEMMA AddToPoolStep ==
    ASSUME NEW t \in Submitters, IInv, AddToPool(t)
    PROVE  IInv'
  <1>1. t \in Threads /\ t \notin Committers /\ t \notin Handlers /\ t # Producer
    BY Roles
  <1>2. phase = "up" /\ th[t].pc = "add" /\ Typed
    BY <1>1, Running DEF AddToPool, IInv
  <1>3. th' = [th EXCEPT ![t] = Idle] /\ pool' = Add(pool, Head(th[t].block.txs))
    BY DEF AddToPool
  <1>4. UNCHANGED <<phase, blocks, state, mu, disk, net, crashes, failures>>
    BY DEF AddToPool
  <1>5. Moves(t, Idle)
    BY <1>1, <1>3, MovesIdle
  <1>6. Head(th[t].block.txs) \in Txs
    BY <1>2 DEF IInv, ThreadsOK, SubmitterOK
  <1>7. mu # t
    BY <1>1, <1>2 DEF Typed
  <1>8. UNCHANGED World
    BY <1>1, <1>4, <1>5, <1>7, WorldStays
  <1>9. state' \in SoundState /\ pool' \subseteq Txs /\ mu' \in Committers \cup {Free}
        /\ failures' \in 0 .. MaxFailures
    BY <1>2, <1>3, <1>4, <1>6 DEF Typed, Add
  <1> QED
    BY <1>1, <1>2, <1>4, <1>5, <1>7, <1>8, <1>9, IdleOK, ThreadStep

\* A goroutine that goes on with its block.
LEMMA KeepsBlock ==
    ASSUME NEW t \in Committers, NEW r, IInv, th[t].pc # "idle", r.block = th[t].block,
           r.pc \in Holding, r.pc \in Saving => th[t].pc \in Saving,
           UNCHANGED <<blocks, net, disk, crashes>>, failures' = 0 => failures = 0,
           /\ failures' = 0 /\ r.pc \in {"saveState", "flush"}
           => th[t].pc \in {"saveState", "flush"}
    PROVE  /\ t \in Handlers => HandlerOK(r)'
           /\ t = Producer => ProducerOK(r)'
           /\ r.pc \in Saving => InChain(r.block)'
  <1>1. t \in Handlers => HandlerOK(r)'
    BY DEF IInv, ThreadsOK, HandlerOK, BlockOK, Holding, Saving
  <1>2. t = Producer => ProducerOK(r)'
    <2> SUFFICES ASSUME t = Producer PROVE ProducerOK(r)'
      OBVIOUS
    <2>1. ProducerOK(th[t]) /\ r.pc # "idle"
      BY DEF IInv, ThreadsOK, Holding, Saving
    <2>2. BlockOK(r.block)' /\ r.block.validator = LocalID /\ r.block.time = crashes'
      BY <2>1 DEF ProducerOK, BlockOK
    <2>3. r.pc \in Saving => r.block \notin Range(net') /\ r.block = LatestBlock'
      BY <2>1 DEF ProducerOK, LatestBlock
    <2>4. failures' = 0 /\ r.pc \in {"saveState", "flush"} =>
            disk'.blocks[r.block.index] = r.block
      BY <2>1 DEF ProducerOK
    <2> QED
      BY <2>2, <2>3, <2>4 DEF ProducerOK
  <1>3. r.pc \in Saving => InChain(r.block)'
    BY DEF IInv, ThreadsOK, CommitterOK, InChain
  <1> QED
    BY <1>1, <1>2, <1>3

\* AddBlock validates the header and takes the snapshot, or rejects the block.
LEMMA AddBlockStep ==
    ASSUME NEW t \in Committers, IInv, AddBlock(t)
    PROVE  IInv'
  <1>1. t \in Threads /\ t \in Committers /\ t \notin Submitters /\ t # Free
        /\ Free \notin Threads
    BY Roles
  <1>2. phase = "up" /\ th[t].pc = "accept" /\ mu = Free /\ Typed
    BY <1>1, Running DEF AddBlock, AddBlockUnlocked, IInv
  <1>3. UNCHANGED <<phase, blocks, state, pool, disk, net, crashes, failures>>
    BY DEF AddBlock, AddBlockUnlocked
  <1>4. state' \in SoundState /\ pool' \subseteq Txs /\ failures' \in 0 .. MaxFailures
    BY <1>2, <1>3 DEF Typed
  <1>5. CASE ValidateBlock(th[t].block, LatestBlock)
    <2>1. th' = [th EXCEPT ![t].pc = "apply", ![t].i = 1, ![t].snap = state] /\ mu' = t
      BY <1>5 DEF AddBlock, AddBlockUnlocked
    <2>2. PICK r : /\ Moves(t, r) /\ r.pc = "apply" /\ r.block = th[t].block
                   /\ r.i = 1 /\ r.snap = state
      <3>1. th' = [th EXCEPT ![t] = th'[t]] /\ DOMAIN th'[t] = ThreadFields
            /\ th'[t].pc = "apply" /\ th'[t].block = th[t].block
            /\ th'[t].i = 1 /\ th'[t].snap = state
        BY <1>1, <1>2, <2>1 DEF Typed, ThreadFields
      <3> QED
        BY <3>1 DEF Moves
    <2>3. DOMAIN r.block = BlockFields /\ r.snap \in SoundState /\ BlockOK(r.block)
      BY <1>1, <1>2, <2>2, HeldIndex DEF Typed, Holding
    <2>4. r.block.txs \in Seq(Txs) /\ SubSeq(r.block.txs, 1, 0) = <<>>
      BY <2>3 DEF BlockOK
    <2>5. state = Run(SubSeq(r.block.txs, 1, 0), r.snap)
      BY <2>2, <2>4, RunEmpty
    <2>6. Applying(r)'
      <3>1. ValidateBlock(r.block, LatestBlock)'
        BY <1>3, <1>5, <2>2 DEF LatestBlock
      <3>2. r.i \in 1 .. Len(r.block.txs) + 1 /\ r.i - 1 = 0
        BY <2>2, <2>4
      <3>3. 1 .. r.i - 1 = {}
        BY <3>2
      <3> QED
        BY <1>3, <2>5, <3>1, <3>2, <3>3 DEF Applying
    <2>7. r.pc \notin Saving /\ r.pc \in Holding
      BY <2>2 DEF Saving, Holding
    <2>8. (t \in Handlers => HandlerOK(r)') /\ (t = Producer => ProducerOK(r)')
      BY <1>2, <1>3, <2>2, <2>7, KeepsBlock
    <2>9. CommitterOK(r)'
      BY <2>6, <2>7 DEF CommitterOK
    <2>10. UNCHANGED World
      <3>1. th'[t] = r
        BY <1>1, <1>2, <2>2, OthersStay
      <3> QED
        BY <1>1, <1>2, <2>1, <2>2, <3>1 DEF World
    <2> QED
      BY <1>1, <1>2, <1>3, <1>4, <2>1, <2>2, <2>3, <2>8, <2>9, <2>10, ThreadStep
  <1>6. CASE ~ ValidateBlock(th[t].block, LatestBlock)
    <2>1. th' = [th EXCEPT ![t] = Idle] /\ mu' = mu
      BY <1>6 DEF AddBlock, AddBlockUnlocked, Rejected
    <2>2. Moves(t, Idle)
      BY <1>1, <2>1, MovesIdle
    <2>3. UNCHANGED World
      BY <1>1, <1>2, <1>3, <2>1, <2>2, WorldStays
    <2> QED
      BY <1>1, <1>2, <1>3, <1>4, <2>1, <2>2, <2>3, IdleOK, ThreadStep
  <1> QED
    BY <1>5, <1>6

\* The state after one more of the first transactions of txs.
LEMMA RunOneMore ==
    ASSUME NEW txs \in Seq(Tx), NEW i \in 1 .. Len(txs), NEW s
    PROVE  Run(SubSeq(txs, 1, i), s) = ApplyTransaction(txs[i], Run(SubSeq(txs, 1, i - 1), s))
  <1> DEFINE p == SubSeq(txs, 1, i - 1)
             q == SubSeq(txs, 1, i)
  <1>1. /\ p \in Seq(Tx) /\ q \in Seq(Tx) /\ Len(p) = i - 1 /\ Len(q) = i
        /\ \A k \in 1 .. i - 1 : q[k] = p[k]
        /\ q[i] = txs[i]
    OBVIOUS
  <1>2. IsSeq(p) /\ IsSeq(q)
    BY <1>1, SeqIsSeq
  <1>3. Len(q) = Len(p) + 1
    BY <1>1
  <1> HIDE DEF p, q
  <1>4. Run(q, s) = ApplyTransaction(q[Len(q)], Run(p, s))
    BY <1>1, <1>2, <1>3, RunNext
  <1> QED
    BY <1>1, <1>4 DEF p, q

\* AddBlock applies the next transaction of its block, or rolls back.
LEMMA ApplyNextStep ==
    ASSUME NEW t \in Committers, IInv, ApplyNext(t)
    PROVE  IInv'
  <1> DEFINE tx == th[t].block.txs[th[t].i]
  <1>1. t \in Threads /\ t \in Committers /\ t \notin Submitters /\ t # Free
        /\ Free \notin Threads
    BY Roles
  <1>2. phase = "up" /\ th[t].pc = "apply" /\ mu = t /\ Typed
    BY <1>1, Running DEF ApplyNext, IInv, Typed
  <1>3. UNCHANGED <<phase, blocks, pool, disk, net, crashes, failures>>
    BY DEF ApplyNext
  <1>4. pool' \subseteq Txs /\ failures' \in 0 .. MaxFailures /\ state \in SoundState
        /\ th[t].snap \in SoundState
    BY <1>1, <1>2, <1>3 DEF Typed
  <1>5. Applying(th[t]) /\ BlockOK(th[t].block) /\ DOMAIN th[t].block = BlockFields
    BY <1>1, <1>2, HeldIndex DEF IInv, ThreadsOK, CommitterOK, Holding, Typed
  <1>6. th[t].i \in 1 .. Len(th[t].block.txs) /\ th[t].block.txs \in Seq(Txs)
    BY <1>5 DEF Applying, BlockOK, ApplyNext
  <1>7. tx \in Tx /\ th[t].block.txs \in Seq(Tx)
    BY <1>6, NodeAssumption, StoreAssumption
  <1>8. CASE ValidateTransaction(tx, state)
    <2>1. /\ state' = ApplyTransaction(tx, state) /\ mu' = mu
          /\ th' = [th EXCEPT ![t].i = @ + 1]
      BY <1>8 DEF ApplyNext
    <2>2. PICK r : /\ Moves(t, r) /\ r.pc = "apply" /\ r.block = th[t].block
                   /\ r.i = th[t].i + 1 /\ r.snap = th[t].snap
      <3>1. th' = [th EXCEPT ![t] = th'[t]] /\ DOMAIN th'[t] = ThreadFields
            /\ th'[t].pc = "apply" /\ th'[t].block = th[t].block
            /\ th'[t].i = th[t].i + 1 /\ th'[t].snap = th[t].snap
        BY <1>1, <1>2, <2>1 DEF Typed, ThreadFields
      <3> QED
        BY <3>1 DEF Moves
    <2>3. state' \in SoundState
      BY <1>4, <1>7, <1>8, <2>1, ApplySound
    <2> DEFINE txs == r.block.txs
               i == th[t].i
    <2>4. /\ r.i - 1 = i /\ r.i \in 1 .. Len(txs) + 1 /\ i \in 1 .. Len(txs)
          /\ txs = th[t].block.txs /\ txs \in Seq(Tx)
      BY <1>6, <1>7, <2>2
    <2>5. /\ state = Run(SubSeq(txs, 1, i - 1), r.snap)
          /\ \A j \in 1 .. i - 1 :
                ValidateTransaction(txs[j], Run(SubSeq(txs, 1, j - 1), r.snap))
      BY <1>5, <2>2 DEF Applying
    <2>6. ValidateTransaction(txs[i], state) /\ state' = ApplyTransaction(txs[i], state)
      BY <1>8, <2>1, <2>2
    <2> HIDE DEF txs, i
    <2>7. state' = Run(SubSeq(txs, 1, i), r.snap)
      BY <2>4, <2>5, <2>6, RunOneMore
    <2>8. \A j \in 1 .. i :
            ValidateTransaction(txs[j], Run(SubSeq(txs, 1, j - 1), r.snap))
      <3> SUFFICES ASSUME NEW j \in 1 .. i
                   PROVE  ValidateTransaction(txs[j], Run(SubSeq(txs, 1, j - 1), r.snap))
        OBVIOUS
      <3>1. CASE j = i
        BY <3>1, <2>5, <2>6
      <3>2. CASE j # i
        <4>1. j \in 1 .. i - 1
          BY <3>2, <2>4
        <4> QED
          BY <4>1, <2>5
      <3> QED
        BY <3>1, <3>2
    <2>9. Applying(r)'
      <3>1. ValidateBlock(r.block, LatestBlock)'
        BY <1>3, <1>5, <2>2 DEF LatestBlock, Applying
      <3> QED
        BY <3>1, <2>4, <2>7, <2>8 DEF Applying, txs
    <2>10. r.pc \notin Saving /\ r.pc \in Holding
      BY <2>2 DEF Saving, Holding
    <2>11. (t \in Handlers => HandlerOK(r)') /\ (t = Producer => ProducerOK(r)')
      BY <1>2, <1>3, <2>2, <2>10, KeepsBlock
    <2>12. CommitterOK(r)'
      BY <2>9, <2>10 DEF CommitterOK
    <2>13. UNCHANGED World
      BY <1>1, <1>2, <2>1, <2>2, OthersStay DEF World
    <2>14. r.snap \in SoundState /\ DOMAIN r.block = BlockFields
      BY <1>4, <1>5, <2>2
    <2> QED
      BY <1>1, <1>2, <1>3, <1>4, <2>1, <2>2, <2>3, <2>11, <2>12, <2>13, <2>14, ThreadStep
  <1>9. CASE ~ ValidateTransaction(tx, state)
    <2>1. th' = [th EXCEPT ![t] = Idle] /\ mu' = Free /\ state' = th[t].snap
      BY <1>9 DEF ApplyNext, Rejected, RolledBack
    <2>2. Moves(t, Idle)
      BY <1>1, <2>1, MovesIdle
    <2>3. UNCHANGED World
      BY <1>1, <1>2, <2>1 DEF World
    <2> QED
      BY <1>1, <1>2, <1>3, <1>4, <2>1, <2>2, <2>3, IdleOK, ThreadStep
  <1> QED
    BY <1>8, <1>9

\* A goroutine goes on to save the block it appended.
LEMMA SavingStep ==
    ASSUME NEW t \in Committers, NEW r, IInv, th[t].pc \in Saving, Moves(t, r),
           r.block = th[t].block, r.pc \in Saving, r.snap \in SoundState,
           UNCHANGED <<phase, blocks, state, mu, disk, net, crashes>>,
           pool' \subseteq Txs, failures' \in 0 .. MaxFailures,
           failures' = 0 =>
                /\ failures = 0
                /\ r.pc \in {"saveState", "flush"} <=> th[t].pc \in {"saveState", "flush"}
    PROVE  IInv'
  <1>1. t \in Threads /\ t \notin Submitters
    BY Roles
  <1>2. phase = "up" /\ Typed /\ th[t].pc # "idle" /\ th[t].pc # "apply" /\ r.pc # "apply"
        /\ r.pc \in Holding
    BY <1>1, Running DEF IInv, Saving, Holding
  <1>3. mu # t /\ DOMAIN r.block = BlockFields /\ state' \in SoundState
        /\ mu' \in Committers \cup {Free}
    BY <1>1, <1>2 DEF Typed
  <1>4. UNCHANGED World
    BY <1>1, <1>3, WorldStays
  <1>5. /\ t \in Handlers => HandlerOK(r)'
        /\ t = Producer => ProducerOK(r)'
        /\ r.pc \in Saving => InChain(r.block)'
    BY <1>2, KeepsBlock
  <1>6. CommitterOK(r)'
    BY <1>2, <1>5 DEF CommitterOK
  <1>7. /\ failures' = 0 /\ t = Producer /\ th[t].pc \in {"remove", "saveBlock"}
        => r.pc \in {"remove", "saveBlock"}
    BY DEF Saving
  <1>8. failures' = 0 => failures = 0
    OBVIOUS
  <1> QED
    BY <1>1, <1>2, <1>3, <1>4, <1>5, <1>6, <1>7, <1>8, ThreadStep

\* RemoveBatch.
LEMMA CleanPoolStep ==
    ASSUME NEW t \in Committers, IInv, CleanPool(t)
    PROVE  IInv'
  <1>1. t \in Threads /\ Typed
    BY Roles DEF IInv
  <1>2. /\ th[t].pc = "remove" /\ th' = [th EXCEPT ![t].pc = "saveBlock"]
        /\ pool' \subseteq pool
        /\ UNCHANGED <<phase, blocks, state, mu, disk, net, crashes, failures>>
    BY DEF CleanPool, RemoveBatch
  <1>3. PICK r : /\ Moves(t, r) /\ r.pc = "saveBlock" /\ r.block = th[t].block
                 /\ r.snap = th[t].snap
    <2>1. th' = [th EXCEPT ![t] = th'[t]] /\ DOMAIN th'[t] = ThreadFields
          /\ th'[t].pc = "saveBlock" /\ th'[t].block = th[t].block
          /\ th'[t].snap = th[t].snap
      BY <1>1, <1>2 DEF Typed, ThreadFields
    <2> QED
      BY <2>1 DEF Moves
  <1>4. /\ r.snap \in SoundState /\ pool' \subseteq Txs
        /\ failures' \in 0 .. MaxFailures
    BY <1>1, <1>2, <1>3 DEF Typed
  <1>5. th[t].pc \in Saving /\ r.pc \in Saving
    BY <1>2, <1>3 DEF Saving
  <1> QED
    BY <1>2, <1>3, <1>4, <1>5, SavingStep

\* SaveState copies the live maps.
LEMMA ReadStateStep ==
    ASSUME NEW t \in Committers, IInv, ReadState(t)
    PROVE  IInv'
  <1>1. t \in Threads /\ Typed
    BY Roles DEF IInv
  <1>2. /\ th[t].pc = "saveState"
        /\ th' = [th EXCEPT ![t].pc = "flush", ![t].snap = state]
        /\ UNCHANGED <<phase, blocks, state, mu, pool, disk, net, crashes, failures>>
    BY DEF ReadState
  <1>3. PICK r : /\ Moves(t, r) /\ r.pc = "flush" /\ r.block = th[t].block
                 /\ r.snap = state
    <2>1. th' = [th EXCEPT ![t] = th'[t]] /\ DOMAIN th'[t] = ThreadFields
          /\ th'[t].pc = "flush" /\ th'[t].block = th[t].block
          /\ th'[t].snap = state
      BY <1>1, <1>2 DEF Typed, ThreadFields
    <2> QED
      BY <2>1 DEF Moves
  <1>4. /\ r.snap \in SoundState /\ pool' \subseteq Txs
        /\ failures' \in 0 .. MaxFailures
    BY <1>1, <1>2, <1>3 DEF Typed
  <1>5. th[t].pc \in Saving /\ r.pc \in Saving
    BY <1>2, <1>3 DEF Saving
  <1> QED
    BY <1>2, <1>3, <1>4, <1>5, SavingStep

\* The Badger transaction of SaveBlock fails.
LEMMA SaveBlockFailsStep ==
    ASSUME NEW t \in Committers, IInv, SaveBlockFails(t)
    PROVE  IInv'
  <1>1. t \in Threads /\ Typed
    BY Roles DEF IInv
  <1>2. /\ th[t].pc = "saveBlock" /\ th' = [th EXCEPT ![t].pc = "saveState"]
        /\ failures < MaxFailures /\ failures' = failures + 1
        /\ UNCHANGED <<phase, blocks, state, mu, pool, disk, net, crashes>>
    BY DEF SaveBlockFails
  <1>3. PICK r : /\ Moves(t, r) /\ r.pc = "saveState" /\ r.block = th[t].block
                 /\ r.snap = th[t].snap
    <2>1. th' = [th EXCEPT ![t] = th'[t]] /\ DOMAIN th'[t] = ThreadFields
          /\ th'[t].pc = "saveState" /\ th'[t].block = th[t].block
          /\ th'[t].snap = th[t].snap
      BY <1>1, <1>2 DEF Typed, ThreadFields
    <2> QED
      BY <2>1 DEF Moves
  <1>4. r.snap \in SoundState /\ pool' \subseteq Txs
    BY <1>1, <1>2, <1>3 DEF Typed
  <1>5. failures' \in 0 .. MaxFailures /\ failures' # 0
    <2>1. MaxFailures \in Nat /\ failures \in 0 .. MaxFailures
      BY <1>1, NodeAssumption, StoreAssumption DEF Typed
    <2> QED
      BY <1>2, <2>1
  <1>6. th[t].pc \in Saving /\ r.pc \in Saving
    BY <1>2, <1>3 DEF Saving
  <1> QED
    BY <1>2, <1>3, <1>4, <1>5, <1>6, SavingStep

-----------------------------------------------------------------------------
(* One lemma per action: start, crash and restart *)

\* Goroutines without a block.
LEMMA AllIdle ==
    /\ (\A t \in Threads : th[t].pc = "idle") => ThreadsOK
    /\ (\A t \in Threads : th'[t].pc = "idle") => ThreadsOK'
  <1>1. "idle" \notin Saving
    BY DEF Saving
  <1> QED
    BY <1>1, Roles DEF ThreadsOK, SubmitterOK, CommitterOK, HandlerOK, ProducerOK

\* In a process that is not running every goroutine is idle and bc.mu is free.
LEMMA NotRunning ==
    ASSUME Typed, phase # "up"
    PROVE  mu = Free /\ \A t \in Threads : th[t].pc = "idle"
  BY Roles DEF Typed

\* The genesis block is a block without transactions.
LEMMA GenesisOK ==
    /\ Genesis.index = 0 /\ Genesis.txs = <<>> /\ Genesis # NoBlock
    /\ DOMAIN Genesis = BlockFields
  <1>1. /\ Genesis.index = 0 /\ Genesis.txs = <<>>
        /\ DOMAIN Genesis = BlockFields
    BY DEF Genesis, GenesisBlock, Block, BlockFields
  <1>2. NoBlock.index = -1
    BY DEF NoBlock
  <1> QED
    BY <1>1, <1>2

\* A process that was never started.
LEMMA InitInv ==
    ASSUME Init
    PROVE  IInv
  <1>1. \A t \in Threads : th[t] = Idle
    BY DEF Init
  <1>2. Typed
    <2>1. EmptyState \in SoundState
      BY IdleOK DEF Idle
    <2>2. th = [t \in Threads |-> th[t]] /\ \A t \in Threads : Free # t
      BY Roles DEF Init
    <2> QED
      BY <1>1, <2>1, <2>2, IdleOK, NodeAssumption, StoreAssumption DEF Init, Typed
  <1>3. NetOK
    BY NodeAssumption, StoreAssumption, OneIsSeq DEF Init, NetOK
  <1>4. BlocksOK
    BY NodeAssumption, StoreAssumption, EmptyIsSeq DEF Init, BlocksOK
  <1>5. DiskOK
    <2>1. EmptyState \in SoundState
      BY IdleOK DEF Idle
    <2>2. disk = EmptyDisk /\ phase = "down" /\ crashes = 0
      BY DEF Init
    <2> QED
      BY <2>1, <2>2, NodeAssumption, StoreAssumption DEF DiskOK, EmptyDisk
  <1>6. ThreadsOK
    BY <1>1, IdleOK, AllIdle
  <1>7. Len(net) = 1 /\ phase = "down"
    BY DEF Init
  <1>8. \A h \in 1 .. MaxHeight : disk.blocks[h] = NoBlock
    BY NodeAssumption, StoreAssumption DEF Init, EmptyDisk
  <1>9. OwnBroadcast /\ OwnStored /\ FirstLifeAgrees /\ StoreAgrees /\ WorldAgrees
    BY <1>7, <1>8 DEF OwnBroadcast, OwnStored, FirstLifeAgrees, StoreAgrees, WorldAgrees
  <1> QED
    BY <1>2, <1>3, <1>4, <1>5, <1>6, <1>9 DEF IInv

\* Before the first block of a life of the process nothing of that life is
\* with the others or in the store.
LEMMA NothingYet ==
    ASSUME IInv, phase = "down"
    PROVE  /\ \A i \in 2 .. Len(net) : Own(i - 1) => net[i].time # crashes
           /\ \A h \in 1 .. MaxHeight :
                disk.blocks[h] # NoBlock /\ Own(h) => disk.blocks[h].time # crashes
  <1>1. Len(blocks) = 0
    BY DEF IInv, BlocksOK
  <1> QED
    BY <1>1 DEF IInv, OwnBroadcast, OwnStored

\* The first start creates the chain.
LEMMA FirstBootStep ==
    ASSUME IInv, FirstBoot
    PROVE  IInv'
  <1>1. /\ phase = "down" /\ disk.height < 0 /\ crashes = 0
        /\ Typed /\ NetOK /\ DiskOK
    BY DEF FirstBoot, IInv, DiskOK
  <1>2. /\ phase' = "boot" /\ blocks' = <<Genesis>> /\ state' = NewState(Allocations)
        /\ disk' = StoreBlock(disk, Genesis)
        /\ UNCHANGED <<mu, pool, th, net, crashes, failures>>
    BY DEF FirstBoot
  <1>3. mu = Free /\ \A t \in Threads : th[t].pc = "idle"
    BY <1>1, NotRunning
  <1>4. MaxHeight \in Nat
    BY NodeAssumption, StoreAssumption
  <1>5. /\ DOMAIN disk' = {"blocks", "height", "state"} /\ disk'.state = disk.state
        /\ disk'.height = 0 /\ disk'.blocks = [disk.blocks EXCEPT ![0] = Genesis]
    BY <1>1, <1>2, GenesisOK DEF DiskOK, StoreBlock
  <1>6. /\ disk'.blocks = [h \in 0 .. MaxHeight |-> disk'.blocks[h]]
        /\ disk'.blocks[0] = Genesis
        /\ \A h \in 1 .. MaxHeight : disk'.blocks[h] = disk.blocks[h]
    <2>1. PICK d, e : d = disk.blocks /\ e = disk'.blocks
      OBVIOUS
    <2>2. d = [h \in 0 .. MaxHeight |-> d[h]]
      BY <1>1, <2>1 DEF DiskOK
    <2>3. e = [d EXCEPT ![0] = Genesis]
      BY <1>5, <2>1
    <2>4. 0 \in 0 .. MaxHeight
      BY <1>4
    <2> QED
      BY <1>4, <2>1, <2>2, <2>3, <2>4
  <1>7. Typed'
    BY <1>1, <1>2, <1>3, NewStateSound DEF Typed
  <1>8. NetOK'
    BY <1>1, <1>2 DEF NetOK
  <1>9. BlocksOK'
    BY <1>2, <1>4, OneIsSeq DEF BlocksOK
  <1>10. DiskOK'
    <2>1. ASSUME NEW h \in 1 .. MaxHeight, disk'.blocks[h] # NoBlock
          PROVE  FromChain(disk.blocks[h], h)'
      <3>1. disk'.blocks[h] = disk.blocks[h]
        BY <1>6
      <3>2. FromChain(disk.blocks[h], h)
        BY <1>1, <2>1, <3>1 DEF DiskOK
      <3> QED
        BY <1>2, <3>1, <3>2 DEF FromChain
    <2>2. Len(blocks') = 1 /\ 0 \in -1 .. MaxHeight
      BY <1>2, <1>4, OneIsSeq
    <2>3. disk'.blocks[disk'.height] # NoBlock /\ disk'.blocks[0] \in {NoBlock, Genesis}
      BY <1>5, <1>6, GenesisOK
    <2>4. disk'.state \in SoundState /\ disk'.height \in -1 .. MaxHeight
      BY <1>1, <1>5, <2>2 DEF DiskOK
    <2>5. /\ disk'.height < 0 <=> phase' = "down" /\ crashes' = 0
          /\ phase' # "down" => disk'.height < Len(blocks')
      BY <1>2, <1>5, <2>2
    <2> QED
      BY <1>5, <1>6, <2>1, <2>3, <2>4, <2>5 DEF DiskOK
  <1>11. ThreadsOK'
    BY <1>2, <1>3, AllIdle
  <1>12. OwnBroadcast' /\ OwnStored'
    BY <1>1, <1>2, <1>6, NothingYet DEF OwnBroadcast, OwnStored
  <1>13. StoreAgrees'
    BY <1>2, OneIsSeq DEF StoreAgrees
  <1>14. crashes' <= 1 /\ failures' = 0 => FirstLifeAgrees'
    <2> SUFFICES ASSUME crashes <= 1, failures = 0 PROVE FirstLifeAgrees'
      BY <1>2
    <2>1. \A i \in 2 .. Len(net) : i - 1 \in 1 .. MaxHeight
      BY <1>1, <1>4, SeqProps DEF NetOK
    <2> QED
      BY <1>2, <1>6, <2>1 DEF IInv, FirstLifeAgrees
  <1>15. WorldAgrees'
    BY <1>2, <1>3, GenesisOK, ReplayGenesis DEF WorldAgrees, World
  <1> QED
    BY <1>7, <1>8, <1>9, <1>10, <1>11, <1>12, <1>13, <1>14, <1>15 DEF IInv

\* The first start stores the initial state.
LEMMA FirstSaveStateStep ==
    ASSUME IInv, FirstSaveState
    PROVE  IInv'
  <1>1. phase = "boot" /\ Typed /\ NetOK /\ BlocksOK /\ DiskOK
    BY DEF FirstSaveState, IInv
  <1>2. /\ phase' = "up" /\ disk' = StoreState(disk, state)
        /\ UNCHANGED <<blocks, state, mu, pool, th, net, crashes, failures>>
    BY DEF FirstSaveState
  <1>3. mu = Free /\ \A t \in Threads : th[t].pc = "idle"
    BY <1>1, NotRunning
  <1>4. /\ DOMAIN disk' = {"blocks", "height", "state"} /\ disk'.state \in SoundState
        /\ disk'.blocks = disk.blocks /\ disk'.height = disk.height
    BY <1>1, <1>2, StoreStateOK DEF Typed, DiskOK
  <1>5. Typed'
    BY <1>1, <1>2, <1>3 DEF Typed
  <1>6. NetOK' /\ BlocksOK'
    BY <1>1, <1>2 DEF NetOK, BlocksOK, FromChain
  <1>7. DiskOK'
    BY <1>1, <1>2, <1>4 DEF DiskOK, FromChain
  <1>8. ThreadsOK'
    BY <1>2, <1>3, AllIdle
  <1>9. OwnBroadcast' /\ OwnStored'
    BY <1>2, <1>4 DEF IInv, OwnBroadcast, OwnStored
  <1>10. crashes' <= 1 /\ failures' = 0 => StoreAgrees' /\ FirstLifeAgrees'
    BY <1>2, <1>4 DEF IInv, StoreAgrees, FirstLifeAgrees
  <1>11. crashes' = 0 => WorldAgrees'
    BY <1>1, <1>2 DEF IInv, WorldAgrees, World
  <1> QED
    BY <1>5, <1>6, <1>7, <1>8, <1>9, <1>10, <1>11 DEF IInv

\* A restart takes the chain from the store.
LEMMA RestartStep ==
    ASSUME IInv, Restart
    PROVE  IInv'
  <1>1. /\ phase = "down" /\ disk.height >= 0
        /\ Typed /\ NetOK /\ DiskOK
    BY DEF Restart, IInv
  <1>2. /\ phase' = "up" /\ blocks' = LoadAllBlocks(disk) /\ state' = LoadState(disk)
        /\ UNCHANGED <<mu, pool, th, disk, net, crashes, failures>>
    BY DEF Restart
  <1>3. mu = Free /\ \A t \in Threads : th[t].pc = "idle"
    BY <1>1, NotRunning
  <1>4. MaxHeight \in Nat /\ disk.height \in 0 .. MaxHeight /\ crashes # 0
    BY <1>1, NodeAssumption, StoreAssumption DEF DiskOK
  <1>5. IsSeq(blocks') /\ Len(blocks') = disk.height + 1
        /\ \A i \in 1 .. disk.height + 1 : blocks'[i] = disk.blocks[i - 1]
    BY <1>1, <1>2, LoadedChain DEF DiskOK
  <1>6. /\ \A h \in 0 .. disk.height : disk.blocks[h] # NoBlock
        /\ \A i \in 2 .. Len(blocks') : blocks'[i].prev = <<blocks'[i - 1]>>
    BY <1>2 DEF Restart, CanLoad, ValidateChain
  <1>7. Typed'
    <2>1. LoadState(disk) \in SoundState
      BY <1>1, LoadedState DEF DiskOK
    <2> QED
      BY <1>1, <1>2, <1>3, <2>1 DEF Typed
  <1>8. NetOK'
    BY <1>1, <1>2 DEF NetOK
  <1>9. BlocksOK'
    <2>1. blocks'[1] = Genesis /\ blocks' # <<>>
      <3>1. blocks'[1] = disk.blocks[0] /\ disk.blocks[0] # NoBlock
        BY <1>4, <1>5, <1>6
      <3>2. blocks' # <<>>
        BY <1>4, <1>5, EmptyIsSeq
      <3> QED
        BY <1>1, <3>1, <3>2 DEF DiskOK
    <2>2. ASSUME NEW i \in 2 .. Len(blocks') PROVE FromChain(blocks[i], i - 1)'
      <3>1. i - 1 \in 1 .. MaxHeight /\ i - 1 \in 0 .. disk.height
            /\ i \in 1 .. disk.height + 1
        BY <1>4, <1>5
      <3>2. FromChain(disk.blocks[i - 1], i - 1)
        BY <1>1, <1>6, <3>1 DEF DiskOK
      <3> QED
        BY <1>2, <1>5, <3>1, <3>2 DEF FromChain
    <2>3. IsSeq(blocks') /\ Len(blocks') <= MaxHeight + 1 /\ phase' # "down"
      BY <1>2, <1>4, <1>5
    <2> QED
      BY <1>6, <2>1, <2>2, <2>3 DEF BlocksOK, FromChain
  <1>10. DiskOK'
    <2>1. \A h \in 1 .. MaxHeight :
            (disk.blocks[h] # NoBlock => FromChain(disk.blocks[h], h))'
      BY <1>1, <1>2 DEF DiskOK, FromChain
    <2>2. /\ disk'.height < 0 <=> phase' = "down" /\ crashes' = 0
          /\ phase' # "down" => disk'.height < Len(blocks')
      BY <1>2, <1>4, <1>5
    <2> QED
      BY <1>1, <1>2, <2>1, <2>2 DEF DiskOK
  <1>11. ThreadsOK'
    BY <1>2, <1>3, AllIdle
  <1>12. OwnBroadcast' /\ OwnStored'
    BY <1>1, <1>2, NothingYet DEF OwnBroadcast, OwnStored
  <1>13. StoreAgrees'
    <2> SUFFICES ASSUME NEW h \in 1 .. MaxHeight, h < Len(blocks')
                 PROVE  disk.blocks[h] = blocks'[h + 1]
      BY <1>2 DEF StoreAgrees
    <2>1. h + 1 \in 1 .. disk.height + 1 /\ h + 1 - 1 = h
      BY <1>4, <1>5
    <2> QED
      BY <1>5, <2>1
  <1>14. crashes' <= 1 /\ failures' = 0 => FirstLifeAgrees'
    BY <1>2 DEF IInv, FirstLifeAgrees
  <1> QED
    BY <1>2, <1>4, <1>7, <1>8, <1>9, <1>10, <1>11, <1>12, <1>13, <1>14 DEF IInv

\* A crash loses all but the store and what the others hold.
LEMMA CrashStep ==
    ASSUME IInv, Crash
    PROVE  IInv'
  <1>1. phase # "down" /\ Typed /\ NetOK /\ DiskOK
    BY DEF Crash, IInv
  <1>2. /\ phase' = "down" /\ blocks' = <<>> /\ state' = EmptyState /\ mu' = Free
        /\ pool' = {} /\ th' = [t \in Threads |-> Idle]
        /\ crashes < MaxCrashes /\ crashes' = crashes + 1
        /\ UNCHANGED <<disk, net, failures>>
    BY DEF Crash
  <1>3. /\ crashes \in Nat /\ crashes' \in 0 .. MaxCrashes /\ crashes' # 0
        /\ \A n \in 0 .. crashes : n \in 0 .. crashes' /\ n # crashes'
    BY <1>1, <1>2, NodeAssumption, StoreAssumption DEF Typed
  <1>4. \A t \in Threads : th'[t] = Idle
    BY <1>2
  <1>5. Typed'
    <2>1. EmptyState \in SoundState
      BY IdleOK DEF Idle
    <2>2. th' = [t \in Threads |-> th'[t]] /\ \A t \in Threads : Free # t
      BY <1>2, Roles
    <2> QED
      BY <1>1, <1>2, <1>3, <1>4, <2>1, <2>2, IdleOK DEF Typed
  <1>6. NetOK'
    BY <1>1, <1>2, <1>3 DEF NetOK
  <1>7. BlocksOK'
    BY <1>2, EmptyIsSeq, NodeAssumption, StoreAssumption DEF BlocksOK
  <1>8. DiskOK'
    BY <1>1, <1>2, <1>3 DEF DiskOK, FromChain
  <1>9. ThreadsOK'
    BY <1>4, IdleOK, AllIdle
  <1>10. OwnBroadcast' /\ OwnStored'
    <2>1. \A i \in 2 .. Len(net) : net[i].time # crashes'
      BY <1>1, <1>3 DEF NetOK
    <2>2. \A h \in 1 .. MaxHeight : disk.blocks[h] # NoBlock => disk.blocks[h].time # crashes'
      BY <1>1, <1>3 DEF DiskOK, FromChain
    <2> QED
      BY <1>2, <2>1, <2>2 DEF OwnBroadcast, OwnStored
  <1>11. StoreAgrees'
    BY <1>2, EmptyIsSeq DEF StoreAgrees
  <1>12. crashes' <= 1 /\ failures' = 0 => FirstLifeAgrees'
    <2> SUFFICES ASSUME crashes' <= 1, failures' = 0 PROVE FirstLifeAgrees'
      OBVIOUS
    <2>1. crashes <= 1 /\ failures = 0
      BY <1>2, <1>3
    <2> QED
      BY <1>2, <2>1 DEF IInv, FirstLifeAgrees
  <1> QED
    BY <1>3, <1>5, <1>6, <1>7, <1>8, <1>9, <1>10, <1>11, <1>12 DEF IInv

-----------------------------------------------------------------------------
(* One lemma per action: a block for the others *)

\* The tip of what the others hold.
LEMMA NetTip ==
    ASSUME NetOK
    PROVE  /\ Len(net) \in Nat /\ Len(net) \in 1 .. MaxHeight + 1
           /\ Last(net) = net[Len(net)] /\ Last(net).index = Len(net) - 1
  <1>1. Len(net) \in Nat /\ Len(net) \in 1 .. MaxHeight + 1
    BY SeqProps, NodeAssumption, StoreAssumption DEF NetOK
  <1>2. Last(net) = net[Len(net)]
    BY DEF Last
  <1>3. CASE Len(net) = 1
    BY <1>1, <1>2, <1>3, GenesisOK DEF NetOK
  <1>4. CASE Len(net) # 1
    <2>1. Len(net) \in 2 .. Len(net)
      <3>1. Len(net) \in Nat /\ Len(net) >= 1 /\ Len(net) # 1
        BY <1>1, <1>4 DEF NetOK
      <3> QED
        BY <3>1
    <2> QED
      BY <1>1, <1>2, <2>1 DEF NetOK
  <1> QED
    BY <1>1, <1>2, <1>3, <1>4

\* The others get the block that comes after the last one they hold.
LEMMA NetGrows ==
    ASSUME NetOK, NEW b, net' = Append(net, b), UNCHANGED crashes,
           DOMAIN b = BlockFields, BlockOK(b), ValidateBlock(b, Last(net))
    PROVE  /\ NetOK' /\ Len(net') = Len(net) + 1 /\ net'[Len(net')] = b
           /\ \A i \in 1 .. Len(net) : net'[i] = net[i]
           /\ Range(net') = Range(net) \cup {b}
  <1>1. /\ IsSeq(net') /\ Len(net') = Len(net) + 1 /\ net'[Len(net) + 1] = b
        /\ \A i \in 1 .. Len(net) : net'[i] = net[i]
        /\ Range(net') = Range(net) \cup {b}
    BY AppendProps DEF NetOK
  <1>2. /\ Len(net) \in Nat /\ Len(net) \in 1 .. MaxHeight + 1
        /\ Last(net) = net[Len(net)] /\ Last(net).index = Len(net) - 1
    BY NetTip
  <1>3. b.index = Len(net) /\ b.prev = <<net[Len(net)]>>
    BY <1>2 DEF ValidateBlock
  <1>4. Len(net) \in 1 .. MaxHeight
    BY <1>3 DEF BlockOK
  <1>5. ASSUME NEW i \in 2 .. Len(net')
        PROVE  /\ DOMAIN net'[i] = BlockFields
               /\ net'[i].index = i - 1
               /\ net'[i].prev = <<net'[i - 1]>>
               /\ net'[i].validator = ProposerForHeight(i - 1)
               /\ net'[i].txs \in Seq(Txs) /\ Len(net'[i].txs) <= MaxTxsPerBlock
               /\ net'[i].time \in 0 .. crashes'
    <2>1. CASE i \in 2 .. Len(net)
      <3>1. net'[i] = net[i] /\ net'[i - 1] = net[i - 1]
        BY <1>1, <1>2, <2>1
      <3> QED
        BY <2>1, <3>1 DEF NetOK
    <2>2. CASE i \notin 2 .. Len(net)
      <3>1. i = Len(net) + 1 /\ i - 1 = Len(net)
        BY <1>1, <1>2, <2>2
      <3>2. net'[i] = b /\ net'[i - 1] = net[Len(net)]
        BY <1>1, <1>2, <3>1
      <3> QED
        BY <1>3, <3>1, <3>2 DEF BlockOK
    <2> QED
      BY <2>1, <2>2
  <1>6. net'[1] = Genesis /\ Len(net') >= 1 /\ Len(net') <= MaxHeight + 1
    BY <1>1, <1>2, <1>4, NodeAssumption, StoreAssumption DEF NetOK
  <1> QED
    BY <1>1, <1>2, <1>5, <1>6 DEF NetOK

\* Another validator extends the chain of the others.
LEMMA PeerProducesStep ==
    ASSUME IInv, PeerProduces
    PROVE  IInv'
  <1>1. Typed /\ NetOK /\ BlocksOK /\ DiskOK
    BY DEF IInv
  <1>2. /\ Len(net) <= MaxHeight /\ ~ Own(Len(net))
        /\ UNCHANGED <<phase, blocks, state, mu, pool, th, disk, crashes, failures>>
    BY DEF PeerProduces, Own
  <1>3. PICK txs \in SeqOf(Txs, MaxTxsPerBlock) :
            net' = Append(net, NewBlock(Last(net), txs, ProposerForHeight(Len(net)), 0))
    BY DEF PeerProduces
  <1>4. /\ Len(net) \in Nat /\ Len(net) \in 1 .. MaxHeight
        /\ Last(net).index = Len(net) - 1 /\ crashes \in Nat
    BY <1>1, <1>2, NetTip, NodeAssumption, StoreAssumption DEF Typed
  <1> DEFINE b == NewBlock(Last(net), txs, ProposerForHeight(Len(net)), 0)
  <1>5. /\ DOMAIN b = BlockFields /\ BlockOK(b) /\ ValidateBlock(b, Last(net))
        /\ ~ Own(b.index) /\ b.index = Len(net)
    <2>1. txs \in Seq(Txs) /\ Len(txs) <= MaxTxsPerBlock
      <3>1. PICK n \in 0 .. MaxTxsPerBlock : txs \in [1 .. n -> Txs]
        BY DEF SeqOf
      <3> QED
        BY <3>1, BlocksAssumption
    <2>2. b.index = Len(net) /\ 0 \in 0 .. crashes
      BY <1>4 DEF NewBlock, Block
    <2> QED
      BY <1>2, <1>4, <2>1, <2>2 DEF NewBlock, Block, BlockFields, BlockOK, ValidateBlock
  <1> HIDE DEF b
  <1>6. /\ NetOK' /\ Len(net') = Len(net) + 1 /\ net'[Len(net')] = b
        /\ \A i \in 1 .. Len(net) : net'[i] = net[i]
        /\ Range(net') = Range(net) \cup {b}
    BY <1>1, <1>2, <1>3, <1>5, NetGrows DEF b
  <1>7. Typed'
    BY <1>1, <1>2 DEF Typed
  <1>8. BlocksOK'
    BY <1>1, <1>2, <1>6 DEF BlocksOK, FromChain
  <1>9. DiskOK'
    BY <1>1, <1>2, <1>6 DEF DiskOK, FromChain
  <1>10. ThreadsOK'
    <2>1. \A t \in Submitters : SubmitterOK(th[t])'
      BY <1>2, OtherSubmitter
    <2>2. \A t \in Handlers : HandlerOK(th[t])'
      BY <1>2, <1>6, OtherHandler
    <2>3. \A t \in Committers : CommitterOK(th[t])'
      BY <1>2 DEF IInv, ThreadsOK, CommitterOK, Applying, LatestBlock, InChain
    <2>4. ProducerOK(th[Producer])'
      <3>1. ProducerOK(th[Producer])
        BY DEF IInv, ThreadsOK
      <3>2. th[Producer].pc \in Saving => th[Producer].block # b
        BY <1>5, <3>1 DEF ProducerOK, BlockOK, Own, Saving
      <3> QED
        BY <1>2, <1>6, <3>1, <3>2 DEF ProducerOK, BlockOK, LatestBlock
    <2> QED
      BY <2>1, <2>2, <2>3, <2>4 DEF ThreadsOK
  <1>11. \A i \in 2 .. Len(net') : Own(i - 1) => i \in 2 .. Len(net) /\ net'[i] = net[i]
    <2> SUFFICES ASSUME NEW i \in 2 .. Len(net'), Own(i - 1)
                 PROVE  i \in 2 .. Len(net) /\ net'[i] = net[i]
      OBVIOUS
    <2>1. i # Len(net) + 1
      BY <1>2, <1>4
    <2> QED
      BY <1>4, <1>6, <2>1
  <1>12. OwnBroadcast' /\ OwnStored'
    BY <1>2, <1>11 DEF IInv, OwnBroadcast, OwnStored
  <1>13. crashes' <= 1 /\ failures' = 0 => StoreAgrees' /\ FirstLifeAgrees'
    BY <1>2, <1>11 DEF IInv, StoreAgrees, FirstLifeAgrees
  <1>14. crashes' = 0 => WorldAgrees'
    BY <1>2 DEF IInv, WorldAgrees, World
  <1> QED
    BY <1>6, <1>7, <1>8, <1>9, <1>10, <1>12, <1>13, <1>14 DEF IInv

-----------------------------------------------------------------------------
(* One lemma per action: steps that change the chain, the store or the network *)

\* The others hold at most one block of an index.
LEMMA NetIndex ==
    ASSUME NetOK, NEW b \in Range(net), b.index # 0
    PROVE  /\ b.index + 1 \in 2 .. Len(net) /\ b = net[b.index + 1]
           /\ b.prev = <<net[b.index]>> /\ net[b.index] \in Range(net)
  <1>1. PICK i \in 1 .. Len(net) : b = net[i]
    BY SeqProps DEF NetOK
  <1>2. i # 1
    BY <1>1, GenesisOK DEF NetOK
  <1>3. Len(net) \in Nat
    BY NetTip
  <1>4. i \in 2 .. Len(net) /\ i - 1 \in 1 .. Len(net)
    BY <1>2, <1>3
  <1>5. b.index = i - 1 /\ b.prev = <<net[i - 1]>>
    BY <1>1, <1>4 DEF NetOK
  <1>6. net[i - 1] \in Range(net)
    BY <1>4, SeqProps DEF NetOK
  <1> QED
    BY <1>1, <1>4, <1>5, <1>6

\* What is known of the block that goroutine t is about to append.
LEMMA NextBlock ==
    ASSUME NEW t \in Committers, IInv, th[t].pc = "apply"
    PROVE  /\ BlockOK(th[t].block) /\ th[t].block.index = Len(blocks)
           /\ Len(blocks) \in 1 .. MaxHeight
           /\ th[t].block.prev = <<LatestBlock>>
           /\ FromChain(th[t].block, Len(blocks))
           /\ t = Producer => Own(Len(blocks)) /\ th[t].block \notin Range(net)
           /\ t # Producer => /\ Len(blocks) + 1 \in 2 .. Len(net)
                              /\ th[t].block = net[Len(blocks) + 1]
                              /\ th[Producer].pc \notin Saving
  <1> DEFINE b == th[t].block
             k == Len(blocks)
  <1>1. t \in Threads /\ (t # Producer => t \in Handlers) /\ NetOK
    BY Roles DEF IInv
  <1>2. phase # "down" /\ th[t].pc \in Holding
    BY <1>1, Running DEF Holding
  <1>3. BlockOK(b) /\ ValidateBlock(b, LatestBlock)
    BY <1>2, HeldIndex DEF IInv, ThreadsOK, CommitterOK, Applying
  <1>4. b.index = k /\ b.prev = <<LatestBlock>> /\ k \in 1 .. MaxHeight
    <2>1. k \in 1 .. MaxHeight + 1 /\ LatestBlock.index = k - 1
      BY <1>2, Tip
    <2>2. b.index = k /\ b.prev = <<LatestBlock>>
      BY <1>3, <2>1, NodeAssumption, StoreAssumption DEF ValidateBlock
    <2> QED
      BY <1>3, <2>2 DEF BlockOK
  <1>5. ASSUME t = Producer
        PROVE  Own(k) /\ b \notin Range(net)
    <2>1. b.validator = LocalID /\ b.time = crashes
      BY <1>2, <1>5 DEF IInv, ThreadsOK, ProducerOK, Holding
    <2>2. Own(k)
      BY <1>3, <1>4, <2>1 DEF BlockOK, Own
    <2>3. ASSUME b \in Range(net) PROVE FALSE
      <3>1. k + 1 \in 2 .. Len(net) /\ b = net[k + 1] /\ k + 1 - 1 = k
        BY <1>1, <1>4, <2>3, NetIndex
      <3>2. k + 1 <= k
        BY <2>1, <2>2, <3>1 DEF IInv, OwnBroadcast
      <3> QED
        BY <1>4, <3>2
    <2> QED
      BY <2>2, <2>3
  <1>6. ASSUME t # Producer
        PROVE  /\ b \in Range(net) /\ k + 1 \in 2 .. Len(net) /\ b = net[k + 1]
               /\ th[Producer].pc \notin Saving
    <2>1. b \in Range(net)
      BY <1>1, <1>2, <1>4, <1>6 DEF IInv, ThreadsOK, HandlerOK, Holding
    <2>2. /\ k + 1 \in 2 .. Len(net) /\ b = net[k + 1]
          /\ b.prev = <<net[k]>> /\ net[k] \in Range(net)
      BY <1>1, <1>4, <2>1, NetIndex
    <2>3. LatestBlock \in Range(net)
      BY <1>4, <2>2
    <2> QED
      BY <2>1, <2>2, <2>3 DEF IInv, ThreadsOK, ProducerOK
  <1>7. FromChain(b, k)
    BY <1>3, <1>4, <1>5, <1>6 DEF FromChain, BlockOK
  <1> QED
    BY <1>3, <1>4, <1>5, <1>6, <1>7

\* What the store already holds at the height of the next block, when no save
\* has failed and the process has crashed at most once.
LEMMA StoredAhead ==
    ASSUME NEW t \in Handlers, IInv, th[t].pc = "apply", crashes <= 1, failures = 0,
           disk.blocks[Len(blocks)] # NoBlock
    PROVE  disk.blocks[Len(blocks)] = th[t].block
  <1> DEFINE k == Len(blocks)
             d == disk.blocks[k]
             b == th[t].block
  <1>1. /\ k \in 1 .. MaxHeight /\ k + 1 \in 2 .. Len(net) /\ b = net[k + 1]
        /\ b.index = k /\ k + 1 - 1 = k
    <2>1. t \in Committers /\ t # Producer
      BY Roles
    <2> QED
      BY <2>1, NextBlock
  <1>2. NetOK /\ FromChain(d, k) /\ crashes \in Nat
    <2>1. NetOK /\ DiskOK /\ Typed
      BY DEF IInv
    <2>2. FromChain(d, k)
      BY <1>1, <2>1 DEF DiskOK
    <2>3. crashes \in Nat
      BY <2>1, NodeAssumption, StoreAssumption DEF Typed
    <2> QED
      BY <2>1, <2>2, <2>3
  <1>3. CASE ~ Own(k)
    <2>1. d \in Range(net) /\ d.index = k
      BY <1>2, <1>3 DEF FromChain
    <2> QED
      BY <1>1, <1>2, <2>1, NetIndex
  <1>4. CASE Own(k)
    <2>1. d.time # crashes
      BY <1>1, <1>4 DEF IInv, OwnStored
    <2>2. b.time # crashes
      BY <1>1, <1>4 DEF IInv, OwnBroadcast
    <2>3. d.time \in 0 .. crashes /\ b.time \in 0 .. crashes
      BY <1>1, <1>2 DEF FromChain, NetOK
    <2>4. d.time = 0 /\ b.time = 0
      BY <1>2, <2>1, <2>2, <2>3
    <2> QED
      BY <1>1, <1>4, <2>4 DEF IInv, FirstLifeAgrees
  <1> QED
    BY <1>3, <1>4

\* AddBlock appends the block it applied.
LEMMA AppendBlockStep ==
    ASSUME NEW t \in Committers, IInv, AppendBlock(t)
    PROVE  IInv'
  <1> DEFINE b == th[t].block
             k == Len(blocks)
  <1>1. /\ t \in Threads /\ t \in Committers /\ t \notin Submitters /\ t # Free
        /\ Free \notin Threads /\ Producer \in Threads
        /\ (t # Producer => t \in Handlers)
    BY Roles
  <1>2. /\ th[t].pc = "apply" /\ th[t].i > Len(b.txs)
        /\ blocks' = Append(blocks, b) /\ mu' = Free
        /\ th' = [th EXCEPT ![t].pc = "remove", ![t].snap = EmptyState]
        /\ UNCHANGED <<phase, state, pool, disk, net, crashes, failures>>
    BY DEF AppendBlock
  <1>3. phase = "up" /\ mu = t /\ Typed /\ NetOK /\ BlocksOK /\ DiskOK
    BY <1>1, <1>2, Running DEF IInv, Typed
  <1>4. PICK r : /\ Moves(t, r) /\ r.pc = "remove" /\ r.block = b
                 /\ r.snap = EmptyState
    <2>1. th' = [th EXCEPT ![t] = th'[t]] /\ DOMAIN th'[t] = ThreadFields
          /\ th'[t].pc = "remove" /\ th'[t].block = b
          /\ th'[t].snap = EmptyState
      BY <1>1, <1>2, <1>3 DEF Typed, ThreadFields
    <2> QED
      BY <2>1 DEF Moves
  <1>5. th'[t] = r /\ \A u \in Threads : u # t => th'[u] = th[u]
    BY <1>1, <1>3, <1>4, OthersStay
  <1>6. /\ BlockOK(b) /\ b.index = k /\ k \in 1 .. MaxHeight
        /\ b.prev = <<LatestBlock>> /\ FromChain(b, k)
        /\ t = Producer => Own(k) /\ b \notin Range(net)
        /\ t # Producer => /\ k + 1 \in 2 .. Len(net) /\ b = net[k + 1]
                           /\ th[Producer].pc \notin Saving
    BY <1>2, NextBlock
  <1>7. /\ IsSeq(blocks') /\ Len(blocks') = k + 1 /\ blocks'[k + 1] = b
        /\ \A i \in 1 .. k : blocks'[i] = blocks[i]
    BY <1>2, <1>3, AppendProps DEF BlocksOK
  <1>8. k \in Nat /\ MaxHeight \in Nat /\ LatestBlock = blocks[k] /\ LatestBlock' = b
    BY <1>3, <1>6, <1>7, Tip, NodeAssumption, StoreAssumption DEF LatestBlock, Last
  <1>9. Typed'
    <2>1. EmptyState \in SoundState
      BY IdleOK DEF Idle
    <2>2. /\ DOMAIN r.block = BlockFields /\ r.snap \in SoundState /\ state' \in SoundState
          /\ pool' \subseteq Txs /\ failures' \in 0 .. MaxFailures
      BY <1>1, <1>2, <1>3, <1>4, <2>1 DEF Typed
    <2>3. /\ mu' \in Committers \cup {Free} /\ (r.pc = "apply" <=> mu' = t)
          /\ \A u \in Threads : u # t => (mu' = u <=> mu = u)
      BY <1>1, <1>2, <1>3, <1>4
    <2> QED
      BY <1>1, <1>2, <1>3, <1>4, <2>2, <2>3, TypedStep
  <1>10. NetOK'
    BY <1>2, <1>3 DEF NetOK
  <1>11. BlocksOK'
    <2>1. ASSUME NEW i \in 2 .. Len(blocks')
          PROVE  blocks'[i].prev = <<blocks'[i - 1]>> /\ FromChain(blocks[i], i - 1)'
      <3>1. CASE i \in 2 .. k
        <4>1. blocks'[i] = blocks[i] /\ blocks'[i - 1] = blocks[i - 1]
          BY <1>7, <1>8, <3>1
        <4>2. blocks[i].prev = <<blocks[i - 1]>> /\ FromChain(blocks[i], i - 1)
          BY <1>3, <3>1 DEF BlocksOK
        <4> QED
          BY <1>2, <4>1, <4>2 DEF FromChain
      <3>2. CASE i \notin 2 .. k
        <4>1. i = k + 1 /\ i - 1 = k /\ k \in 1 .. k
          BY <1>6, <1>7, <1>8, <3>2
        <4>2. blocks'[i] = b /\ blocks'[i - 1] = LatestBlock
          BY <1>7, <1>8, <4>1
        <4> QED
          BY <1>2, <1>6, <4>1, <4>2 DEF FromChain
      <3> QED
        BY <3>1, <3>2
    <2>2. blocks'[1] = Genesis /\ blocks' # <<>> /\ Len(blocks') <= MaxHeight + 1
      <3>1. blocks # <<>> /\ 1 \in 1 .. k
        BY <1>3, <1>6 DEF BlocksOK
      <3> QED
        BY <1>3, <1>6, <1>7, <1>8, <3>1, EmptyIsSeq DEF BlocksOK
    <2> QED
      BY <1>2, <1>3, <1>7, <2>1, <2>2 DEF BlocksOK
  <1>12. DiskOK'
    <2>1. disk.height < Len(blocks')
      BY <1>3, <1>7, <1>8 DEF DiskOK
    <2>2. \A h \in 1 .. MaxHeight :
            (disk.blocks[h] # NoBlock => FromChain(disk.blocks[h], h))'
      BY <1>2, <1>3 DEF DiskOK, FromChain
    <2> QED
      BY <1>2, <1>3, <2>1, <2>2 DEF DiskOK
  <1>13. th[Producer].pc \notin Saving
    BY <1>2, <1>6 DEF Saving
  <1>14. ThreadsOK'
    <2>1. \A u \in Submitters \ {t} : SubmitterOK(th[u])'
      BY <1>5, Roles, OtherSubmitter
    <2>2. \A u \in Handlers \ {t} : HandlerOK(th[u])'
      BY <1>2, <1>5, Roles, OtherHandler
    <2>3. ASSUME NEW u \in Committers \ {t} PROVE CommitterOK(th[u])'
      <3>1. u \in Threads /\ u \in Committers /\ th'[u] = th[u] /\ th[u].pc # "apply"
        BY <1>3, <1>5, Roles DEF Typed
      <3>2. th[u].pc \in Saving => th[u].block.index \in Nat
        BY <3>1, HeldIndex DEF Holding
      <3>3. Len(blocks) <= Len(blocks') /\ \A i \in 1 .. Len(blocks) : blocks'[i] = blocks[i]
        BY <1>7, <1>8
      <3> QED
        BY <3>1, <3>2, <3>3, OtherCommitter
    <2>4. Producer # t => ProducerOK(th[Producer])'
      <3>1. ProducerOK(th[Producer])
        BY DEF IInv, ThreadsOK
      <3>2. Producer # t => th'[Producer] = th[Producer]
        BY <1>1, <1>5
      <3>3. {"saveState", "flush"} \subseteq Saving
        BY DEF Saving
      <3> QED
        BY <1>2, <1>13, <3>1, <3>2, <3>3 DEF ProducerOK, BlockOK
    <2>5. r.pc \in Saving /\ r.pc \in Holding /\ r.pc # "apply" /\ r.pc # "idle"
          /\ r.pc \notin {"saveState", "flush"}
      BY <1>4 DEF Saving, Holding
    <2>6. CommitterOK(r)'
      BY <1>4, <1>6, <1>7, <1>8, <2>5 DEF CommitterOK, InChain
    <2>7. BlockOK(r.block)'
      BY <1>2, <1>4, <1>6 DEF BlockOK
    <2>8. t \in Handlers => HandlerOK(r)'
      <3>1. t \in Handlers => HandlerOK(th[t])
        BY DEF IInv, ThreadsOK
      <3> QED
        BY <1>2, <1>4, <2>5, <2>7, <3>1 DEF HandlerOK
    <2>9. t = Producer => ProducerOK(r)'
      <3>1. t = Producer => ProducerOK(th[t])
        BY DEF IInv, ThreadsOK
      <3> QED
        BY <1>2, <1>4, <1>6, <1>8, <2>5, <2>7, <3>1 DEF ProducerOK
    <2> QED
      BY <1>1, <1>3, <1>4, <2>1, <2>2, <2>3, <2>4, <2>6, <2>8, <2>9, ThreadsStep
  <1>15. OwnBroadcast'
    <2> SUFFICES ASSUME NEW i \in 2 .. Len(net), Own(i - 1), net[i].time = crashes
                 PROVE  /\ i <= Len(blocks') /\ blocks'[i] = net[i]
                        /\ failures = 0 => disk.blocks[i - 1] = net[i]
      BY <1>2 DEF OwnBroadcast
    <2>1. /\ i <= k /\ blocks[i] = net[i]
          /\ failures = 0 => disk.blocks[i - 1] = net[i]
      BY DEF IInv, OwnBroadcast
    <2> QED
      BY <1>7, <1>8, <2>1
  <1>16. OwnStored'
    BY <1>2, <1>7, <1>8 DEF IInv, OwnStored
  <1>17. crashes' <= 1 /\ failures' = 0 => StoreAgrees'
    <2> SUFFICES ASSUME crashes <= 1, failures = 0, NEW h \in 1 .. MaxHeight,
                        h < Len(blocks'), disk.blocks[h] # NoBlock
                 PROVE  \/ disk.blocks[h] = blocks'[h + 1]
                        \/ /\ h = Len(blocks') - 1 /\ disk.height < h
                           /\ th'[Producer].pc \in {"remove", "saveBlock"}
      BY <1>2 DEF StoreAgrees
    <2>1. CASE h < k
      <3>1. disk.blocks[h] = blocks[h + 1]
        <4>1. StoreAgrees
          BY DEF IInv
        <4> QED
          BY <1>13, <2>1, <4>1 DEF StoreAgrees, Saving
      <3>2. h + 1 \in 1 .. k
        BY <1>8, <2>1
      <3> QED
        BY <1>7, <3>1, <3>2
    <2>2. CASE ~ h < k
      <3>1. h = k /\ h = Len(blocks') - 1
        BY <1>7, <1>8, <2>2
      <3>2. CASE t = Producer
        BY <1>3, <1>4, <1>5, <3>1, <3>2 DEF DiskOK
      <3>3. CASE t # Producer
        <4>1. disk.blocks[h] = b
          BY <1>1, <1>2, <3>1, <3>3, StoredAhead
        <4> QED
          BY <1>7, <3>1, <4>1
      <3> QED
        BY <3>2, <3>3
    <2> QED
      BY <2>1, <2>2
  <1>18. crashes' <= 1 /\ failures' = 0 => FirstLifeAgrees'
    BY <1>2 DEF IInv, FirstLifeAgrees
  <1>19. crashes' = 0 => WorldAgrees'
    <2> SUFFICES ASSUME crashes = 0 PROVE World' = Replay(blocks')
      BY <1>2 DEF WorldAgrees
    <2>1. Applying(th[t])
      BY <1>2 DEF IInv, ThreadsOK, CommitterOK
    <2>2. b.txs \in Seq(Txs) /\ Len(b.txs) \in Nat
      BY <1>6 DEF BlockOK
    <2>3. th[t].i - 1 = Len(b.txs) /\ SubSeq(b.txs, 1, Len(b.txs)) = b.txs
      BY <1>2, <2>1, <2>2 DEF Applying
    <2>4. state = Run(b.txs, th[t].snap)
      BY <2>1, <2>3 DEF Applying
    <2>5. th[t].snap = Replay(blocks)
      BY <1>1, <1>3 DEF IInv, WorldAgrees, World
    <2>6. blocks # <<>> /\ IsSeq(blocks)
      BY <1>3 DEF BlocksOK
    <2>7. blocks'[Len(blocks')] = b
      BY <1>7
    <2>8. Replay(blocks') = Run(b.txs, Replay(blocks))
      <3> HIDE DEF b
      <3> QED
        BY <1>7, <2>6, <2>7, ReplayNext
    <2> QED
      BY <1>2, <2>4, <2>5, <2>8 DEF World
  <1> QED
    BY <1>9, <1>10, <1>11, <1>12, <1>14, <1>15, <1>16, <1>17, <1>18, <1>19 DEF IInv

\* A block that a goroutine saves is one of the chain.
LEMMA SavedBlock ==
    ASSUME NEW t \in Committers, IInv, th[t].pc \in Saving
    PROVE  /\ BlockOK(th[t].block) /\ th[t].block # NoBlock
           /\ th[t].block.index \in 1 .. MaxHeight
           /\ th[t].block.index + 1 \in 2 .. Len(blocks)
           /\ blocks[th[t].block.index + 1] = th[t].block
           /\ FromChain(th[t].block, th[t].block.index)
           /\ t = Producer => /\ Own(th[t].block.index) /\ th[t].block.time = crashes
                              /\ th[t].block.index = Len(blocks) - 1
           /\ t # Producer => th[t].block \in Range(net)
  <1> DEFINE b == th[t].block
             h == b.index
  <1>1. t \in Threads /\ (t # Producer => t \in Handlers) /\ BlocksOK /\ th[t].pc \in Holding
    BY Roles DEF IInv, Holding
  <1>2. phase # "down"
    BY <1>1, Running DEF Saving
  <1>3. BlockOK(b) /\ h \in 1 .. MaxHeight /\ h \in Nat \ {0}
    BY <1>1, HeldIndex DEF BlockOK
  <1>4. h < Len(blocks) /\ blocks[h + 1] = b
    BY DEF IInv, ThreadsOK, CommitterOK, InChain
  <1>5. Len(blocks) \in Nat /\ Len(blocks) \in 1 .. MaxHeight + 1
        /\ LatestBlock.index = Len(blocks) - 1
    BY <1>2, Tip, NodeAssumption, StoreAssumption
  <1>6. h + 1 \in 2 .. Len(blocks) /\ h + 1 - 1 = h
    BY <1>3, <1>4, <1>5
  <1>7. b.prev = <<blocks[h]>> /\ FromChain(b, h)
    <2>1. PICK i \in 2 .. Len(blocks) : i = h + 1
      BY <1>6
    <2>2. blocks[i].prev = <<blocks[i - 1]>> /\ FromChain(blocks[i], i - 1)
      BY <1>1 DEF BlocksOK
    <2>3. i - 1 = h /\ blocks[i] = b
      BY <1>3, <1>4, <1>6, <2>1
    <2> QED
      BY <2>2, <2>3
  <1>8. b # NoBlock
    <2>1. NoBlock.index = -1
      BY DEF NoBlock
    <2> QED
      BY <1>3, <2>1
  <1>9. ASSUME t = Producer
        PROVE  Own(h) /\ b.time = crashes /\ h = Len(blocks) - 1
    <2>1. b.validator = LocalID /\ b.time = crashes /\ b = LatestBlock
      BY <1>9 DEF IInv, ThreadsOK, ProducerOK, Saving
    <2> QED
      BY <1>3, <1>5, <2>1 DEF BlockOK, Own
  <1>10. t # Producer => b \in Range(net)
    BY <1>1, <1>7 DEF IInv, ThreadsOK, HandlerOK, Holding, Saving
  <1> QED
    BY <1>3, <1>4, <1>6, <1>7, <1>8, <1>9, <1>10

\* SaveBlock.
LEMMA SaveBlockStep ==
    ASSUME NEW t \in Committers, IInv, SaveBlock(t)
    PROVE  IInv'
  <1> DEFINE b == th[t].block
             k == b.index
  <1>1. /\ t \in Threads /\ t \in Committers /\ t \notin Submitters
        /\ (t # Producer => t \in Handlers) /\ Producer \in Committers
        /\ Producer \in Threads
    BY Roles
  <1>2. /\ th[t].pc = "saveBlock" /\ th' = [th EXCEPT ![t].pc = "saveState"]
        /\ disk' = StoreBlock(disk, b)
        /\ UNCHANGED <<phase, blocks, state, mu, pool, net, crashes, failures>>
    BY DEF SaveBlock
  <1>3. phase = "up" /\ mu # t /\ Typed /\ NetOK /\ BlocksOK /\ DiskOK
        /\ th[t].pc \in Saving
    BY <1>1, <1>2, Running DEF IInv, Typed, Saving
  <1>4. PICK r : /\ Moves(t, r) /\ r.pc = "saveState" /\ r.block = b
                 /\ r.snap = th[t].snap
    <2>1. th' = [th EXCEPT ![t] = th'[t]] /\ DOMAIN th'[t] = ThreadFields
          /\ th'[t].pc = "saveState" /\ th'[t].block = b
          /\ th'[t].snap = th[t].snap
      BY <1>1, <1>2, <1>3 DEF Typed, ThreadFields
    <2> QED
      BY <2>1 DEF Moves
  <1>5. th'[t] = r /\ \A u \in Threads : u # t => th'[u] = th[u]
    BY <1>1, <1>3, <1>4, OthersStay
  <1>6. /\ BlockOK(b) /\ b # NoBlock /\ k \in 1 .. MaxHeight
        /\ k + 1 \in 2 .. Len(blocks) /\ blocks[k + 1] = b /\ FromChain(b, k)
        /\ t = Producer => Own(k) /\ b.time = crashes /\ k = Len(blocks) - 1
        /\ t # Producer => b \in Range(net)
    BY <1>3, SavedBlock
  <1>7. MaxHeight \in Nat /\ Len(blocks) \in Nat /\ Len(net) \in Nat
    BY <1>3, NodeAssumption, StoreAssumption, SeqProps DEF BlocksOK, NetOK
  <1>8. /\ DOMAIN disk' = {"blocks", "height", "state"} /\ disk'.state = disk.state
        /\ disk'.height = k /\ disk'.blocks = [disk.blocks EXCEPT ![k] = b]
    BY <1>2, <1>3 DEF DiskOK, StoreBlock
  <1>9. /\ disk'.blocks = [h \in 0 .. MaxHeight |-> disk'.blocks[h]]
        /\ disk'.blocks[k] = b /\ disk'.blocks[0] = disk.blocks[0]
        /\ \A h \in 1 .. MaxHeight : h # k => disk'.blocks[h] = disk.blocks[h]
    <2>1. PICK d : d = disk.blocks /\ d = [h \in 0 .. MaxHeight |-> d[h]]
      BY <1>3 DEF DiskOK
    <2>2. k \in 0 .. MaxHeight /\ 0 \in 0 .. MaxHeight /\ k # 0
      BY <1>6, <1>7
    <2>3. PICK e : e = disk'.blocks /\ e = [d EXCEPT ![k] = b]
      BY <1>8, <2>1
    <2> HIDE DEF b, k
    <2>4. e = [h \in 0 .. MaxHeight |-> e[h]]
      BY <2>1, <2>3
    <2>5. e[k] = b /\ \A h \in 0 .. MaxHeight : h # k => e[h] = d[h]
      BY <2>1, <2>2, <2>3
    <2>6. e[0] = d[0] /\ \A h \in 1 .. MaxHeight : h # k => e[h] = d[h]
      BY <2>2, <2>5
    <2> QED
      BY <2>1, <2>3, <2>4, <2>5, <2>6, Zenon
  <1>10. Typed'
    <2>1. /\ DOMAIN r.block = BlockFields /\ r.snap \in SoundState /\ state' \in SoundState
          /\ pool' \subseteq Txs /\ failures' \in 0 .. MaxFailures
          /\ mu' \in Committers \cup {Free}
      BY <1>1, <1>2, <1>3, <1>4 DEF Typed
    <2>2. /\ r.pc = "apply" <=> mu' = t
          /\ \A u \in Threads : u # t => (mu' = u <=> mu = u)
      BY <1>2, <1>3, <1>4
    <2> QED
      BY <1>1, <1>2, <1>3, <1>4, <2>1, <2>2, TypedStep
  <1>11. NetOK' /\ BlocksOK'
    BY <1>2, <1>3 DEF NetOK, BlocksOK, FromChain
  <1>12. DiskOK'
    <2>1. ASSUME NEW h \in 1 .. MaxHeight, disk'.blocks[h] # NoBlock
          PROVE  FromChain(disk.blocks[h], h)'
      <3>1. CASE h = k
        BY <1>2, <1>6, <1>9, <3>1 DEF FromChain
      <3>2. CASE h # k
        <4>1. disk'.blocks[h] = disk.blocks[h]
          BY <1>9, <3>2
        <4>2. FromChain(disk.blocks[h], h)
          BY <1>3, <2>1, <4>1 DEF DiskOK
        <4> QED
          BY <1>2, <4>1, <4>2 DEF FromChain
      <3> QED
        BY <3>1, <3>2
    <2>2. disk'.state \in SoundState /\ disk'.height \in -1 .. MaxHeight
          /\ disk'.blocks[disk'.height] # NoBlock /\ disk'.blocks[0] \in {NoBlock, Genesis}
      BY <1>3, <1>6, <1>7, <1>8, <1>9 DEF DiskOK
    <2>3. /\ disk'.height < 0 <=> phase' = "down" /\ crashes' = 0
          /\ phase' # "down" => disk'.height < Len(blocks')
      BY <1>2, <1>3, <1>6, <1>7, <1>8
    <2> QED
      BY <1>8, <1>9, <2>1, <2>2, <2>3 DEF DiskOK
  <1>13. ThreadsOK'
    <2>1. \A u \in Submitters \ {t} : SubmitterOK(th[u])'
      BY <1>5, Roles, OtherSubmitter
    <2>2. \A u \in Handlers \ {t} : HandlerOK(th[u])'
      BY <1>2, <1>5, Roles, OtherHandler
    <2>3. ASSUME NEW u \in Committers \ {t} PROVE CommitterOK(th[u])'
      <3>1. u \in Threads /\ u \in Committers /\ th'[u] = th[u]
        BY <1>5, Roles
      <3>2. th[u].pc \in Saving => th[u].block.index \in Nat
        BY <3>1, HeldIndex DEF Holding
      <3>3. Len(blocks) <= Len(blocks') /\ \A i \in 1 .. Len(blocks) : blocks'[i] = blocks[i]
        BY <1>2, <1>7
      <3> QED
        BY <1>2, <3>1, <3>2, <3>3, OtherCommitter
    <2>4. Producer # t => ProducerOK(th[Producer])'
      <3> DEFINE p == th[Producer].block
      <3> SUFFICES ASSUME Producer # t PROVE ProducerOK(th[Producer])'
        OBVIOUS
      <3>1. ProducerOK(th[Producer]) /\ th'[Producer] = th[Producer]
        BY <1>1, <1>5 DEF IInv, ThreadsOK
      <3>2. ASSUME failures = 0, th[Producer].pc \in {"saveState", "flush"}
            PROVE  disk'.blocks[p.index] = p
        <4>1. p.index \in 1 .. MaxHeight /\ blocks[p.index + 1] = p
          BY <1>1, <3>2, SavedBlock DEF Saving
        <4>2. disk.blocks[p.index] = p
          BY <3>1, <3>2 DEF ProducerOK
        <4> QED
          BY <1>6, <1>9, <4>1, <4>2
      <3> QED
        BY <1>2, <3>1, <3>2 DEF ProducerOK, BlockOK, LatestBlock
    <2>5. r.pc \in Saving /\ r.pc \in Holding /\ r.pc # "apply" /\ r.pc # "idle"
      BY <1>4 DEF Saving, Holding
    <2>6. CommitterOK(r)'
      BY <1>2, <1>4, <1>6, <1>7, <2>5 DEF CommitterOK, InChain
    <2>7. BlockOK(r.block)'
      BY <1>2, <1>4, <1>6 DEF BlockOK
    <2>8. t \in Handlers => HandlerOK(r)'
      <3>1. t \in Handlers => HandlerOK(th[t])
        BY DEF IInv, ThreadsOK
      <3> QED
        BY <1>2, <1>4, <2>5, <2>7, <3>1 DEF HandlerOK
    <2>9. t = Producer => ProducerOK(r)'
      <3>1. t = Producer => ProducerOK(th[t])
        BY DEF IInv, ThreadsOK
      <3> QED
        BY <1>2, <1>3, <1>4, <1>9, <2>5, <2>7, <3>1 DEF ProducerOK, LatestBlock
    <2> QED
      BY <1>1, <1>3, <1>4, <2>1, <2>2, <2>3, <2>4, <2>6, <2>8, <2>9, ThreadsStep
  <1>14. OwnBroadcast'
    <2> SUFFICES ASSUME NEW i \in 2 .. Len(net), Own(i - 1), net[i].time = crashes
                 PROVE  /\ i <= Len(blocks) /\ blocks[i] = net[i]
                        /\ failures = 0 => disk'.blocks[i - 1] = net[i]
      BY <1>2 DEF OwnBroadcast
    <2>1. /\ i <= Len(blocks) /\ blocks[i] = net[i]
          /\ failures = 0 => disk.blocks[i - 1] = net[i]
      BY DEF IInv, OwnBroadcast
    <2>2. CASE i - 1 = k
      <3>1. i = k + 1
        BY <1>6, <2>2
      <3> QED
        BY <1>6, <1>9, <2>1, <2>2, <3>1
    <2>3. CASE i - 1 # k
      <3>1. i - 1 \in 1 .. MaxHeight
        BY <1>3, <1>7 DEF NetOK
      <3> QED
        BY <1>9, <2>1, <2>3, <3>1
    <2> QED
      BY <2>2, <2>3
  <1>15. OwnStored'
    <2> SUFFICES ASSUME NEW h \in 1 .. MaxHeight, disk'.blocks[h] # NoBlock, Own(h),
                        disk'.blocks[h].time = crashes
                 PROVE  h < Len(blocks)
      BY <1>2 DEF OwnStored
    <2>1. CASE h = k
      BY <1>6, <1>7, <2>1
    <2>2. CASE h # k
      BY <1>9, <2>2 DEF IInv, OwnStored
    <2> QED
      BY <2>1, <2>2
  <1>16. crashes' <= 1 /\ failures' = 0 => StoreAgrees'
    <2> SUFFICES ASSUME crashes <= 1, failures = 0, NEW h \in 1 .. MaxHeight,
                        h < Len(blocks), disk'.blocks[h] # NoBlock
                 PROVE  \/ disk'.blocks[h] = blocks[h + 1]
                        \/ /\ h = Len(blocks) - 1 /\ disk'.height < h
                           /\ th'[Producer].pc \in {"remove", "saveBlock"}
      BY <1>2 DEF StoreAgrees
    <2>1. CASE h = k
      BY <1>6, <1>9, <2>1
    <2>2. CASE h # k
      <3>1. disk'.blocks[h] = disk.blocks[h]
        BY <1>9, <2>2
      <3>2. \/ disk.blocks[h] = blocks[h + 1]
            \/ /\ h = Len(blocks) - 1
               /\ th[Producer].pc \in {"remove", "saveBlock"}
        BY <3>1 DEF IInv, StoreAgrees
      <3>3. h = Len(blocks) - 1 => t # Producer /\ disk'.height < h
        BY <1>6, <1>7, <1>8, <2>2
      <3> QED
        BY <1>1, <1>5, <3>1, <3>2, <3>3
    <2> QED
      BY <2>1, <2>2
  <1>17. crashes' <= 1 /\ failures' = 0 => FirstLifeAgrees'
    <2> SUFFICES ASSUME crashes <= 1, failures = 0, NEW i \in 2 .. Len(net),
                        Own(i - 1), net[i].time = 0,
                        disk'.blocks[i - 1] # NoBlock, disk'.blocks[i - 1].time = 0
                 PROVE  disk'.blocks[i - 1] = net[i]
      BY <1>2 DEF FirstLifeAgrees
    <2>1. i - 1 \in 1 .. MaxHeight
      BY <1>3, <1>7 DEF NetOK
    <2>2. CASE i - 1 = k
      <3>1. i = k + 1 /\ b.time = 0 /\ k # 0
        BY <1>6, <1>9, <2>2
      <3>2. CASE t = Producer
        <4>1. crashes = 0
          BY <1>6, <3>1, <3>2
        <4>2. blocks[i] = net[i]
          BY <4>1 DEF IInv, OwnBroadcast
        <4> QED
          BY <1>6, <1>9, <2>2, <3>1, <4>2
      <3>3. CASE t # Producer
        <4>1. b = net[k + 1]
          BY <1>3, <1>6, <3>1, <3>3, NetIndex
        <4> QED
          BY <1>9, <2>2, <3>1, <4>1
      <3> QED
        BY <3>2, <3>3
    <2>3. CASE i - 1 # k
      <3>1. disk'.blocks[i - 1] = disk.blocks[i - 1]
        BY <1>9, <2>1, <2>3
      <3> QED
        BY <3>1 DEF IInv, FirstLifeAgrees
    <2> QED
      BY <2>2, <2>3
  <1>18. crashes' = 0 => WorldAgrees'
    <2>1. UNCHANGED World
      BY <1>1, <1>2, <1>3, <1>4, WorldStays
    <2> QED
      BY <1>2, <2>1 DEF IInv, WorldAgrees
  <1> QED
    BY <1>10, <1>11, <1>12, <1>13, <1>14, <1>15, <1>16, <1>17, <1>18 DEF IInv

\* The goroutine is done: its SaveState has succeeded or failed, and its block,
\* if the production loop made it, may have reached the others.
LEMMA DoneStep ==
    ASSUME NEW t \in Committers, IInv, th[t].pc = "flush",
           th' = [th EXCEPT ![t] = Idle], Broadcast(t),
           UNCHANGED <<phase, blocks, state, mu, pool, crashes>>,
           DOMAIN disk' = {"blocks", "height", "state"}, disk'.state \in SoundState,
           disk'.blocks = disk.blocks, disk'.height = disk.height,
           failures' \in 0 .. MaxFailures, failures' = 0 => failures = 0
    PROVE  IInv'
  <1> DEFINE b == th[t].block
  <1>1. /\ t \in Threads /\ t \in Committers /\ t \notin Submitters
        /\ (t # Producer => t \in Handlers) /\ Producer \in Threads
    BY Roles
  <1>2. phase = "up" /\ mu # t /\ Typed /\ NetOK /\ BlocksOK /\ DiskOK
        /\ th[t].pc \in Saving
    BY <1>1, Running DEF IInv, Typed, Saving
  <1>3. Moves(t, Idle)
    BY <1>1, MovesIdle
  <1>4. th'[t] = Idle /\ \A u \in Threads : u # t => th'[u] = th[u]
    BY <1>1, <1>2, <1>3, OthersStay
  <1>5. /\ BlockOK(b) /\ b.index \in 1 .. MaxHeight
        /\ b.index + 1 \in 2 .. Len(blocks) /\ blocks[b.index + 1] = b
        /\ t = Producer => Own(b.index) /\ b.time = crashes
    BY <1>2, SavedBlock
  <1>6. t = Producer /\ failures = 0 => disk.blocks[b.index] = b
    BY DEF IInv, ThreadsOK, ProducerOK
  <1>7. Len(net) \in Nat /\ Len(blocks) \in Nat
    BY <1>2, SeqProps DEF NetOK, BlocksOK
  <1>8. /\ NetOK' /\ Range(net) \subseteq Range(net') /\ Len(net') \in Nat
        /\ \A i \in 1 .. Len(net) : net'[i] = net[i]
        /\ \A i \in 2 .. Len(net') :
                \/ i \in 2 .. Len(net)
                \/ t = Producer /\ i = b.index + 1 /\ i - 1 = b.index /\ net'[i] = b
        /\ t # Producer => UNCHANGED net
    <2>1. CASE UNCHANGED net
      BY <1>2, <1>7, <2>1 DEF NetOK
    <2>2. CASE ~ UNCHANGED net
      <3>1. /\ t = Producer /\ ValidateBlock(b, Last(net)) /\ net' = Append(net, b)
            /\ DOMAIN b = BlockFields
        BY <1>1, <1>2, <2>2 DEF Broadcast, Typed
      <3>2. /\ NetOK' /\ Len(net') = Len(net) + 1 /\ net'[Len(net')] = b
            /\ \A i \in 1 .. Len(net) : net'[i] = net[i]
            /\ Range(net') = Range(net) \cup {b}
        <4> HIDE DEF b
        <4> QED
          BY <1>2, <1>5, <3>1, NetGrows
      <3>3. b.index = Len(net)
        BY <1>2, <1>7, <3>1, NetTip DEF ValidateBlock
      <3>4. \A i \in 2 .. Len(net') : i \in 2 .. Len(net) \/ i = Len(net) + 1
        BY <1>7, <3>2
      <3>5. Len(net) + 1 - 1 = Len(net) /\ Len(net') \in Nat
        BY <1>7, <3>2
      <3> QED
        BY <3>1, <3>2, <3>3, <3>4, <3>5
    <2> QED
      BY <2>1, <2>2
  <1>9. Typed'
    <2>1. /\ DOMAIN Idle.block = BlockFields /\ Idle.snap \in SoundState
          /\ state' \in SoundState /\ pool' \subseteq Txs /\ mu' \in Committers \cup {Free}
      BY <1>2, IdleOK DEF Typed
    <2>2. /\ Idle.pc = "apply" <=> mu' = t
          /\ \A u \in Threads : u # t => (mu' = u <=> mu = u)
      BY <1>2, IdleOK
    <2> QED
      BY <1>1, <1>2, <1>3, <2>1, <2>2, TypedStep
  <1>10. BlocksOK'
    BY <1>2, <1>8 DEF BlocksOK, FromChain
  <1>11. DiskOK'
    BY <1>2, <1>8 DEF DiskOK, FromChain
  <1>12. ThreadsOK'
    <2>1. \A u \in Submitters \ {t} : SubmitterOK(th[u])'
      BY <1>4, Roles, OtherSubmitter
    <2>2. \A u \in Handlers \ {t} : HandlerOK(th[u])'
      BY <1>4, <1>8, Roles, OtherHandler
    <2>3. ASSUME NEW u \in Committers \ {t} PROVE CommitterOK(th[u])'
      <3>1. u \in Threads /\ u \in Committers /\ th'[u] = th[u]
        BY <1>4, Roles
      <3>2. th[u].pc \in Saving => th[u].block.index \in Nat
        BY <3>1, HeldIndex DEF Holding
      <3>3. Len(blocks) <= Len(blocks') /\ \A i \in 1 .. Len(blocks) : blocks'[i] = blocks[i]
        BY <1>7
      <3> QED
        BY <3>1, <3>2, <3>3, OtherCommitter
    <2>4. Producer # t => ProducerOK(th[Producer])'
      <3>1. ProducerOK(th[Producer])
        BY DEF IInv, ThreadsOK
      <3>2. Producer # t => th'[Producer] = th[Producer] /\ UNCHANGED net
        BY <1>1, <1>4, <1>8
      <3> QED
        BY <3>1, <3>2 DEF ProducerOK, BlockOK, LatestBlock
    <2> QED
      BY <1>1, <1>2, <1>3, <2>1, <2>2, <2>3, <2>4, IdleOK, ThreadsStep
  <1>13. OwnBroadcast'
    <2> SUFFICES ASSUME NEW i \in 2 .. Len(net'), Own(i - 1), net'[i].time = crashes
                 PROVE  /\ i <= Len(blocks) /\ blocks[i] = net'[i]
                        /\ failures' = 0 => disk.blocks[i - 1] = net'[i]
      BY DEF OwnBroadcast
    <2>1. CASE i \in 2 .. Len(net)
      <3>1. net'[i] = net[i]
        BY <1>7, <1>8, <2>1
      <3> QED
        BY <2>1, <3>1 DEF IInv, OwnBroadcast
    <2>2. CASE i \notin 2 .. Len(net)
      <3>1. t = Producer /\ i = b.index + 1 /\ i - 1 = b.index /\ net'[i] = b
        BY <1>8, <2>2
      <3> QED
        BY <1>5, <1>6, <1>7, <3>1
    <2> QED
      BY <2>1, <2>2
  <1>14. OwnStored'
    BY DEF IInv, OwnStored
  <1>15. crashes' <= 1 /\ failures' = 0 => StoreAgrees'
    <2> SUFFICES ASSUME crashes <= 1, failures = 0 PROVE StoreAgrees'
      OBVIOUS
    <2>1. StoreAgrees
      BY DEF IInv
    <2>2. th[Producer].pc \in {"remove", "saveBlock"} => th'[Producer] = th[Producer]
      BY <1>1, <1>4
    <2> QED
      BY <2>1, <2>2 DEF StoreAgrees
  <1>16. crashes' <= 1 /\ failures' = 0 => FirstLifeAgrees'
    <2> SUFFICES ASSUME crashes <= 1, failures = 0, NEW i \in 2 .. Len(net'),
                        Own(i - 1), net'[i].time = 0,
                        disk.blocks[i - 1] # NoBlock, disk.blocks[i - 1].time = 0
                 PROVE  disk.blocks[i - 1] = net'[i]
      BY DEF FirstLifeAgrees
    <2>1. CASE i \in 2 .. Len(net)
      <3>1. net'[i] = net[i]
        BY <1>7, <1>8, <2>1
      <3> QED
        BY <2>1, <3>1 DEF IInv, FirstLifeAgrees
    <2>2. CASE i \notin 2 .. Len(net)
      BY <1>6, <1>8, <2>2
    <2> QED
      BY <2>1, <2>2
  <1>17. crashes' = 0 => WorldAgrees'
    <2>1. UNCHANGED World
      BY <1>1, <1>2, <1>3, WorldStays
    <2> QED
      BY <2>1 DEF IInv, WorldAgrees
  <1> QED
    BY <1>8, <1>9, <1>10, <1>11, <1>12, <1>13, <1>14, <1>15, <1>16, <1>17 DEF IInv

\* SaveState, then BroadcastBlock.
LEMMA SaveStateStep ==
    ASSUME NEW t \in Committers, IInv, SaveState(t)
    PROVE  IInv'
  <1>1. t \in Threads /\ Typed /\ DiskOK
    BY Roles DEF IInv
  <1>2. /\ th[t].pc = "flush" /\ th' = [th EXCEPT ![t] = Idle] /\ Broadcast(t)
        /\ disk' = StoreState(disk, th[t].snap)
        /\ UNCHANGED <<phase, blocks, state, mu, pool, crashes, failures>>
    BY DEF SaveState
  <1>3. th[t].snap \in SoundState /\ failures \in 0 .. MaxFailures
    BY <1>1 DEF Typed
  <1>4. /\ DOMAIN disk' = {"blocks", "height", "state"} /\ disk'.state \in SoundState
        /\ disk'.blocks = disk.blocks /\ disk'.height = disk.height
    BY <1>1, <1>2, <1>3, StoreStateOK DEF DiskOK
  <1> QED
    BY <1>2, <1>3, <1>4, DoneStep

\* SaveState fails, and BroadcastBlock follows all the same.
LEMMA SaveStateFailsStep ==
    ASSUME NEW t \in Committers, IInv, SaveStateFails(t)
    PROVE  IInv'
  <1>1. t \in Threads /\ Typed /\ DiskOK
    BY Roles DEF IInv
  <1>2. /\ th[t].pc = "flush" /\ th' = [th EXCEPT ![t] = Idle] /\ Broadcast(t)
        /\ failures < MaxFailures /\ failures' = failures + 1
        /\ UNCHANGED <<phase, blocks, state, mu, pool, disk, crashes>>
    BY DEF SaveStateFails
  <1>3. failures' \in 0 .. MaxFailures /\ failures' # 0
    <2>1. MaxFailures \in Nat /\ failures \in 0 .. MaxFailures
      BY <1>1, NodeAssumption, StoreAssumption DEF Typed
    <2> QED
      BY <1>2, <2>1
  <1>4. DOMAIN disk' = {"blocks", "height", "state"} /\ disk'.state \in SoundState
    BY <1>1, <1>2 DEF DiskOK
  <1> QED
    BY <1>2, <1>3, <1>4, DoneStep

-----------------------------------------------------------------------------
(* The invariant is inductive *)

\* A step that changes nothing.
LEMMA StutterInv ==
    ASSUME IInv, UNCHANGED vars
    PROVE  IInv'
  <1>1. UNCHANGED <<phase, blocks, state, mu, pool, th, disk, net, crashes, failures>>
    BY DEF vars
  <1>2. Typed' /\ NetOK'
    BY <1>1 DEF IInv, Typed, NetOK
  <1>3. BlocksOK' /\ DiskOK'
    BY <1>1 DEF IInv, BlocksOK, DiskOK, FromChain
  <1>4. ThreadsOK'
    BY <1>1 DEF IInv, ThreadsOK, SubmitterOK, CommitterOK, HandlerOK, ProducerOK,
                Applying, InChain, BlockOK, LatestBlock
  <1>5. OwnBroadcast' /\ OwnStored'
    BY <1>1 DEF IInv, OwnBroadcast, OwnStored
  <1>6. crashes' <= 1 /\ failures' = 0 => StoreAgrees' /\ FirstLifeAgrees'
    BY <1>1 DEF IInv, StoreAgrees, FirstLifeAgrees
  <1>7. crashes' = 0 => WorldAgrees'
    BY <1>1 DEF IInv, WorldAgrees, World
  <1> QED
    BY <1>2, <1>3, <1>4, <1>5, <1>6, <1>7 DEF IInv

\* Every step preserves the invariant.
LEMMA NextInv ==
    ASSUME IInv, [Next]_vars
    PROVE  IInv'
  <1>1. CASE FirstBoot
    BY <1>1, FirstBootStep
  <1>2. CASE FirstSaveState
    BY <1>2, FirstSaveStateStep
  <1>3. CASE Restart
    BY <1>3, RestartStep
  <1>4. CASE Crash
    BY <1>4, CrashStep
  <1>5. CASE PeerProduces
    BY <1>5, PeerProducesStep
  <1>6. CASE ProposeBlock
    BY <1>6, ProposeStep
  <1>7. CASE Pending
    BY <1>7, PendingStep
  <1>8. CASE \E t \in Handlers : ReceiveBlock(t)
    BY <1>8, ReceiveStep
  <1>9. ASSUME NEW t \in Committers, AddBlock(t) \/ Commit(t) \/ Fail(t)
        PROVE  IInv'
    <2>1. CASE AddBlock(t)
      BY <2>1, AddBlockStep
    <2>2. CASE ApplyNext(t)
      BY <2>2, ApplyNextStep
    <2>3. CASE AppendBlock(t)
      BY <2>3, AppendBlockStep
    <2>4. CASE CleanPool(t)
      BY <2>4, CleanPoolStep
    <2>5. CASE SaveBlock(t)
      BY <2>5, SaveBlockStep
    <2>6. CASE ReadState(t)
      BY <2>6, ReadStateStep
    <2>7. CASE SaveState(t)
      BY <2>7, SaveStateStep
    <2>8. CASE SaveBlockFails(t)
      BY <2>8, SaveBlockFailsStep
    <2>9. CASE SaveStateFails(t)
      BY <2>9, SaveStateFailsStep
    <2> QED
      BY <1>9, <2>1, <2>2, <2>3, <2>4, <2>5, <2>6, <2>7, <2>8, <2>9 DEF Commit, Fail
  <1>10. ASSUME NEW t \in Submitters, SubmitTx(t) \/ AddToPool(t)
         PROVE  IInv'
    BY <1>10, SubmitStep, AddToPoolStep
  <1>11. CASE UNCHANGED vars
    BY <1>11, StutterInv
  <1> QED
    BY <1>1, <1>2, <1>3, <1>4, <1>5, <1>6, <1>7, <1>8, <1>9, <1>10, <1>11 DEF Next

\* The invariant holds in every reachable state.
LEMMA Invariance == Spec => []IInv
  <1>1. Init => IInv
    BY InitInv
  <1>2. IInv /\ [Next]_vars => IInv'
    BY NextInv
  <1> QED
    BY <1>1, <1>2, PTL DEF Spec

-----------------------------------------------------------------------------
(* What the invariant implies *)

\* The invariant implies the types.
LEMMA InvTypeOK == IInv => TypeOK
  <1> SUFFICES ASSUME IInv PROVE TypeOK
    OBVIOUS
  <1>1. Typed /\ DiskOK /\ ThreadsOK
    BY DEF IInv
  <1>2. \A t \in Threads : th[t].pc \in Pc
    BY <1>1, Roles
       DEF ThreadsOK, SubmitterOK, HandlerOK, ProducerOK, Holding, Saving, Pc, Threads
  <1>3. \A s \in SoundState : s \in State
    BY DEF SoundState
  <1> QED
    BY <1>1, <1>2, <1>3 DEF TypeOK, Typed, DiskOK

\* The process keeps its shape: a goroutine is inside AddBlock's loop exactly
\* when it holds bc.mu, the world state and the stored one stay within int64, and
\* the store's height names a block it holds, whatever fails and crashes.
THEOREM TypeCorrect == Spec => []TypeOK
  BY Invariance, InvTypeOK, PTL

\* With bc.mu free, the world that the chain stands for is the state.
LEMMA InvAtomicBlocks == IInv => (crashes = 0 => AtomicBlocks)
  BY DEF IInv, WorldAgrees, World, AtomicBlocks

\* Until the first crash the world state is what replaying the chain gives
\* whenever bc.mu is free: however many goroutines call AddBlock and read the
\* maps, a block is applied as a whole or not at all.
THEOREM AtomicUntilCrash == Spec => [](crashes = 0 => AtomicBlocks)
  BY Invariance, InvAtomicBlocks, PTL

\* The chain of this node and what the others hold agree while both have a block.
LEMMA SameBlocks ==
    ASSUME IInv, crashes = 0, NEW i \in 1 .. Len(blocks), i <= Len(net)
    PROVE  blocks[i] = net[i]
  <1>1. /\ NetOK /\ BlocksOK /\ Len(net) \in Nat /\ Len(blocks) \in Nat
    BY SeqProps DEF IInv, NetOK, BlocksOK
  <1>2. blocks # <<>>
    BY <1>1, EmptyIsSeq
  <1>3. CASE i = 1
    BY <1>1, <1>2, <1>3 DEF NetOK, BlocksOK
  <1>4. CASE i # 1
    <2>1. i \in 2 .. Len(blocks) /\ i \in 2 .. Len(net) /\ i - 1 # 0 /\ i - 1 + 1 = i
      BY <1>1, <1>4
    <2>2. FromChain(blocks[i], i - 1)
      BY <1>1, <2>1 DEF BlocksOK
    <2>3. CASE Own(i - 1)
      <3>1. net[i].time = crashes
        BY <1>1, <2>1 DEF NetOK
      <3> QED
        BY <2>1, <2>3, <3>1 DEF IInv, OwnBroadcast
    <2>4. CASE ~ Own(i - 1)
      <3>1. blocks[i] \in Range(net) /\ blocks[i].index = i - 1
        BY <2>2, <2>4 DEF FromChain
      <3> QED
        BY <1>1, <2>1, <3>1, NetIndex
    <2> QED
      BY <2>3, <2>4
  <1> QED
    BY <1>3, <1>4

\* Of the chain and what the others hold, one is the beginning of the other.
LEMMA InvNoFork == IInv => (crashes = 0 => NoFork)
  <1> SUFFICES ASSUME IInv, crashes = 0 PROVE NoFork
    OBVIOUS
  <1>1. IsSeq(net) /\ IsSeq(blocks) /\ Len(net) \in Nat /\ Len(blocks) \in Nat
    BY SeqProps DEF IInv, NetOK, BlocksOK
  <1>2. CASE Len(blocks) <= Len(net)
    <2>1. \A i \in 1 .. Len(blocks) : blocks[i] = net[i]
      BY <1>1, <1>2, SameBlocks
    <2> QED
      BY <1>1, <1>2, <2>1, PrefixProps DEF NoFork
  <1>3. CASE ~ Len(blocks) <= Len(net)
    <2>1. \A i \in 1 .. Len(net) : net[i] = blocks[i]
      BY <1>1, <1>3, SameBlocks
    <2> QED
      BY <1>1, <1>3, <2>1, PrefixProps DEF NoFork
  <1> QED
    BY <1>2, <1>3

\* Until the first crash this node and the others never commit different blocks
\* at one height, whatever gossip delivers and whichever saves fail.
THEOREM NoForkUntilCrash == Spec => [](crashes = 0 => NoFork)
  BY Invariance, InvNoFork, PTL

\* A broadcast block was saved before.
LEMMA InvStoredBeforeBroadcast == IInv => (crashes = 0 /\ failures = 0 => StoredBeforeBroadcast)
  <1> SUFFICES ASSUME IInv, crashes = 0, failures = 0, NEW i \in 2 .. Len(net),
                      net[i].validator = LocalID
               PROVE  disk.blocks[net[i].index] = net[i]
    BY DEF StoredBeforeBroadcast
  <1>1. Own(i - 1) /\ net[i].index = i - 1 /\ net[i].time = crashes
    BY DEF IInv, NetOK, Own
  <1> QED
    BY <1>1 DEF IInv, OwnBroadcast

\* Until the first crash, and if no save fails, a block of this node that the
\* others hold is in its store: AcceptBlock persists before it broadcasts.
THEOREM StoredFirst == Spec => [](crashes = 0 /\ failures = 0 => StoredBeforeBroadcast)
  BY Invariance, InvStoredBeforeBroadcast, PTL

\* What is stored up to the height is in the chain, at its place.
LEMMA InvStoredIsCommitted == IInv => StoredIsCommitted
  <1> SUFFICES ASSUME IInv, phase = "up", crashes <= 1, failures = 0,
                      NEW h \in 0 .. disk.height, disk.blocks[h] # NoBlock
               PROVE  h < Len(blocks) /\ disk.blocks[h] = blocks[h + 1]
    BY DEF StoredIsCommitted
  <1>1. /\ DiskOK /\ BlocksOK /\ MaxHeight \in Nat /\ Len(blocks) \in Nat
        /\ disk.height \in -1 .. MaxHeight
    BY SeqProps, NodeAssumption, StoreAssumption DEF IInv, BlocksOK, DiskOK
  <1>2. h < Len(blocks) /\ disk.height < Len(blocks)
    BY <1>1 DEF DiskOK
  <1>3. CASE h = 0
    <2>1. blocks # <<>> /\ disk.blocks[0] = Genesis /\ 0 + 1 = 1
      BY <1>1, <1>3 DEF DiskOK, BlocksOK
    <2> QED
      BY <1>1, <1>2, <1>3, <2>1 DEF BlocksOK
  <1>4. CASE h # 0
    <2>1. h \in 1 .. MaxHeight /\ ~ disk.height < h
      BY <1>1, <1>4
    <2> QED
      BY <1>2, <2>1 DEF IInv, StoreAgrees
  <1> QED
    BY <1>3, <1>4

\* What the store holds up to its height is the chain of the running node, in
\* its first life and the next, as long as no save fails: blocks saved out of
\* order, a crash in between and the restart leave nothing else there.
THEOREM StoreHoldsChain == Spec => []StoredIsCommitted
  BY Invariance, InvStoredIsCommitted, PTL

\* One step, and what leaves the pool in it: the chain has its id.
LEMMA StepKeepsPool ==
    ASSUME IInv, [Next]_vars, phase' = "up", NEW tx \in pool \ pool'
    PROVE  \E b \in Range(blocks') : b.txs \in Seq(Txs) /\ Has(Range(b.txs), tx.id)
  <1>1. CASE \E t \in Committers : CleanPool(t)
    <2>1. PICK t \in Committers : CleanPool(t)
      BY <1>1
    <2> DEFINE b == th[t].block
    <2>2. /\ th[t].pc \in Saving /\ UNCHANGED blocks
          /\ Has(Range(b.txs), tx.id)
      BY <2>1 DEF CleanPool, RemoveBatch, Saving
    <2>3. b.index + 1 \in 2 .. Len(blocks) /\ blocks[b.index + 1] = b
      BY <2>2, SavedBlock
    <2>4. b \in Range(blocks)
      <3>1. IsSeq(blocks) /\ b.index + 1 \in 1 .. Len(blocks)
        BY <2>3 DEF IInv, BlocksOK
      <3> QED
        BY <2>3, <3>1, SeqProps
    <2>5. b.txs \in Seq(Txs)
      BY <2>2, HeldIndex DEF BlockOK, Holding
    <2> QED
      BY <2>2, <2>4, <2>5
  <1>2. CASE Crash
    BY <1>2 DEF Crash
  <1>3. CASE \E t \in Submitters : AddToPool(t)
    BY <1>3 DEF AddToPool, Add
  <1>4. CASE UNCHANGED pool
    BY <1>4
  <1>5. \/ \E t \in Committers : CleanPool(t)
        \/ Crash
        \/ \E t \in Submitters : AddToPool(t)
        \/ UNCHANGED pool
    BY DEF Next, vars, FirstBoot, FirstSaveState, Restart, PeerProduces, ProposeBlock,
           Pending, ReceiveBlock, AddBlock, AddBlockUnlocked, Commit, ApplyNext,
           AppendBlock, SaveBlock, ReadState, SaveState, Fail, SaveBlockFails,
           SaveStateFails, SubmitTx
  <1> QED
    BY <1>1, <1>2, <1>3, <1>4, <1>5

\* A transaction leaves the pool of a running node only when a block of its
\* chain has a transaction with its id.
THEOREM PoolKeepsPending == Spec => OnlyIncludedLeavePool
  <1>1. IInv /\ [Next]_vars =>
            [phase' = "up" =>
                \A tx \in pool \ pool' :
                    \E b \in Range(blocks') : Has(Range(b.txs), tx.id)]_vars
    BY StepKeepsPool
  <1> QED
    BY <1>1, Invariance, PTL DEF Spec, OnlyIncludedLeavePool

\* No two transactions that clients submit have one id: what the node's own
\* ids, hashes of the transaction, would ensure.
DistinctIds == \A x, y \in Txs : x.id = y.id => x = y

\* When ids are distinct, one step takes a transaction out of the pool only if
\* the chain includes it.
LEMMA StepKeepsUntilIncluded ==
    ASSUME DistinctIds, IInv, [Next]_vars, phase' = "up", NEW tx \in pool \ pool'
    PROVE  \E b \in Range(blocks') : tx \in Range(b.txs)
  <1>1. PICK b \in Range(blocks') : b.txs \in Seq(Txs) /\ Has(Range(b.txs), tx.id)
    BY StepKeepsPool
  <1>2. PICK y \in Range(b.txs) : y.id = tx.id
    BY <1>1 DEF Has
  <1>3. y \in Txs /\ tx \in Txs
    BY <1>1, <1>2 DEF Range, IInv, Typed
  <1> QED
    BY <1>2, <1>3 DEF DistinctIds

\* If clients never submit two transactions under one id, a validated
\* transaction waits in the pool of a running node until a block includes it.
\* The pool itself does not see to that: ids come from the clients.
THEOREM PendingUntilIncluded == DistinctIds => (Spec => WaitsUntilIncluded)
  <1> SUFFICES ASSUME DistinctIds PROVE Spec => WaitsUntilIncluded
    OBVIOUS
  <1>1. IInv /\ [Next]_vars =>
            [phase' = "up" =>
                \A tx \in pool \ pool' :
                    \E b \in Range(blocks') : tx \in Range(b.txs)]_vars
    BY StepKeepsUntilIncluded
  <1> QED
    BY <1>1, Invariance, PTL DEF Spec, WaitsUntilIncluded

-----------------------------------------------------------------------------
(* Refinement: one life of the process implements AtomicChain *)

\* AtomicChain applies the operators of Blocks through an instance of its own:
\* they are the same operators.
LEMMA ChainApply ==
    ASSUME NEW tx, NEW s
    PROVE  Chain!ApplyTransaction(tx, s) = ApplyTransaction(tx, s)
  BY Zenon
     DEF Chain!ApplyTransaction, ApplyTransaction, Chain!Credit, Credit, Chain!Wrap, Wrap,
         Chain!Spend, Spend, Chain!Reduced, Reduced, Chain!SetLock, SetLock,
         Chain!PayOut, PayOut, Chain!ApplyTransfer, ApplyTransfer,
         Chain!ApplyLock, ApplyLock, Chain!ApplyRelease, ApplyRelease,
         Chain!ApplyRefund, ApplyRefund, Chain!ApplyFreeze, ApplyFreeze,
         Chain!ApplyArbitrate, ApplyArbitrate

\* The rules of transactions are the same in AtomicChain.
LEMMA ChainValidate ==
    ASSUME NEW tx, NEW s
    PROVE  Chain!ValidateTransaction(tx, s) = ValidateTransaction(tx, s)
  BY DEF Chain!ValidateTransaction, ValidateTransaction, Chain!GetLock, GetLock,
         Chain!VerifySignature, VerifySignature, Chain!NoLock, NoLock,
         Chain!CheckSenderFunds, CheckSenderFunds, Chain!LockValid, LockValid,
         Chain!ReleaseValid, ReleaseValid, Chain!RefundValid, RefundValid,
         Chain!FreezeValid, FreezeValid, Chain!ArbitrateValid, ArbitrateValid

\* And so are those of blocks.
LEMMA ChainRun ==
    ASSUME NEW txs, NEW s
    PROVE  /\ Chain!Run(txs, s) = Run(txs, s)
           /\ Chain!ValidRun(txs, s) = ValidRun(txs, s)
           /\ Chain!NewState(s) = NewState(s)
  <1>1. \A t, r : Chain!Run(t, r) = Run(t, r)
    BY Zenon, ChainApply
       DEF Chain!Run, Run, Chain!FoldLeft, FoldLeft,
           Chain!MapThenFoldSet, MapThenFoldSet, Chain!Max, Max
  <1>2. Chain!ValidRun(txs, s) = ValidRun(txs, s)
    BY Zenon, <1>1, ChainValidate DEF Chain!ValidRun, ValidRun
  <1>3. Chain!NewState(s) = NewState(s)
    BY Zenon DEF Chain!NewState, NewState, Chain!Account, Account, Chain!NoLock, NoLock
  <1> QED
    BY <1>1, <1>2, <1>3

\* A process that was never started has no chain.
LEMMA InitRefines == Init => Chain!Init
  <1>1. Chain!EmptyState = EmptyState
    BY ChainRun, Zenon DEF Chain!EmptyState, EmptyState, Chain!Account, Account
  <1> QED
    BY <1>1 DEF Init, Chain!Init

\* In the first life the world of the chain follows from the chain.
LEMMA WorldIsReplay ==
    ASSUME IInv, crashes = 0, phase # "down"
    PROVE  World = Replay(blocks)
  BY DEF IInv, WorldAgrees

\* The first start begins the chain.
LEMMA BootRefines ==
    ASSUME IInv, FirstBoot
    PROVE  Chain!Begin
  <1>1. blocks = <<>> /\ blocks' = <<Genesis>> /\ state' = NewState(Allocations) /\ mu' = mu
    BY DEF IInv, BlocksOK, FirstBoot
  <1>2. mu' = Free
    BY <1>1, NotRunning DEF FirstBoot, IInv
  <1>3. Len(<<Genesis>>) = 1 /\ <<Genesis>>[1] = Genesis
    OBVIOUS
  <1>4. Genesis = Chain!GenesisBlock(Genesis.time)
    BY DEF Genesis, GenesisBlock, Block, Chain!GenesisBlock, Chain!Block
  <1> QED
    BY <1>1, <1>2, <1>3, <1>4, ChainRun DEF Chain!Begin

\* AddBlock's append extends it by one block that is valid on its world state.
LEMMA AppendRefines ==
    ASSUME NEW t \in Committers, IInv, AppendBlock(t), crashes = 0
    PROVE  Chain!Extend
  <1> DEFINE b == th[t].block
             k == Len(blocks)
             w == th[t].snap
  <1>1. t \in Threads /\ t # Free
    BY Roles
  <1>2. /\ th[t].pc = "apply" /\ th[t].i > Len(b.txs)
        /\ blocks' = Append(blocks, b) /\ mu' = Free /\ UNCHANGED state
    BY DEF AppendBlock
  <1>3. mu = t /\ IsSeq(blocks)
    BY <1>1, <1>2 DEF IInv, Typed, BlocksOK
  <1>4. BlockOK(b) /\ k \in 1 .. MaxHeight
    BY <1>2, NextBlock
  <1>5. Applying(th[t])
    BY <1>2 DEF IInv, ThreadsOK, CommitterOK
  <1>6. b.txs \in Seq(Txs) /\ Len(b.txs) \in Nat
    BY <1>4 DEF BlockOK
  <1>7. th[t].i - 1 = Len(b.txs) /\ SubSeq(b.txs, 1, Len(b.txs)) = b.txs
    <2>1. th[t].i \in 1 .. Len(b.txs) + 1
      BY <1>5 DEF Applying
    <2>2. th[t].i - 1 = Len(b.txs)
      <3>1. PICK n \in Nat : n = Len(b.txs)
        BY <1>6
      <3>2. PICK i \in 1 .. n + 1 : i = th[t].i
        BY <2>1, <3>1
      <3>3. i > n
        BY <1>2, <3>1, <3>2
      <3>4. i - 1 = n
        BY <3>3
      <3> QED
        BY <3>1, <3>2, <3>4
    <2>3. IsSeq(b.txs)
      BY <1>6, SeqIsSeq
    <2> HIDE DEF b
    <2> QED
      BY <2>2, <2>3, SubSeqAll
  <1>8. state = Run(b.txs, w) /\ ValidRun(b.txs, w)
    BY <1>5, <1>7 DEF Applying, ValidRun
  <1>9. /\ IsSeq(blocks') /\ Len(blocks') = k + 1 /\ blocks'[k + 1] = b
        /\ \A i \in 1 .. k : blocks'[i] = blocks[i]
    BY <1>2, <1>3, AppendProps
  <1>10. blocks # <<>> /\ IsPrefix(blocks, blocks')
    <2>1. blocks # <<>> /\ k \in Nat
      BY <1>3, <1>4, EmptyIsSeq, SeqProps
    <2>2. k <= Len(blocks') /\ \A i \in 1 .. k : blocks[i] = blocks'[i]
      BY <1>9, <2>1
    <2> QED
      BY <1>3, <1>9, <2>1, <2>2, PrefixProps
  <1>11. Chain!Last(blocks') = b /\ Chain!Last(blocks) = LatestBlock
    BY <1>9 DEF Chain!Last, LatestBlock, Last
  <1>12. Chain!ValidateBlock(b, LatestBlock)
    BY <1>5 DEF Applying, ValidateBlock, Chain!ValidateBlock
  <1>13. b.validator = Validators[(b.index % Len(Validators)) + 1]
         /\ Len(b.txs) <= MaxTxsPerBlock
    BY <1>4 DEF BlockOK, ProposerForHeight
  <1>14. Chain!IsPrefix(blocks, blocks')
    BY <1>10, Zenon DEF Chain!IsPrefix, IsPrefix
  <1>15. Chain!ValidRun(b.txs, w) /\ state = Chain!Run(b.txs, w)
    BY <1>8, ChainRun
  <1> HIDE DEF b, w
  <1> QED
    BY <1>1, <1>2, <1>3, <1>9, <1>10, <1>11, <1>12, <1>13, <1>14, <1>15
       DEF Chain!Extend, w

\* A step that leaves the chain alone leaves the world it stands for alone.
LEMMA OthersRefine ==
    ASSUME IInv, IInv', crashes = 0, crashes' = 0, phase # "down", phase' # "down",
           UNCHANGED blocks
    PROVE  UNCHANGED Chain!vars
  <1>1. World = Replay(blocks)
    BY WorldIsReplay
  <1>2. World' = Replay(blocks')
    BY DEF IInv, WorldAgrees
  <1>3. World' = World
    BY <1>1, <1>2
  <1> QED
    BY <1>3 DEF World, Chain!vars

\* Each step of a process that does not crash is a step of AtomicChain or
\* leaves it alone.
LEMMA StepRefines ==
    ASSUME MaxCrashes = 0, IInv, IInv', [Next]_vars
    PROVE  [Chain!Next]_(Chain!vars)
  <1>1. crashes = 0 /\ crashes' = 0
    BY DEF IInv, Typed
  <1>2. CASE FirstBoot
    BY <1>2, BootRefines DEF Chain!Next
  <1>3. CASE \E t \in Committers : AppendBlock(t)
    BY <1>1, <1>3, AppendRefines DEF Chain!Next
  <1>4. CASE Restart
    BY <1>1, <1>4 DEF Restart, IInv, DiskOK
  <1>5. CASE Crash
    BY <1>1, <1>5 DEF Crash
  <1>6. CASE UNCHANGED <<blocks, state, mu, th>>
    BY <1>6 DEF Chain!vars
  <1>7. CASE FirstSaveState
    BY <1>7 DEF FirstSaveState, Chain!vars
  <1>8. ASSUME NEW t \in Threads, th[t].pc # "idle" \/ phase = "up",
               UNCHANGED <<phase, blocks>>
        PROVE  UNCHANGED Chain!vars
    <2>1. phase = "up" /\ phase' = "up"
      BY <1>8, Running
    <2> QED
      BY <1>1, <1>8, <2>1, OthersRefine
  <1>9. CASE ProposeBlock \/ Pending
    <2>1. Producer \in Threads
      BY Roles
    <2> QED
      BY <1>8, <1>9, <2>1 DEF ProposeBlock, Pending
  <1>10. CASE \E t \in Handlers : ReceiveBlock(t)
    BY <1>8, <1>10, Roles DEF ReceiveBlock
  <1>11. ASSUME NEW t \in Committers,
                \/ AddBlock(t) \/ ApplyNext(t) \/ CleanPool(t) \/ SaveBlock(t)
                \/ ReadState(t) \/ SaveState(t) \/ Fail(t)
         PROVE  UNCHANGED Chain!vars
    <2>1. t \in Threads
      BY Roles
    <2>2. th[t].pc # "idle" /\ UNCHANGED <<phase, blocks>>
      BY <1>11 DEF AddBlock, AddBlockUnlocked, ApplyNext, CleanPool, SaveBlock,
                   ReadState, SaveState, Fail, SaveBlockFails, SaveStateFails
    <2> QED
      BY <1>8, <2>1, <2>2
  <1>12. ASSUME NEW t \in Submitters, SubmitTx(t) \/ AddToPool(t)
         PROVE  UNCHANGED Chain!vars
    <2>1. t \in Threads
      BY Roles
    <2> QED
      BY <1>8, <1>12, <2>1 DEF SubmitTx, AddToPool
  <1>13. CASE PeerProduces
    BY <1>6, <1>13 DEF PeerProduces
  <1>14. CASE UNCHANGED vars
    BY <1>6, <1>14 DEF vars
  <1> QED
    BY <1>2, <1>3, <1>4, <1>5, <1>7, <1>9, <1>10, <1>11, <1>12, <1>13, <1>14
       DEF Next, Commit

\* In one life of the process, its interleaved goroutines commit one block at a
\* time: what they do is what AtomicChain allows, although saves may fail.
THEOREM OneLifeIsAtomic == MaxCrashes = 0 => (Spec => ImplementsAtomicChain)
  <1> SUFFICES ASSUME MaxCrashes = 0 PROVE Spec => ImplementsAtomicChain
    OBVIOUS
  <1>1. Init => Chain!Init
    BY InitRefines
  <1>2. IInv /\ IInv' /\ [Next]_vars => [Chain!Next]_(Chain!vars)
    BY StepRefines
  <1> QED
    BY <1>1, <1>2, Invariance, PTL DEF Spec, ImplementsAtomicChain, Chain!Spec
=============================================================================

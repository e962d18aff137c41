---------------------------- MODULE NetworkProofs ----------------------------
(***************************************************************************)
(* Theorems about Network, for every list of validators, every set of      *)
(* peers, transactions and clocks, and any number of lost posts and        *)
(* crashes.                                                                *)
(***************************************************************************)
EXTENDS Network, BlocksProofs, FiniteSetTheorems

-----------------------------------------------------------------------------
(* The inductive invariant *)

\* A block that a validator makes at its turn.
BlockOK(b) ==
    /\ b.index \in 1 .. MaxHeight
    /\ b.validator = ProposerForHeight(b.index)
    /\ b.txs \in Seq(Txs) /\ Len(b.txs) <= MaxTxsPerBlock

\* What a chain or a store may hold at height h.
At(b, h) ==
    IF h = 0 THEN \E t \in Clock : b = GenesisBlock(t) ELSE BlockOK(b) /\ b.index = h

\* A chain of such blocks, each naming the one before it.
Linked(c) ==
    /\ IsSeq(c) /\ Len(c) <= MaxHeight + 1
    /\ \A i \in 1 .. Len(c) : At(c[i], i - 1)
    /\ \A i \in 2 .. Len(c) : c[i].prev = <<c[i - 1]>>

\* A chain of which every block is valid on what the blocks before it left.
Sound(c) ==
    /\ Linked(c)
    /\ \A i \in 2 .. Len(c) : ValidRun(c[i].txs, Replay(SubSeq(c, 1, i - 1)))

StoreOK(d) ==
    /\ DOMAIN d = {"blocks", "height", "state"} /\ d.state \in SoundState
    /\ d.blocks = [h \in 0 .. MaxHeight |-> d.blocks[h]]
    /\ d.height \in -1 .. MaxHeight
    /\ d.height >= 0 => d.blocks[d.height] # NoBlock
    /\ \A h \in 0 .. MaxHeight : d.blocks[h] # NoBlock => At(d.blocks[h], h)

InChain(c, b) == b.index < Len(c) /\ c[b.index + 1] = b
InStore(d, b) == b.index <= d.height /\ d.blocks[b.index] = b

\* A task saves a block of its node's chain.
TaskOK(k, c) ==
    /\ DOMAIN k = {"block", "by", "pc", "snap"} /\ k.snap \in SoundState
    /\ k.pc \in {"saveBlock", "saveState", "flush"} /\ k.by \in {"loop", "handler"}
    /\ k.block.index \in 1 .. MaxHeight /\ InChain(c, k.block)

\* What a node has in memory and in its store.
LocalOK(c, w, sv, d) ==
    /\ Linked(c) /\ w \in SoundState /\ StoreOK(d)
    /\ \A k \in sv : TaskOK(k, c)

\* Before the first crash a node that is not running never ran.
Local(n) ==
    /\ LocalOK(chain[n], world[n], saving[n], store[n])
    /\ crashes = 0 /\ chain[n] = <<>> => store[n].height < 0

\* A stored block was the last of a chain once.
Rooted(b, h) == \E c : Sound(c) /\ Len(c) = h + 1 /\ c[h + 1] = b

\* A chain of valid blocks, now and in what the node may load.
SaneOK(c, w, d) ==
    /\ Sound(c) /\ w = Replay(c)
    /\ \A h \in 0 .. MaxHeight : d.blocks[h] # NoBlock => Rooted(d.blocks[h], h)

\* It is what a node has that never started with another state than that of
\* its blocks.
Sane(n) == n \notin stale => SaneOK(chain[n], world[n], store[n])

\* A block that a task has saved is one the store would load ...
SavedOK(sv, d) == \A k \in sv : k.pc # "saveBlock" => InStore(d, k.block)

\* ... unless blocks were saved out of order.
Saved(n) == reordered = {} => SavedOK(saving[n], store[n])

\* Until both a node crashed and blocks were saved out of order.
Calm == crashes = 0 \/ reordered = {}

\* The blocks of chain c and store d of node n that others made.
ForeignIn(n, c, d) ==
    {b \in Range(c) \cup Range(d.blocks) : b.index > 0 /\ b.validator # n}

\* Blocks that are not only with the validator who made them.
Out == {m.body : m \in {p \in posts : p.type = "block"}}
       \cup UNION {ForeignIn(n, chain[n], store[n]) : n \in Nodes}

\* The validator of such a block, with chain c and store d, has it and, if it
\* stops, will load it; cr crashes happened, and ro are the nodes that saved
\* blocks out of order.
Holds(cr, ro, c, d, b) ==
    /\ cr = 0 => c # <<>>
    /\ c # <<>> => InChain(c, b)
    /\ ro = {} => InStore(d, b)

Backed ==
    Calm => \A b \in Out :
        Holds(crashes, reordered, chain[b.validator], store[b.validator], b)

PostTyped(m) ==
    /\ m.type \in {"block", "tx", "join"} /\ m.from \in Nodes /\ m.to \in Nodes
    /\ m.type = "block" => BlockOK(m.body)
    /\ m.type = "tx" => m.body \in Txs
    /\ m.type = "join" => m.body.id \in Nodes

MemTyped ==
    /\ chain = [n \in Nodes |-> chain[n]] /\ world = [n \in Nodes |-> world[n]]
    /\ saving = [n \in Nodes |-> saving[n]] /\ store = [n \in Nodes |-> store[n]]

NetTyped ==
    /\ adding = [n \in Nodes |-> adding[n]]
    /\ \A n \in Nodes : \A a \in adding[n] : a.tx \in Txs
    /\ pool \in [Nodes -> SUBSET Txs] /\ peers \in [Nodes -> SUBSET Nodes]
    /\ \A m \in posts : PostTyped(m)
    /\ issued \subseteq Txs
    /\ lost \in 0 .. MaxLost

\* Nothing is stale before the first crash.
HistoryOK ==
    /\ crashes \in 0 .. MaxCrashes
    /\ reordered \subseteq Nodes /\ stale \subseteq Nodes
    /\ crashes = 0 => stale = {}

NodesOK == \A n \in Nodes : Local(n) /\ Sane(n) /\ Saved(n)

IInv == MemTyped /\ NetTyped /\ HistoryOK /\ NodesOK /\ Backed

-----------------------------------------------------------------------------
(* Chains and stores *)

\* The validator whose turn it is is one of the network.
LEMMA ProposerIsNode ==
    ASSUME NEW h \in Nat
    PROVE  ProposerForHeight(h) \in Nodes
  <1>1. Len(Validators) \in Nat \ {0} /\ DOMAIN Validators = 1 .. Len(Validators)
    BY BlocksAssumption
  <1>2. (h % Len(Validators)) + 1 \in 1 .. Len(Validators)
    BY <1>1
  <1> QED
    BY <1>1, <1>2 DEF ProposerForHeight, Nodes, Range

\* The maker of a block is a node.
LEMMA MakerIsNode ==
    ASSUME NEW b, BlockOK(b)
    PROVE  b.validator \in Nodes
  <1>1. b.index \in Nat
    BY DEF BlockOK
  <1> QED
    BY <1>1, ProposerIsNode DEF BlockOK

\* A node that is not running has the chain of no blocks.
LEMMA EmptySound == Sound(<<>>) /\ Linked(<<>>) /\ Replay(<<>>) = EmptyState
  <1>1. Linked(<<>>)
    BY EmptyIsSeq, StoreAssumption DEF Linked
  <1>2. Sound(<<>>)
    BY <1>1, EmptyIsSeq DEF Sound
  <1> QED
    BY <1>1, <1>2 DEF Replay

\* The empty state and the genesis allocations are sound.
LEMMA EmptyStateSound == EmptyState \in SoundState
  <1>1. [a \in Account |-> 0] \in [Account -> Int64]
    BY LedgerAssumption DEF Int64
  <1> QED
    BY <1>1 DEF EmptyState, NewState, SoundState, State, NoLock

\* A store before anything was written.
LEMMA EmptyStoreOK == StoreOK(EmptyDisk) /\ EmptyDisk.height = -1
  <1>1. DOMAIN EmptyDisk = {"blocks", "height", "state"} /\ EmptyDisk.state = EmptyState
    BY DEF EmptyDisk
  <1>2. EmptyDisk.blocks = [i \in 0 .. MaxHeight |-> NoBlock] /\ EmptyDisk.height = -1
    BY DEF EmptyDisk
  <1> HIDE DEF EmptyDisk
  <1> QED
    BY <1>1, <1>2, EmptyStateSound, StoreAssumption DEF StoreOK

\* What stands at a height has it as its index.
LEMMA IndexAt ==
    ASSUME NEW b, NEW h \in 0 .. MaxHeight, At(b, h)
    PROVE  b.index = h /\ (h # 0 => BlockOK(b)) /\ b # NoBlock
  <1>1. CASE h = 0
    <2>1. PICK t \in Clock : b = GenesisBlock(t)
      BY <1>1 DEF At
    <2>2. b.index = 0
      BY <2>1 DEF GenesisBlock, Block
    <2> QED
      BY <1>1, <2>2 DEF NoBlock
  <1>2. CASE h # 0
    <2>1. BlockOK(b) /\ b.index = h
      BY <1>2 DEF At
    <2> QED
      BY <1>2, <2>1 DEF NoBlock
  <1> QED
    BY <1>1, <1>2

\* The blocks of a chain above genesis.
LEMMA LinkedProps ==
    ASSUME NEW c, Linked(c)
    PROVE  /\ IsSeq(c) /\ Len(c) \in Nat /\ DOMAIN c = 1 .. Len(c)
           /\ c = <<>> <=> Len(c) = 0
           /\ \A i \in 1 .. Len(c) : c[i].index = i - 1 /\ (i # 1 => BlockOK(c[i]))
           /\ \A b \in Range(c) : b.index \in Nat /\ InChain(c, b)
                                  /\ (b.index > 0 => BlockOK(b))
  <1>1. IsSeq(c) /\ Len(c) \in Nat /\ DOMAIN c = 1 .. Len(c) /\ (c = <<>> <=> Len(c) = 0)
    BY SeqProps DEF Linked
  <1>2. ASSUME NEW i \in 1 .. Len(c)
        PROVE  c[i].index = i - 1 /\ (i # 1 => BlockOK(c[i]))
    <2>1. PICK h \in 0 .. MaxHeight : h = i - 1
      BY <1>1, StoreAssumption DEF Linked
    <2>2. At(c[i], h)
      BY <2>1 DEF Linked
    <2> QED
      BY <2>1, <2>2, IndexAt
  <1>3. ASSUME NEW b \in Range(c)
        PROVE  b.index \in Nat /\ InChain(c, b) /\ (b.index > 0 => BlockOK(b))
    <2>1. PICK i \in 1 .. Len(c) : c[i] = b
      BY <1>1 DEF Range
    <2>2. b.index = i - 1 /\ (i # 1 => BlockOK(b))
      BY <1>2, <2>1
    <2> QED
      BY <1>1, <2>1, <2>2 DEF InChain
  <1> QED
    BY <1>1, <1>2, <1>3

\* The blocks of a store above genesis.
LEMMA StoreProps ==
    ASSUME NEW d, StoreOK(d)
    PROVE  /\ d.height \in Int /\ DOMAIN d.blocks = 0 .. MaxHeight
           /\ \A b \in Range(d.blocks) : b.index > 0 => BlockOK(b)
  <1>1. d.height \in Int /\ DOMAIN d.blocks = 0 .. MaxHeight
    BY StoreAssumption DEF StoreOK
  <1>2. ASSUME NEW b \in Range(d.blocks), b.index > 0 PROVE BlockOK(b)
    <2>1. PICK h \in 0 .. MaxHeight : d.blocks[h] = b
      BY <1>1 DEF Range
    <2>2. b # NoBlock
      BY <1>2 DEF NoBlock
    <2>3. At(b, h)
      BY <2>1, <2>2 DEF StoreOK
    <2>4. b.index = h /\ (h # 0 => BlockOK(b))
      BY <2>3, IndexAt
    <2> QED
      BY <1>2, <2>4
  <1> QED
    BY <1>1, <1>2

\* A genesis block is a chain.
LEMMA GenesisSound ==
    ASSUME NEW t \in Clock, NEW g, g = GenesisBlock(t), NEW c, c = <<g>>
    PROVE  /\ Sound(c) /\ Len(c) = 1 /\ c[1] = g /\ c # <<>> /\ Range(c) = {g}
           /\ At(g, 0) /\ g.index = 0 /\ g.txs = <<>>
           /\ Replay(c) = NewState(Allocations)
  <1>1. IsSeq(c) /\ Len(c) = 1 /\ c[1] = g /\ Range(c) = {g}
    BY OneIsSeq
  <1>2. c # <<>>
    BY <1>1, EmptyIsSeq
  <1>3. g.index = 0 /\ g.txs = <<>>
    BY DEF GenesisBlock, Block
  <1>4. Replay(c) = NewState(Allocations)
    BY <1>3, ReplayGenesis
  <1>5. At(g, 0)
    BY DEF At
  <1>6. Linked(c)
    BY <1>1, <1>5, StoreAssumption DEF Linked
  <1>7. Sound(c)
    BY <1>1, <1>6 DEF Sound
  <1> QED
    BY <1>1, <1>2, <1>3, <1>4, <1>5, <1>7

\* The beginning of a sound chain is one.
LEMMA PrefixSound ==
    ASSUME NEW c, Sound(c), NEW k \in Nat, k <= Len(c)
    PROVE  /\ Sound(SubSeq(c, 1, k)) /\ Len(SubSeq(c, 1, k)) = k
           /\ \A i \in 1 .. k : SubSeq(c, 1, k)[i] = c[i]
  <1>1. IsSeq(c) /\ Len(c) \in Nat /\ c \in Seq(Range(c))
    BY LinkedProps DEF Sound, IsSeq
  <1>2. PICK d : d = SubSeq(c, 1, k)
    OBVIOUS
  <1>3. d \in Seq(Range(c)) /\ Len(d) = k /\ \A i \in 1 .. k : d[i] = c[i]
    BY <1>1, <1>2
  <1>4. IsSeq(d)
    BY <1>3, SeqIsSeq
  <1>5. ASSUME NEW j \in Nat, j <= k PROVE SubSeq(d, 1, j) = SubSeq(c, 1, j)
    BY <1>1, <1>3, <1>4, <1>5, SubSeqSame
  <1>6. Linked(d)
    <2>1. Len(d) <= MaxHeight + 1
      BY <1>1, <1>3, StoreAssumption DEF Sound, Linked
    <2>2. ASSUME NEW i \in 1 .. Len(d) PROVE At(d[i], i - 1)
      BY <1>1, <1>3 DEF Sound, Linked
    <2>3. ASSUME NEW i \in 2 .. Len(d) PROVE d[i].prev = <<d[i - 1]>>
      <3>1. i \in 2 .. Len(c) /\ i \in 1 .. k /\ i - 1 \in 1 .. k
        BY <1>1, <1>3
      <3> QED
        BY <1>3, <3>1 DEF Sound, Linked
    <2> QED
      BY <1>4, <2>1, <2>2, <2>3 DEF Linked
  <1>7. ASSUME NEW i \in 2 .. Len(d)
        PROVE  ValidRun(d[i].txs, Replay(SubSeq(d, 1, i - 1)))
    <2>1. PICK j \in Nat : j = i - 1 /\ j <= k
      BY <1>3
    <2>2. SubSeq(d, 1, j) = SubSeq(c, 1, j) /\ d[i] = c[i] /\ i \in 2 .. Len(c)
      BY <1>1, <1>3, <1>5, <2>1
    <2> QED
      BY <2>1, <2>2 DEF Sound
  <1> QED
    BY <1>2, <1>3, <1>6, <1>7 DEF Sound

\* Linked chains of one length with one last block are equal: a block names
\* the one before it.
LEMMA LastDecides ==
    ASSUME NEW c, Linked(c), NEW d, Linked(d), NEW k \in Nat \ {0},
           Len(c) = k, Len(d) = k, c[k] = d[k]
    PROVE  c = d
  <1> DEFINE T == {j \in Nat : j < k => c[k - j] = d[k - j]}
  <1>1. 0 \in T
    OBVIOUS
  <1>2. ASSUME NEW j \in Nat, j \in T PROVE j + 1 \in T
    <2> SUFFICES ASSUME j + 1 < k PROVE c[k - (j + 1)] = d[k - (j + 1)]
      OBVIOUS
    <2>1. PICK i \in 2 .. k : i = k - j
      OBVIOUS
    <2>2. c[i] = d[i]
      BY <1>2, <2>1
    <2>3. c[i].prev = <<c[i - 1]>> /\ d[i].prev = <<d[i - 1]>>
      BY <2>1 DEF Linked
    <2>4. c[i - 1] = d[i - 1]
      BY <2>2, <2>3
    <2>5. i - 1 = k - (j + 1)
      BY <2>1
    <2> QED
      BY <2>4, <2>5
  <1>3. \A j \in Nat : j \in T
    <2> HIDE DEF T
    <2> QED
      BY <1>1, <1>2, TxFold!CountUp
  <1>4. ASSUME NEW i \in 1 .. k PROVE c[i] = d[i]
    <2>1. PICK j \in Nat : j = k - i
      OBVIOUS
    <2>2. j < k /\ k - j = i
      BY <2>1
    <2>3. j \in T
      BY <1>3
    <2> QED
      BY <2>2, <2>3
  <1>5. IsSeq(c) /\ IsSeq(d)
    BY DEF Linked
  <1> QED
    BY <1>4, <1>5, EqualSeqs

-----------------------------------------------------------------------------
(* What a step of one node must show *)

\* A block that others have is one that its validator, a node, made.
LEMMA OutProps ==
    ASSUME IInv, NEW b \in Out
    PROVE  BlockOK(b) /\ b.validator \in Nodes
  <1>1. CASE b \in {m.body : m \in {p \in posts : p.type = "block"}}
    BY <1>1, MakerIsNode DEF IInv, NetTyped, PostTyped
  <1>2. CASE b \in UNION {ForeignIn(n, chain[n], store[n]) : n \in Nodes}
    <2>1. PICK n \in Nodes : b \in ForeignIn(n, chain[n], store[n])
      BY <1>2
    <2>2. Linked(chain[n]) /\ StoreOK(store[n])
      BY DEF IInv, NodesOK, Local, LocalOK
    <2>3. b.index > 0 /\ (b \in Range(chain[n]) \/ b \in Range(store[n].blocks))
      BY <2>1 DEF ForeignIn
    <2>4. BlockOK(b)
      BY <2>2, <2>3, LinkedProps, StoreProps
    <2> QED
      BY <2>4, MakerIsNode
  <1> QED
    BY <1>1, <1>2 DEF Out

\* History only grows.
Later ==
    /\ crashes' \in 0 .. MaxCrashes /\ crashes <= crashes'
    /\ reordered \subseteq reordered' /\ reordered' \subseteq Nodes
    /\ stale \subseteq stale' /\ stale' \subseteq Nodes
    /\ crashes' = 0 => stale' = {}

\* The posts are typed, and the blocks among them are with others already or
\* are held by node n, which has chain c and store d.
PostsFit(n, c, d) ==
    \A m \in posts' : /\ PostTyped(m)
                      /\ m.type = "block" =>
                            \/ m.body \in Out
                            \/ /\ m.body.validator = n
                               /\ Holds(crashes', reordered', c, d, m.body)

\* What node n keeps of the blocks that others have of it.
Keeps(n, c, d) ==
    Calm' => \A b \in Out :
        /\ b.validator = n
        /\ Holds(crashes, reordered, chain[n], store[n], b)
        => Holds(crashes', reordered', c, d, b)

\* Node n moves to chain c, world w, tasks sv and store d.
Moves(n, c, w, sv, d) ==
    /\ chain' = [chain EXCEPT ![n] = c] /\ world' = [world EXCEPT ![n] = w]
    /\ saving' = [saving EXCEPT ![n] = sv] /\ store' = [store EXCEPT ![n] = d]

\* The values that the state functions have after such a step.
LEMMA MovesProps ==
    ASSUME MemTyped, NEW n \in Nodes, NEW c, NEW w, NEW sv, NEW d, Moves(n, c, w, sv, d)
    PROVE  /\ MemTyped'
           /\ chain'[n] = c /\ world'[n] = w /\ saving'[n] = sv /\ store'[n] = d
           /\ \A m \in Nodes \ {n} :
                /\ chain'[m] = chain[m] /\ world'[m] = world[m]
                /\ saving'[m] = saving[m] /\ store'[m] = store[m]
           /\ DOMAIN chain' = Nodes
  BY DEF MemTyped, Moves

\* The other nodes keep what the invariant says of them, and the step shows it
\* of node n.
LEMMA MovedNodes ==
    ASSUME IInv, Later,
           NEW n \in Nodes, NEW c, NEW w, NEW sv, NEW d, Moves(n, c, w, sv, d),
           LocalOK(c, w, sv, d), crashes' = 0 /\ c = <<>> => d.height < 0,
           n \notin stale' => SaneOK(c, w, d),
           reordered' = {} => SavedOK(sv, d)
    PROVE  NodesOK'
  <1>1. MemTyped
    BY DEF IInv
  <1>2. /\ chain'[n] = c /\ world'[n] = w /\ saving'[n] = sv /\ store'[n] = d
        /\ \A m \in Nodes \ {n} :
             /\ chain'[m] = chain[m] /\ world'[m] = world[m]
             /\ saving'[m] = saving[m] /\ store'[m] = store[m]
    BY <1>1, MovesProps
  <1>3. (Local(n) /\ Sane(n) /\ Saved(n))'
    BY <1>2 DEF Local, Sane, Saved
  <1>4. ASSUME NEW m \in Nodes \ {n} PROVE (Local(m) /\ Sane(m) /\ Saved(m))'
    <2>1. Local(m) /\ Sane(m) /\ Saved(m)
      BY DEF IInv, NodesOK
    <2>2. crashes' = 0 => crashes = 0
      BY DEF Later, IInv, HistoryOK
    <2>3. reordered' = {} => reordered = {}
      BY DEF Later
    <2>4. m \notin stale' => m \notin stale
      BY DEF Later
    <2>5. /\ chain'[m] = chain[m] /\ world'[m] = world[m]
          /\ saving'[m] = saving[m] /\ store'[m] = store[m]
      BY <1>2
    <2>6. Local(m)'
      BY <2>1, <2>2, <2>5 DEF Local
    <2>7. Sane(m)'
      BY <2>1, <2>4, <2>5 DEF Sane
    <2>8. Saved(m)'
      BY <2>1, <2>3, <2>5 DEF Saved
    <2> QED
      BY <2>6, <2>7, <2>8
  <1> QED
    BY <1>3, <1>4 DEF NodesOK

\* The validators still have what others have of them.
LEMMA MovedBacked ==
    ASSUME IInv, Later,
           NEW n \in Nodes, NEW c, NEW w, NEW sv, NEW d, Moves(n, c, w, sv, d),
           PostsFit(n, c, d), ForeignIn(n, c, d) \subseteq Out, Keeps(n, c, d)
    PROVE  Backed'
  <1> SUFFICES ASSUME Calm' PROVE \A b \in Out' :
            Holds(crashes', reordered', chain'[b.validator], store'[b.validator], b)
    BY DEF Backed
  <1>1. MemTyped
    BY DEF IInv
  <1>2. /\ chain'[n] = c /\ store'[n] = d
        /\ \A m \in Nodes \ {n} : chain'[m] = chain[m] /\ store'[m] = store[m]
    BY <1>1, MovesProps
  <1>3. (crashes' = 0 => crashes = 0) /\ (reordered' = {} => reordered = {})
    BY DEF Later, IInv, HistoryOK
  <1>4. Calm
    BY <1>3 DEF Calm
  <1>5. ASSUME NEW b \in Out
        PROVE  Holds(crashes', reordered', chain'[b.validator], store'[b.validator], b)
    <2>1. PICK v \in Nodes : v = b.validator
      BY OutProps
    <2>2. Holds(crashes, reordered, chain[v], store[v], b)
      BY <1>4, <2>1 DEF IInv, Backed
    <2>3. CASE v = n
      <3>1. Holds(crashes', reordered', c, d, b)
        BY <2>1, <2>2, <2>3 DEF Keeps
      <3> QED
        BY <1>2, <2>1, <2>3, <3>1
    <2>4. CASE v # n
      <3>1. chain'[v] = chain[v] /\ store'[v] = store[v]
        BY <1>2, <2>4
      <3>2. Holds(crashes', reordered', chain[v], store[v], b)
        BY <1>3, <2>2 DEF Holds
      <3> QED
        BY <2>1, <3>1, <3>2
    <2> QED
      BY <2>3, <2>4
  <1>6. ASSUME NEW b \in Out', b \notin Out
        PROVE  Holds(crashes', reordered', chain'[b.validator], store'[b.validator], b)
    <2>1. CASE b \in {m.body : m \in {p \in posts' : p.type = "block"}}
      <3>1. b.validator = n /\ Holds(crashes', reordered', c, d, b)
        BY <1>6, <2>1 DEF PostsFit
      <3> QED
        BY <1>2, <3>1
    <2>2. CASE b \in UNION {ForeignIn(m, chain'[m], store'[m]) : m \in Nodes}
      <3>1. PICK m \in Nodes : b \in ForeignIn(m, chain'[m], store'[m])
        BY <2>2
      <3>2. CASE m = n
        BY <1>2, <1>6, <3>1, <3>2
      <3>3. CASE m # n
        BY <1>2, <1>6, <3>1, <3>3 DEF Out
      <3> QED
        BY <3>2, <3>3
    <2>3. Out' = {m.body : m \in {p \in posts' : p.type = "block"}}
                 \cup UNION {ForeignIn(m, chain'[m], store'[m]) : m \in Nodes}
      BY DEF Out, ForeignIn
    <2> QED
      BY <1>6, <2>1, <2>2, <2>3
  <1> QED
    BY <1>5, <1>6

\* So a step that shows this of its node keeps the invariant.
LEMMA OneNodeMoves ==
    ASSUME IInv, Later, NetTyped',
           NEW n \in Nodes, NEW c, NEW w, NEW sv, NEW d, Moves(n, c, w, sv, d),
           LocalOK(c, w, sv, d), crashes' = 0 /\ c = <<>> => d.height < 0,
           n \notin stale' => SaneOK(c, w, d),
           reordered' = {} => SavedOK(sv, d),
           PostsFit(n, c, d), ForeignIn(n, c, d) \subseteq Out, Keeps(n, c, d)
    PROVE  IInv'
  <1>1. NodesOK'
    BY MovedNodes
  <1>2. Backed'
    BY MovedBacked
  <1>3. MemTyped'
    BY MovesProps DEF IInv
  <1>4. HistoryOK'
    BY DEF Later, HistoryOK
  <1> QED
    BY <1>1, <1>2, <1>3, <1>4 DEF IInv

\* A step that moves no node keeps it when its posts hold no new blocks.
LEMMA NodesUnmoved ==
    ASSUME IInv, NetTyped', UNCHANGED <<mem, store, history>>,
           \A m \in posts' : m.type = "block" => m.body \in Out
    PROVE  IInv'
  <1>1. UNCHANGED <<chain, world, saving, store, crashes, reordered, stale>>
    BY DEF mem, history
  <1>2. MemTyped' /\ HistoryOK'
    BY <1>1 DEF IInv, MemTyped, HistoryOK
  <1>3. NodesOK'
    BY <1>1 DEF IInv, NodesOK, Local, LocalOK, Sane, SaneOK, Saved, SavedOK
  <1>4. Out' \subseteq Out
    BY <1>1 DEF Out, ForeignIn
  <1>5. Backed'
    BY <1>1, <1>4 DEF IInv, Backed, Calm, Holds
  <1> QED
    BY <1>2, <1>3, <1>5 DEF IInv

\* What the posts of a broadcast hold.
LEMMA PostAllProps ==
    ASSUME NEW type, NEW from, NEW dest, NEW body,
           NEW m \in PostAll(type, from, dest, body)
    PROVE  m.type = type /\ m.from = from /\ m.to \in dest /\ m.body = body
  BY DEF PostAll

\* Posts of transactions and joins.
LEMMA OtherPosts ==
    ASSUME IInv, NEW type \in {"tx", "join"}, NEW n \in Nodes,
           NEW dest, dest \subseteq Nodes,
           NEW body, type = "tx" => body \in Txs, type = "join" => body.id \in Nodes,
           posts' \subseteq posts \cup PostAll(type, n, dest, body)
    PROVE  \A m \in posts' : PostTyped(m) /\ (m.type = "block" => m.body \in Out)
  <1> SUFFICES ASSUME NEW m \in posts'
               PROVE  PostTyped(m) /\ (m.type = "block" => m.body \in Out)
    OBVIOUS
  <1>1. CASE m \in posts
    BY <1>1 DEF IInv, NetTyped, Out
  <1>2. CASE m \in PostAll(type, n, dest, body)
    <2>1. m.type = type /\ m.from = n /\ m.to \in dest /\ m.body = body
      BY <1>2, PostAllProps
    <2> QED
      BY <2>1 DEF PostTyped
  <1> QED
    BY <1>1, <1>2

\* Posts that are delivered or lost take nothing from those that are left.
LEMMA FewerPosts ==
    ASSUME IInv, posts' \subseteq posts
    PROVE  \A m \in posts' : PostTyped(m) /\ (m.type = "block" => m.body \in Out)
  BY DEF IInv, NetTyped, Out

-----------------------------------------------------------------------------
(* The steps that leave the chains alone *)

\* Before any node starts there is no chain, store or post.
LEMMA InitInv == Init => IInv
  <1> SUFFICES ASSUME Init PROVE IInv
    OBVIOUS
  <1>1. MemTyped /\ NetTyped /\ HistoryOK
    BY NetworkAssumption DEF Init, MemTyped, NetTyped, HistoryOK
  <1>2. ASSUME NEW n \in Nodes
        PROVE  /\ chain[n] = <<>> /\ world[n] = EmptyState
               /\ saving[n] = {} /\ store[n] = EmptyDisk
    BY DEF Init
  <1>3. \A h \in 0 .. MaxHeight : EmptyDisk.blocks[h] = NoBlock
    BY DEF EmptyDisk
  <1>4. SaneOK(<<>>, EmptyState, EmptyDisk)
    BY <1>3, EmptySound DEF SaneOK
  <1>5. LocalOK(<<>>, EmptyState, {}, EmptyDisk)
    BY EmptySound, EmptyStateSound, EmptyStoreOK DEF LocalOK
  <1>6. NodesOK
    <2> SUFFICES ASSUME NEW n \in Nodes PROVE Local(n) /\ Sane(n) /\ Saved(n)
      BY DEF NodesOK
    <2>1. store[n].height < 0
      BY <1>2, EmptyStoreOK
    <2>2. Local(n)
      BY <1>2, <1>5, <2>1 DEF Local
    <2>3. Sane(n)
      BY <1>2, <1>4 DEF Sane
    <2>4. Saved(n)
      BY <1>2 DEF Saved, SavedOK
    <2> QED
      BY <2>2, <2>3, <2>4
  <1>7. Out = {}
    <2>1. posts = {}
      BY DEF Init
    <2>2. ASSUME NEW n \in Nodes PROVE ForeignIn(n, chain[n], store[n]) = {}
      <3>1. Range(EmptyDisk.blocks) \subseteq {NoBlock} /\ Range(<<>>) = {}
        BY EmptyIsSeq DEF EmptyDisk, Range
      <3> QED
        BY <1>2, <3>1 DEF ForeignIn, NoBlock
    <2> QED
      BY <2>1, <2>2 DEF Out
  <1>8. Backed
    BY <1>7 DEF Backed
  <1> QED
    BY <1>1, <1>6, <1>8 DEF IInv

\* A lost post.
LEMMA LoseInv ==
    ASSUME IInv, NEW m \in posts, Lose(m)
    PROVE  IInv'
  <1>1. /\ UNCHANGED <<mem, store, history>> /\ posts' \subseteq posts
        /\ UNCHANGED <<pool, adding, issued, peers>> /\ lost' \in 0 .. MaxLost
    BY NetworkAssumption DEF Lose, txVars, IInv, NetTyped
  <1>2. \A p \in posts' : PostTyped(p) /\ (p.type = "block" => p.body \in Out)
    BY <1>1, FewerPosts
  <1>3. NetTyped'
    BY <1>1, <1>2 DEF IInv, NetTyped
  <1> QED
    BY <1>1, <1>2, <1>3, NodesUnmoved

\* The API validates a transaction.
LEMMA SubmitTxInv ==
    ASSUME IInv, NEW n \in Nodes, SubmitTx(n)
    PROVE  IInv'
  <1>1. PICK tx \in Txs :
            /\ adding' = [adding EXCEPT ![n] = @ \cup {[tx |-> tx, from |-> n]}]
            /\ issued' = issued \cup {tx}
    BY DEF SubmitTx
  <1>2. UNCHANGED <<mem, store, history>> /\ UNCHANGED <<pool, peers, posts, lost>>
    BY DEF SubmitTx, netVars
  <1>3. \A p \in posts' : PostTyped(p) /\ (p.type = "block" => p.body \in Out)
    BY <1>2, FewerPosts
  <1>4. NetTyped'
    <2>1. adding' = [m \in Nodes |-> adding'[m]]
      BY <1>1 DEF IInv, NetTyped
    <2>2. ASSUME NEW m \in Nodes, NEW a \in adding'[m] PROVE a.tx \in Txs
      BY <1>1 DEF IInv, NetTyped
    <2> QED
      BY <1>1, <1>2, <1>3, <2>1, <2>2 DEF IInv, NetTyped
  <1> QED
    BY <1>2, <1>3, <1>4, NodesUnmoved

\* The transaction handler validates one.
LEMMA ReceiveTxInv ==
    ASSUME IInv, NEW n \in Nodes, ReceiveTx(n)
    PROVE  IInv'
  <1>1. PICK m \in posts :
            /\ m.type = "tx" /\ posts' = posts \ {m}
            /\ adding' = [adding EXCEPT ![n] =
                  IF New(n, m.body) THEN @ \cup {[tx |-> m.body, from |-> m.from]} ELSE @]
    BY DEF ReceiveTx, PostsTo
  <1>2. UNCHANGED <<mem, store, history>> /\ UNCHANGED <<pool, issued, peers, lost>>
    BY DEF ReceiveTx
  <1>3. \A p \in posts' : PostTyped(p) /\ (p.type = "block" => p.body \in Out)
    BY <1>1, FewerPosts
  <1>4. m.body \in Txs
    BY <1>1 DEF IInv, NetTyped, PostTyped
  <1>5. NetTyped'
    <2>1. adding' = [p \in Nodes |-> adding'[p]]
      BY <1>1 DEF IInv, NetTyped
    <2>2. ASSUME NEW p \in Nodes, NEW a \in adding'[p] PROVE a.tx \in Txs
      <3>1. a \in adding[p] \/ a = [tx |-> m.body, from |-> m.from]
        BY <1>1 DEF IInv, NetTyped
      <3> QED
        BY <1>4, <3>1 DEF IInv, NetTyped
    <2> QED
      BY <1>2, <1>3, <2>1, <2>2 DEF IInv, NetTyped
  <1> QED
    BY <1>2, <1>3, <1>5, NodesUnmoved

\* A validated transaction goes to the mempool and to the peers.
LEMMA AddToPoolInv ==
    ASSUME IInv, NEW n \in Nodes, AddToPool(n)
    PROVE  IInv'
  <1>1. PICK a \in adding[n] :
            /\ adding' = [adding EXCEPT ![n] = @ \ {a}]
            /\ pool' = [pool EXCEPT ![n] = Add(@, a.tx)]
            /\ posts' = posts \cup PostAll("tx", n, peers[n], a.tx)
    BY DEF AddToPool
  <1>2. UNCHANGED <<mem, store, history>> /\ UNCHANGED <<issued, peers, lost>>
    BY DEF AddToPool
  <1>3. a.tx \in Txs /\ peers[n] \subseteq Nodes /\ pool[n] \subseteq Txs
    BY DEF IInv, NetTyped
  <1>4. \A p \in posts' : PostTyped(p) /\ (p.type = "block" => p.body \in Out)
    BY <1>1, <1>3, OtherPosts
  <1>5. Add(pool[n], a.tx) \subseteq Txs
    BY <1>3 DEF Add
  <1>6. NetTyped'
    <2>1. adding' = [p \in Nodes |-> adding'[p]] /\ pool' \in [Nodes -> SUBSET Txs]
      BY <1>1, <1>5 DEF IInv, NetTyped
    <2>2. ASSUME NEW p \in Nodes, NEW x \in adding'[p] PROVE x.tx \in Txs
      BY <1>1 DEF IInv, NetTyped
    <2> QED
      BY <1>2, <1>4, <2>1, <2>2 DEF IInv, NetTyped
  <1> QED
    BY <1>2, <1>4, <1>6, NodesUnmoved

\* The join handler adds to the peer list.
LEMMA ReceiveJoinInv ==
    ASSUME IInv, NEW n \in Nodes, ReceiveJoin(n)
    PROVE  IInv'
  <1>1. PICK m \in posts :
            /\ m.type = "join" /\ posts' = posts \ {m}
            /\ peers' = [peers EXCEPT ![n] = @ \cup {m.body.id}]
    BY DEF ReceiveJoin, PostsTo
  <1>2. UNCHANGED <<mem, store, history>> /\ UNCHANGED <<pool, adding, issued, lost>>
    BY DEF ReceiveJoin, txVars
  <1>3. \A p \in posts' : PostTyped(p) /\ (p.type = "block" => p.body \in Out)
    BY <1>1, FewerPosts
  <1>4. m.body.id \in Nodes
    BY <1>1 DEF IInv, NetTyped, PostTyped
  <1>5. NetTyped'
    BY <1>1, <1>2, <1>3, <1>4 DEF IInv, NetTyped
  <1> QED
    BY <1>2, <1>3, <1>5, NodesUnmoved

-----------------------------------------------------------------------------
(* Start, crash and restart *)

\* A node that joins knows and addresses nodes, and posts no block.
LEMMA JoinTyped ==
    ASSUME IInv, NEW n \in Nodes, Join(n)
    PROVE  /\ peers' \in [Nodes -> SUBSET Nodes]
           /\ \A m \in posts' : PostTyped(m) /\ (m.type = "block" => m.body \in Out)
  <1>1. Bootstrap[n] \subseteq Nodes
    BY NetworkAssumption
  <1>2. peers' \in [Nodes -> SUBSET Nodes]
    BY <1>1 DEF IInv, NetTyped, Join
  <1>3. posts' = posts \cup PostAll("join", n, Bootstrap[n], [id |-> n])
    BY DEF Join
  <1>4. "join" = "join" => [id |-> n].id \in Nodes
    OBVIOUS
  <1>5. \A m \in posts' : PostTyped(m) /\ (m.type = "block" => m.body \in Out)
    BY <1>1, <1>3, <1>4, OtherPosts
  <1> QED
    BY <1>2, <1>5

\* A node that is not running has no task.
LEMMA NoTasks ==
    ASSUME IInv, NEW n \in Nodes, chain[n] = <<>>
    PROVE  saving[n] = {}
  <1>1. ASSUME NEW k \in saving[n] PROVE FALSE
    <2>1. TaskOK(k, <<>>)
      BY DEF IInv, NodesOK, Local, LocalOK
    <2>2. k.block.index \in Nat \ {0} /\ k.block.index < 0
      BY <2>1, EmptyIsSeq DEF TaskOK, InChain
    <2> QED
      BY <2>2
  <1> QED
    BY <1>1

\* Nothing of a node without a store is with others, unless the store was lost
\* to them by what breaks the calm.
LEMMA NothingOut ==
    ASSUME IInv, NEW n \in Nodes, chain[n] = <<>>, store[n].height < 0, Later,
           NEW c, NEW d
    PROVE  Keeps(n, c, d)
  <1> SUFFICES ASSUME Calm', NEW b \in Out, b.validator = n,
                      Holds(crashes, reordered, chain[n], store[n], b)
               PROVE  FALSE
    BY DEF Keeps
  <1>1. crashes # 0
    BY DEF Holds
  <1>2. crashes' # 0
    BY <1>1 DEF Later, IInv, HistoryOK
  <1>3. reordered = {}
    BY <1>2 DEF Calm, Later
  <1>4. InStore(store[n], b)
    BY <1>3 DEF Holds
  <1>5. b.index \in Nat /\ store[n].height \in Int
    <2>1. BlockOK(b)
      BY OutProps
    <2>2. StoreOK(store[n])
      BY DEF IInv, NodesOK, Local, LocalOK
    <2> QED
      BY <2>1, <2>2, StoreProps DEF BlockOK
  <1> QED
    BY <1>4, <1>5 DEF InStore

\* A store with one more block.
LEMMA StoredBlock ==
    ASSUME NEW d, StoreOK(d), NEW b, NEW h \in 0 .. MaxHeight, At(b, h),
           NEW e, e = StoreBlock(d, b)
    PROVE  /\ StoreOK(e) /\ e.height = h /\ e.blocks[h] = b
           /\ \A i \in 0 .. MaxHeight : i # h => e.blocks[i] = d.blocks[i]
           /\ Range(e.blocks) \subseteq Range(d.blocks) \cup {b}
  <1>1. b.index = h /\ b # NoBlock
    BY IndexAt
  <1>2. DOMAIN d = {"blocks", "height", "state"} /\ d.state \in SoundState
        /\ d.blocks = [i \in 0 .. MaxHeight |-> d.blocks[i]]
    BY DEF StoreOK
  <1>3. e = [d EXCEPT !.blocks = [d.blocks EXCEPT ![h] = b], !.height = h]
    BY <1>1 DEF StoreBlock
  <1>4. /\ DOMAIN e = {"blocks", "height", "state"} /\ e.state = d.state
        /\ e.height = h /\ e.blocks = [d.blocks EXCEPT ![h] = b]
    BY <1>2, <1>3
  <1>5. e.blocks = [i \in 0 .. MaxHeight |-> IF i = h THEN b ELSE d.blocks[i]]
    BY <1>2, <1>4
  <1>6. Range(e.blocks) \subseteq Range(d.blocks) \cup {b}
    BY <1>2, <1>5 DEF Range
  <1>7. h \in -1 .. MaxHeight
    BY StoreAssumption
  <1>8. StoreOK(e)
    BY <1>1, <1>2, <1>4, <1>5, <1>7 DEF StoreOK
  <1> QED
    BY <1>4, <1>5, <1>6, <1>8

\* A store with another state.
LEMMA StoredState ==
    ASSUME NEW d, StoreOK(d), NEW s \in SoundState, NEW e, e = StoreState(d, s)
    PROVE  StoreOK(e) /\ e.height = d.height /\ e.blocks = d.blocks
  <1>1. /\ DOMAIN e = {"blocks", "height", "state"} /\ e.state \in SoundState
        /\ e.height = d.height /\ e.blocks = d.blocks
    BY StoreStateOK DEF StoreOK
  <1> QED
    BY <1>1 DEF StoreOK

\* What a genesis block adds to the store of a node that never ran.
LEMMA FirstStore ==
    ASSUME IInv, NEW n \in Nodes, chain[n] = <<>>, store[n].height < 0,
           NEW t \in Clock, NEW g, g = GenesisBlock(t),
           NEW d, d = StoreBlock(store[n], g)
    PROVE  /\ StoreOK(d) /\ d.height = 0 /\ At(g, 0)
           /\ n \notin stale => \A h \in 0 .. MaxHeight :
                 d.blocks[h] # NoBlock => Rooted(d.blocks[h], h)
           /\ \A b \in Range(d.blocks) :
                 b.index > 0 /\ b.validator # n => b \in Out
  <1>1. PICK c : c = <<g>>
    OBVIOUS
  <1>2. Sound(c) /\ Len(c) = 1 /\ c[1] = g /\ At(g, 0) /\ g.index = 0
    BY <1>1, GenesisSound
  <1>3. StoreOK(store[n]) /\ Sane(n)
    BY DEF IInv, NodesOK, Local, LocalOK
  <1>4. 0 \in 0 .. MaxHeight
    BY StoreAssumption
  <1>5. /\ StoreOK(d) /\ d.height = 0 /\ d.blocks[0] = g
        /\ \A i \in 0 .. MaxHeight : i # 0 => d.blocks[i] = store[n].blocks[i]
        /\ Range(d.blocks) \subseteq Range(store[n].blocks) \cup {g}
    BY <1>2, <1>3, <1>4, StoredBlock
  <1>6. Rooted(g, 0)
    BY <1>2 DEF Rooted
  <1>7. ASSUME n \notin stale, NEW h \in 0 .. MaxHeight, d.blocks[h] # NoBlock
        PROVE  Rooted(d.blocks[h], h)
    BY <1>3, <1>5, <1>6, <1>7 DEF Sane, SaneOK
  <1>8. ASSUME NEW b \in Range(d.blocks), b.index > 0, b.validator # n PROVE b \in Out
    <2>1. b # g
      BY <1>2, <1>8
    <2>2. b \in Range(store[n].blocks)
      BY <1>5, <2>1
    <2>3. b \in ForeignIn(n, chain[n], store[n])
      BY <1>8, <2>2 DEF ForeignIn
    <2> QED
      BY <2>3 DEF Out
  <1> QED
    BY <1>2, <1>5, <1>7, <1>8

\* The history does not change.
LEMMA SameHistory ==
    ASSUME IInv, UNCHANGED history
    PROVE  Later
  <1>1. crashes' = crashes /\ reordered' = reordered /\ stale' = stale
    BY DEF history
  <1>2. crashes \in Nat
    BY NetworkAssumption DEF IInv, HistoryOK
  <1> QED
    BY <1>1, <1>2 DEF Later, IInv, HistoryOK

\* A first start saves a genesis block and its state, and joins.
LEMMA FirstStartInv ==
    ASSUME IInv, NEW n \in Nodes, FirstStart(n)
    PROVE  IInv'
  <1>1. PICK g :
            /\ \E t \in Clock : g = GenesisBlock(t)
            /\ chain' = [chain EXCEPT ![n] = <<g>>]
            /\ world' = [world EXCEPT ![n] = NewState(Allocations)]
            /\ store' = [store EXCEPT ![n] =
                  StoreState(StoreBlock(store[n], g), NewState(Allocations))]
    BY DEF FirstStart
  <1>2. PICK c, w, d, e : /\ c = <<g>> /\ w = NewState(Allocations)
                          /\ e = StoreBlock(store[n], g) /\ d = StoreState(e, w)
    OBVIOUS
  <1>3. /\ chain[n] = <<>> /\ store[n].height < 0
        /\ UNCHANGED <<pool, adding, issued, lost>> /\ UNCHANGED history /\ Join(n)
        /\ saving' = saving
    BY DEF FirstStart, Up, txVars
  <1>4. /\ Sound(c) /\ Len(c) = 1 /\ c # <<>> /\ Range(c) = {g} /\ g.index = 0
        /\ Replay(c) = w
    BY <1>1, <1>2, GenesisSound
  <1>5. w \in SoundState
    BY <1>2, NewStateSound
  <1>6. /\ StoreOK(e)
        /\ n \notin stale => \A h \in 0 .. MaxHeight :
              e.blocks[h] # NoBlock => Rooted(e.blocks[h], h)
        /\ \A b \in Range(e.blocks) : b.index > 0 /\ b.validator # n => b \in Out
    BY <1>1, <1>2, <1>3, FirstStore
  <1>7. StoreOK(d) /\ d.blocks = e.blocks
    BY <1>2, <1>5, <1>6, StoredState
  <1>8. saving[n] = {}
    BY <1>3, NoTasks
  <1>9. Moves(n, c, w, {}, d)
    <2>1. saving' = [saving EXCEPT ![n] = {}]
      BY <1>3, <1>8 DEF IInv, MemTyped
    <2> QED
      BY <1>1, <1>2, <2>1 DEF Moves
  <1>10. Later
    BY <1>3, SameHistory
  <1>11. LocalOK(c, w, {}, d)
    BY <1>4, <1>5, <1>7 DEF LocalOK, Sound
  <1>12. n \notin stale' => SaneOK(c, w, d)
    BY <1>3, <1>4, <1>6, <1>7 DEF SaneOK, history
  <1>13. SavedOK({}, d)
    BY DEF SavedOK
  <1>14. \A m \in posts' : PostTyped(m) /\ (m.type = "block" => m.body \in Out)
    BY <1>3, JoinTyped
  <1>15. PostsFit(n, c, d)
    BY <1>14 DEF PostsFit
  <1>16. ForeignIn(n, c, d) \subseteq Out
    BY <1>4, <1>6, <1>7 DEF ForeignIn
  <1>17. Keeps(n, c, d)
    BY <1>3, <1>10, NothingOut
  <1>18. NetTyped'
    <2>1. peers' \in [Nodes -> SUBSET Nodes]
      BY <1>3, JoinTyped
    <2> QED
      BY <1>3, <1>14, <2>1 DEF IInv, NetTyped
  <1> QED
    BY <1>4, <1>9, <1>10, <1>11, <1>12, <1>13, <1>15, <1>16, <1>17, <1>18, OneNodeMoves

\* One crash more.
LEMMA OneMoreCrash ==
    ASSUME IInv, crashes < MaxCrashes, crashes' = crashes + 1, UNCHANGED <<reordered, stale>>
    PROVE  Later /\ crashes' # 0
  <1>1. crashes \in Nat /\ MaxCrashes \in Nat
    BY NetworkAssumption DEF IInv, HistoryOK
  <1> QED
    BY <1>1 DEF Later, IInv, HistoryOK

\* A first start that dies leaves a genesis block without a state.
LEMMA FirstStartDiesInv ==
    ASSUME IInv, NEW n \in Nodes, FirstStartDies(n)
    PROVE  IInv'
  <1>1. PICK g, d : /\ \E t \in Clock : g = GenesisBlock(t)
                    /\ d = StoreBlock(store[n], g)
                    /\ store' = [store EXCEPT ![n] = d]
    BY DEF FirstStartDies
  <1>2. PICK c, w : c = <<>> /\ w = world[n]
    OBVIOUS
  <1>3. /\ chain[n] = c /\ chain[n] = <<>> /\ store[n].height < 0
        /\ UNCHANGED <<chain, world, saving, pool, adding, issued, peers, posts, lost>>
        /\ crashes < MaxCrashes /\ crashes' = crashes + 1 /\ UNCHANGED <<reordered, stale>>
    BY <1>2 DEF FirstStartDies, Up, mem, txVars, netVars
  <1>4. /\ StoreOK(d)
        /\ n \notin stale => \A h \in 0 .. MaxHeight :
              d.blocks[h] # NoBlock => Rooted(d.blocks[h], h)
        /\ \A b \in Range(d.blocks) : b.index > 0 /\ b.validator # n => b \in Out
    BY <1>1, <1>3, FirstStore
  <1>5. saving[n] = {}
    BY <1>3, NoTasks
  <1>6. Moves(n, c, w, {}, d)
    BY <1>1, <1>2, <1>3, <1>5 DEF IInv, MemTyped, Moves
  <1>7. Later /\ crashes' # 0
    BY <1>3, OneMoreCrash
  <1>8. Local(n) /\ Sane(n)
    BY DEF IInv, NodesOK
  <1>9. LocalOK(c, w, {}, d)
    BY <1>2, <1>3, <1>4, <1>8 DEF LocalOK, Local
  <1>10. n \notin stale' => SaneOK(c, w, d)
    BY <1>2, <1>3, <1>4, <1>8 DEF Sane, SaneOK
  <1>11. SavedOK({}, d)
    BY DEF SavedOK
  <1>12. \A m \in posts' : PostTyped(m) /\ (m.type = "block" => m.body \in Out)
    BY <1>3, FewerPosts
  <1>13. PostsFit(n, c, d)
    BY <1>12 DEF PostsFit
  <1>14. ForeignIn(n, c, d) \subseteq Out
    BY <1>2, <1>4, EmptyIsSeq DEF ForeignIn
  <1>15. Keeps(n, c, d)
    BY <1>3, <1>7, NothingOut
  <1>16. NetTyped'
    BY <1>3 DEF IInv, NetTyped
  <1> QED
    BY <1>6, <1>7, <1>9, <1>10, <1>11, <1>13, <1>14, <1>15, <1>16, OneNodeMoves

\* What a node loads from its store is a linked chain, and a sound one if its
\* blocks were.
LEMMA Loaded ==
    ASSUME NEW d, StoreOK(d), d.height >= 0, CanLoad(d), NEW c, c = LoadAllBlocks(d)
    PROVE  /\ Linked(c) /\ Len(c) = d.height + 1 /\ c # <<>>
           /\ \A i \in 1 .. Len(c) : c[i] = d.blocks[i - 1]
           /\ Range(c) \subseteq Range(d.blocks)
           /\ (\A h \in 0 .. MaxHeight : d.blocks[h] # NoBlock => Rooted(d.blocks[h], h))
                => Sound(c)
  <1>1. d.height \in Nat /\ d.height \in 0 .. MaxHeight /\ DOMAIN d.blocks = 0 .. MaxHeight
        /\ d.height \in -1 .. MaxHeight
    BY StoreAssumption DEF StoreOK
  <1>2. /\ IsSeq(c) /\ Len(c) = d.height + 1
        /\ \A i \in 1 .. d.height + 1 : c[i] = d.blocks[i - 1]
    BY <1>1, LoadedChain
  <1>3. DOMAIN c = 1 .. Len(c) /\ Len(c) \in Nat \ {0} /\ c # <<>>
    BY <1>1, <1>2, SeqProps
  <1>4. \A i \in 1 .. Len(c) : c[i] = d.blocks[i - 1] /\ i - 1 \in 0 .. d.height
                               /\ i - 1 \in 0 .. MaxHeight
    <2> SUFFICES ASSUME NEW i \in 1 .. Len(c)
                 PROVE  c[i] = d.blocks[i - 1] /\ i - 1 \in 0 .. d.height
                        /\ i - 1 \in 0 .. MaxHeight
      OBVIOUS
    <2>1. i \in 1 .. d.height + 1
      BY <1>2
    <2>2. MaxHeight \in Nat /\ d.height <= MaxHeight
      BY <1>1, StoreAssumption
    <2>3. i - 1 \in 0 .. d.height /\ i - 1 \in 0 .. MaxHeight
      BY <1>1, <2>1, <2>2
    <2> QED
      BY <1>2, <2>1, <2>3
  <1>5. Linked(c)
    <2>1. Len(c) <= MaxHeight + 1
      BY <1>1, <1>2, StoreAssumption
    <2>2. ASSUME NEW i \in 1 .. Len(c) PROVE At(c[i], i - 1)
      BY <1>4 DEF CanLoad, StoreOK
    <2>3. \A i \in 2 .. Len(c) : c[i].prev = <<c[i - 1]>>
      BY DEF CanLoad, ValidateChain
    <2> QED
      BY <1>2, <2>1, <2>2, <2>3 DEF Linked
  <1>6. Range(c) \subseteq Range(d.blocks)
    BY <1>1, <1>3, <1>4 DEF Range
  <1>7. ASSUME \A h \in 0 .. MaxHeight : d.blocks[h] # NoBlock => Rooted(d.blocks[h], h)
        PROVE  Sound(c)
    <2>1. PICK h \in 0 .. MaxHeight : h = d.height
      BY <1>1
    <2>2. d.blocks[h] # NoBlock
      BY <2>1 DEF StoreOK
    <2>3. PICK e : Sound(e) /\ Len(e) = h + 1 /\ e[h + 1] = d.blocks[h]
      BY <1>7, <2>2 DEF Rooted
    <2>4. PICK k \in Nat \ {0} : k = h + 1
      BY <2>1
    <2>5. Len(c) = k /\ Len(e) = k /\ c[k] = e[k]
      BY <1>2, <1>4, <2>1, <2>3, <2>4
    <2>6. Linked(e)
      BY <2>3 DEF Sound
    <2>7. c = e
      BY <1>5, <2>5, <2>6, LastDecides
    <2> QED
      BY <2>3, <2>7
  <1> QED
    BY <1>2, <1>3, <1>4, <1>5, <1>6, <1>7

\* A restart takes the chain and the state from the store.
LEMMA RestartInv ==
    ASSUME IInv, NEW n \in Nodes, Restart(n)
    PROVE  IInv'
  <1>1. PICK c, w, d : c = LoadAllBlocks(store[n]) /\ w = LoadState(store[n]) /\ d = store[n]
    OBVIOUS
  <1>2. /\ chain[n] = <<>> /\ d.height >= 0 /\ CanLoad(d)
        /\ chain' = [chain EXCEPT ![n] = c] /\ world' = [world EXCEPT ![n] = w]
        /\ Join(n) /\ UNCHANGED <<saving, store>>
        /\ UNCHANGED <<pool, adding, issued, lost, crashes, reordered>>
    BY <1>1 DEF Restart, Up, txVars
  <1>3. chain'[n] = c /\ world'[n] = w
    BY <1>2 DEF IInv, MemTyped
  <1>4. stale' = IF w = Replay(c) THEN stale ELSE stale \cup {n}
    BY <1>3 DEF Restart
  <1>5. Local(n) /\ Sane(n) /\ StoreOK(d)
    BY <1>1 DEF IInv, NodesOK, Local, LocalOK
  <1>6. crashes # 0 /\ crashes \in Nat
    <2>1. crashes \in Nat /\ d.height \in Int
      BY <1>5, StoreProps, NetworkAssumption DEF IInv, HistoryOK
    <2> QED
      BY <1>1, <1>2, <1>5, <2>1 DEF Local
  <1>7. Later
    BY <1>2, <1>4, <1>6 DEF Later, IInv, HistoryOK
  <1>8. /\ Linked(c) /\ Len(c) = d.height + 1 /\ c # <<>>
        /\ \A i \in 1 .. Len(c) : c[i] = d.blocks[i - 1]
        /\ Range(c) \subseteq Range(d.blocks)
        /\ (\A h \in 0 .. MaxHeight : d.blocks[h] # NoBlock => Rooted(d.blocks[h], h))
             => Sound(c)
    BY <1>1, <1>2, <1>5, Loaded
  <1>9. w \in SoundState
    BY <1>1, <1>5, LoadedState DEF StoreOK
  <1>10. saving[n] = {}
    BY <1>2, NoTasks
  <1>11. Moves(n, c, w, {}, d)
    BY <1>1, <1>2, <1>10 DEF IInv, MemTyped, Moves
  <1>12. LocalOK(c, w, {}, d)
    BY <1>5, <1>8, <1>9 DEF LocalOK
  <1>13. n \notin stale' => SaneOK(c, w, d)
    <2> SUFFICES ASSUME n \notin stale' PROVE SaneOK(c, w, d)
      OBVIOUS
    <2>1. n \notin stale /\ w = Replay(c)
      BY <1>4
    <2>2. \A h \in 0 .. MaxHeight : d.blocks[h] # NoBlock => Rooted(d.blocks[h], h)
      BY <1>1, <1>5, <2>1 DEF Sane, SaneOK
    <2> QED
      BY <1>8, <2>1, <2>2 DEF SaneOK
  <1>14. SavedOK({}, d)
    BY DEF SavedOK
  <1>15. \A m \in posts' : PostTyped(m) /\ (m.type = "block" => m.body \in Out)
    BY <1>2, JoinTyped
  <1>16. PostsFit(n, c, d)
    BY <1>15 DEF PostsFit
  <1>17. ForeignIn(n, c, d) \subseteq Out
    <2>1. ForeignIn(n, c, d) \subseteq ForeignIn(n, chain[n], store[n])
      BY <1>1, <1>8 DEF ForeignIn
    <2> QED
      BY <2>1 DEF Out
  <1>18. Keeps(n, c, d)
    <2> SUFFICES ASSUME Calm', NEW b \in Out, Holds(crashes, reordered, chain[n], d, b)
                 PROVE  Holds(crashes', reordered', c, d, b)
      BY <1>1 DEF Keeps
    <2>1. reordered = {}
      BY <1>2, <1>6 DEF Calm
    <2>2. InStore(d, b)
      BY <2>1 DEF Holds
    <2>3. b.index \in Nat /\ d.height \in Int
      BY <1>5, OutProps, StoreProps DEF BlockOK
    <2>4. PICK h \in Nat, i \in Nat : h = b.index /\ i = h + 1
      BY <2>3
    <2>5. h < Len(c) /\ i \in 1 .. Len(c) /\ i - 1 = h
      BY <1>8, <2>2, <2>3, <2>4 DEF InStore
    <2>6. c[i] = b
      BY <1>8, <2>2, <2>4, <2>5 DEF InStore
    <2>7. InChain(c, b)
      BY <2>4, <2>5, <2>6 DEF InChain
    <2> QED
      BY <1>8, <2>2, <2>7 DEF Holds
  <1>19. NetTyped'
    <2>1. peers' \in [Nodes -> SUBSET Nodes]
      BY <1>2, JoinTyped
    <2> QED
      BY <1>2, <1>15, <2>1 DEF IInv, NetTyped
  <1> QED
    BY <1>7, <1>8, <1>11, <1>12, <1>13, <1>14, <1>16, <1>17, <1>18, <1>19, OneNodeMoves

\* A crash forgets what is in memory.
LEMMA CrashInv ==
    ASSUME IInv, NEW n \in Nodes, Crash(n)
    PROVE  IInv'
  <1>1. PICK c, w, d : c = <<>> /\ w = EmptyState /\ d = store[n]
    OBVIOUS
  <1>2. /\ crashes < MaxCrashes /\ crashes' = crashes + 1
        /\ chain' = [chain EXCEPT ![n] = c] /\ world' = [world EXCEPT ![n] = w]
        /\ saving' = [saving EXCEPT ![n] = {}] /\ pool' = [pool EXCEPT ![n] = {}]
        /\ adding' = [adding EXCEPT ![n] = {}] /\ peers' = [peers EXCEPT ![n] = {}]
        /\ UNCHANGED <<store, issued, posts, lost, reordered, stale>>
    BY <1>1 DEF Crash
  <1>3. Later /\ crashes' # 0
    BY <1>2, OneMoreCrash
  <1>4. Moves(n, c, w, {}, d)
    BY <1>1, <1>2 DEF IInv, MemTyped, Moves
  <1>5. Local(n) /\ Sane(n)
    BY DEF IInv, NodesOK
  <1>6. LocalOK(c, w, {}, d)
    BY <1>1, <1>5, EmptySound, EmptyStateSound DEF LocalOK, Local
  <1>7. n \notin stale' => SaneOK(c, w, d)
    BY <1>1, <1>2, <1>5, EmptySound DEF Sane, SaneOK
  <1>8. SavedOK({}, d)
    BY DEF SavedOK
  <1>9. \A m \in posts' : PostTyped(m) /\ (m.type = "block" => m.body \in Out)
    BY <1>2, FewerPosts
  <1>10. PostsFit(n, c, d)
    BY <1>9 DEF PostsFit
  <1>11. ForeignIn(n, c, d) \subseteq Out
    <2>1. ForeignIn(n, c, d) \subseteq ForeignIn(n, chain[n], store[n])
      BY <1>1, EmptyIsSeq DEF ForeignIn
    <2> QED
      BY <2>1 DEF Out
  <1>12. Keeps(n, c, d)
    BY <1>1, <1>2, <1>3 DEF Keeps, Holds
  <1>13. NetTyped'
    <2>1. /\ adding' = [m \in Nodes |-> adding'[m]]
          /\ pool' \in [Nodes -> SUBSET Txs] /\ peers' \in [Nodes -> SUBSET Nodes]
      BY <1>2 DEF IInv, NetTyped
    <2>2. ASSUME NEW m \in Nodes, NEW a \in adding'[m] PROVE a.tx \in Txs
      BY <1>2 DEF IInv, NetTyped
    <2> QED
      BY <1>2, <1>9, <2>1, <2>2 DEF IInv, NetTyped
  <1> QED
    BY <1>3, <1>4, <1>6, <1>7, <1>8, <1>10, <1>11, <1>12, <1>13, OneNodeMoves

-----------------------------------------------------------------------------
(* Blocks *)

\* What Acceptable says of a block and the chain of node n.
LEMMA NextBlock ==
    ASSUME NEW n \in Nodes, NEW c, c = chain[n], NEW b, Linked(c), c # <<>>,
           Acceptable(b, n)
    PROVE  /\ Len(c) \in Nat \ {0} /\ b.index = Len(c) /\ b.prev = <<c[Len(c)]>>
           /\ b.validator = ProposerForHeight(Len(c))
           /\ ValidRun(b.txs, world[n])
  <1>1. Len(c) \in Nat \ {0}
    BY LinkedProps
  <1>2. Last(c) = c[Len(c)] /\ c[Len(c)].index = Len(c) - 1
    BY <1>1, LinkedProps DEF Last
  <1>3. b.index = Len(c)
    BY <1>1, <1>2 DEF Acceptable, ValidateBlock
  <1> QED
    BY <1>1, <1>2, <1>3 DEF Acceptable, ValidateBlock, ExpectedProposer

\* Chain e is c and then b, which is number j.
OneLonger(c, b, e, j) == e = Append(c, b) /\ j = Len(c) + 1

\* A linked chain with one more block.
LEMMA ExtendLinked ==
    ASSUME NEW c, Linked(c), NEW k \in Nat \ {0}, Len(c) = k, k <= MaxHeight,
           NEW b, BlockOK(b), b.index = k, b.prev = <<c[k]>>,
           NEW e, NEW j, OneLonger(c, b, e, j)
    PROVE  /\ Linked(e) /\ Len(e) = j /\ e[j] = b /\ e # <<>> /\ j \in Nat
           /\ \A i \in 1 .. k : e[i] = c[i]
           /\ Range(e) = Range(c) \cup {b}
  <1>1. IsSeq(c) /\ j = k + 1
    BY DEF Linked, OneLonger
  <1>2. /\ IsSeq(e) /\ Len(e) = k + 1 /\ \A i \in 1 .. k : e[i] = c[i]
        /\ e[k + 1] = b /\ Range(e) = Range(c) \cup {b}
    BY <1>1, AppendProps DEF OneLonger
  <1>3. e # <<>>
    BY <1>2, EmptyIsSeq
  <1>4. ASSUME NEW i \in 1 .. k + 1 PROVE At(e[i], i - 1)
    <2>1. CASE i = k + 1
      <3>1. At(b, k)
        BY DEF At
      <3> QED
        BY <1>2, <2>1, <3>1
    <2>2. CASE i # k + 1
      <3>1. i \in 1 .. k
        BY <2>2
      <3> QED
        BY <1>2, <3>1 DEF Linked
    <2> QED
      BY <2>1, <2>2
  <1>5. ASSUME NEW i \in 2 .. k + 1 PROVE e[i].prev = <<e[i - 1]>>
    <2>1. CASE i = k + 1
      <3>1. i - 1 = k /\ k \in 1 .. k
        BY <2>1
      <3> QED
        BY <1>2, <2>1, <3>1
    <2>2. CASE i # k + 1
      <3>1. i \in 2 .. k /\ i \in 1 .. k /\ i - 1 \in 1 .. k
        BY <2>2
      <3> QED
        BY <1>2, <3>1 DEF Linked
    <2> QED
      BY <2>1, <2>2
  <1>6. k + 1 <= MaxHeight + 1
    BY StoreAssumption
  <1>7. Linked(e)
    BY <1>2, <1>4, <1>5, <1>6 DEF Linked
  <1> QED
    BY <1>1, <1>2, <1>3, <1>7

\* A sound chain with one more block that is valid on its state.
LEMMA ExtendSound ==
    ASSUME NEW c, Sound(c), NEW k \in Nat \ {0}, Len(c) = k,
           NEW b, NEW e, NEW l, OneLonger(c, b, e, l), Linked(e), Len(e) = l, e[l] = b,
           \A i \in 1 .. k : e[i] = c[i], ValidRun(b.txs, Replay(c))
    PROVE  Sound(e) /\ Replay(e) = Run(b.txs, Replay(c))
  <1>1. IsSeq(c) /\ IsSeq(e) /\ c # <<>>
    BY LinkedProps DEF Sound
  <1>2. ASSUME NEW j \in Nat, j <= k PROVE SubSeq(e, 1, j) = SubSeq(c, 1, j)
    BY <1>1, <1>2, SubSeqSame
  <1>3. SubSeq(e, 1, k) = c
    BY <1>1, <1>2, SubSeqAll
  <1>4. l = k + 1 /\ l \in Nat
    BY DEF OneLonger
  <1>5. ASSUME NEW i \in 2 .. Len(e)
        PROVE  ValidRun(e[i].txs, Replay(SubSeq(e, 1, i - 1)))
    <2>1. PICK j \in Nat : j = i - 1 /\ j <= k
      BY <1>4
    <2>2. CASE i = l
      <3>1. j = k /\ e[i] = b
        BY <1>4, <2>1, <2>2
      <3>2. SubSeq(e, 1, i - 1) = c
        BY <1>3, <2>1, <3>1
      <3> QED
        BY <3>1, <3>2
    <2>3. CASE i # l
      <3>1. i \in 2 .. k /\ i \in 1 .. k
        BY <1>4, <2>3
      <3>2. e[i] = c[i] /\ SubSeq(e, 1, j) = SubSeq(c, 1, j)
        BY <1>2, <2>1, <3>1
      <3> QED
        BY <2>1, <3>1, <3>2 DEF Sound
    <2> QED
      BY <2>2, <2>3
  <1>6. Replay(e) = Run(b.txs, Replay(c))
    <2>1. e[Len(e)] = b /\ Len(e) = Len(c) + 1
      BY <1>4
    <2>2. Replay(e) = Run(e[Len(e)].txs, Replay(c))
      BY <1>1, <2>1, ReplayNext
    <2> QED
      BY <2>1, <2>2
  <1> QED
    BY <1>5, <1>6 DEF Sound

\* Of a block that a validator made the transactions are transactions.
LEMMA BlockRuns ==
    ASSUME NEW b, BlockOK(b), NEW s \in SoundState, ValidRun(b.txs, s)
    PROVE  Run(b.txs, s) \in SoundState
  <1>1. b.txs \in Seq(Tx)
    BY NetworkAssumption DEF BlockOK
  <1> QED
    BY <1>1, RunUsesUp DEF UsesUp

\* A node commits a block that it made or that another one posted.
LEMMA CommitInv ==
    ASSUME IInv, NEW n \in Nodes, NEW b, NEW by \in {"loop", "handler"},
           Up(n), Acceptable(b, n), BlockOK(b), Commit(n, b, by),
           b \in Out \/ b.validator = n,
           UNCHANGED <<store, adding, issued, peers, lost, history>>, posts' \subseteq posts
    PROVE  IInv'
  <1>1. PICK c, w, sv, d : c = chain[n] /\ w = world[n] /\ sv = saving[n] /\ d = store[n]
    OBVIOUS
  <1>2. PICK c2, w2, sv2, j : /\ c2 = Append(c, b) /\ w2 = Run(b.txs, w)
                              /\ sv2 = sv \cup {Task(b, by)} /\ j = Len(c) + 1
    OBVIOUS
  <1>3. LocalOK(c, w, sv, d) /\ Sane(n) /\ Saved(n) /\ c # <<>>
    BY <1>1 DEF IInv, NodesOK, Local, Up
  <1>4. Linked(c) /\ w \in SoundState /\ StoreOK(d)
    BY <1>3 DEF LocalOK
  <1>5. PICK k \in Nat \ {0} : k = Len(c)
    BY <1>3, <1>4, LinkedProps
  <1>6. b.index = k /\ b.prev = <<c[k]>> /\ ValidRun(b.txs, w)
    BY <1>1, <1>3, <1>4, <1>5, NextBlock
  <1>7. k <= MaxHeight
    BY <1>6 DEF BlockOK
  <1>8. OneLonger(c, b, c2, j)
    BY <1>2 DEF OneLonger
  <1>9. /\ Linked(c2) /\ Len(c2) = j /\ c2[j] = b /\ c2 # <<>> /\ j \in Nat
         /\ \A i \in 1 .. k : c2[i] = c[i]
         /\ Range(c2) = Range(c) \cup {b}
    BY <1>8, <1>4, <1>5, <1>6, <1>7, ExtendLinked
  <1>10. /\ Linked(c2) /\ Len(c2) = k + 1 /\ c2[k + 1] = b /\ c2 # <<>>
        /\ \A i \in 1 .. k : c2[i] = c[i]
        /\ Range(c2) = Range(c) \cup {b}
    BY <1>2, <1>5, <1>9
  <1>11. Moves(n, c2, w2, sv2, d)
    BY <1>1, <1>2 DEF Commit, Moves, IInv, MemTyped
  <1>12. Later
    BY SameHistory
  <1>13. ASSUME NEW x, x.index \in Nat, InChain(c, x) PROVE InChain(c2, x)
    <2>1. PICK h \in Nat, i \in Nat : h = x.index /\ i = h + 1
      BY <1>13
    <2>2. h < k /\ c[i] = x /\ i \in 1 .. k
      BY <1>5, <1>13, <2>1 DEF InChain
    <2>3. c2[i] = x /\ h < Len(c2)
      BY <1>10, <2>2
    <2> QED
      BY <2>1, <2>3 DEF InChain
  <1>14. LocalOK(c2, w2, sv2, d)
    <2>1. w2 \in SoundState
      BY <1>2, <1>4, <1>6, BlockRuns
    <2>2. ASSUME NEW t \in sv PROVE TaskOK(t, c2)
      <3>1. TaskOK(t, c)
        BY <1>3 DEF LocalOK
      <3>2. t.block.index \in Nat
        BY <3>1 DEF TaskOK
      <3>3. InChain(c2, t.block)
        BY <1>13, <3>1, <3>2 DEF TaskOK
      <3> QED
        BY <3>1, <3>3 DEF TaskOK
    <2>3. TaskOK(Task(b, by), c2)
      <3>1. PICK t : t = Task(b, by)
        OBVIOUS
      <3>2. /\ DOMAIN t = {"block", "by", "pc", "snap"} /\ t.snap = EmptyState
            /\ t.pc = "saveBlock" /\ t.by = by /\ t.block = b
        BY <3>1 DEF Task
      <3>3. InChain(c2, b) /\ b.index \in 1 .. MaxHeight
        BY <1>6, <1>10 DEF InChain, BlockOK
      <3>4. TaskOK(t, c2)
        BY <3>2, <3>3, EmptyStateSound DEF TaskOK
      <3> QED
        BY <3>1, <3>4
    <2> QED
      BY <1>2, <1>4, <1>10, <2>1, <2>2, <2>3 DEF LocalOK
  <1>15. n \notin stale' => SaneOK(c2, w2, d)
    <2> SUFFICES ASSUME n \notin stale' PROVE SaneOK(c2, w2, d)
      OBVIOUS
    <2>1. SaneOK(c, w, d)
      BY <1>1, <1>3 DEF Sane, history
    <2>2. Sound(c) /\ w = Replay(c)
      BY <2>1 DEF SaneOK
    <2>3. ValidRun(b.txs, Replay(c))
      BY <1>6, <2>2
    <2>4. Sound(c2) /\ Replay(c2) = Run(b.txs, Replay(c))
      BY <1>5, <1>8, <1>9, <2>2, <2>3, ExtendSound
    <2>5. w2 = Replay(c2)
      BY <1>2, <2>2, <2>4
    <2> QED
      BY <2>1, <2>4, <2>5 DEF SaneOK
  <1>16. reordered' = {} => SavedOK(sv2, d)
    BY <1>1, <1>2, <1>3 DEF Saved, SavedOK, Task, history
  <1>17. \A m \in posts' : PostTyped(m) /\ (m.type = "block" => m.body \in Out)
    BY FewerPosts
  <1>18. PostsFit(n, c2, d)
    BY <1>17 DEF PostsFit
  <1>19. ForeignIn(n, c2, d) \subseteq Out
    <2>1. ForeignIn(n, c, d) \subseteq Out
      BY <1>1 DEF Out
    <2> QED
      BY <1>10, <2>1 DEF ForeignIn
  <1>20. Keeps(n, c2, d)
    <2> SUFFICES ASSUME NEW x \in Out, Holds(crashes, reordered, c, d, x)
                 PROVE  Holds(crashes, reordered, c2, d, x)
      BY <1>1 DEF Keeps, history
    <2>1. x.index \in Nat
      BY OutProps DEF BlockOK
    <2> QED
      BY <1>3, <1>10, <1>13, <2>1 DEF Holds
  <1>21. NetTyped'
    <2>1. RemoveBatch(pool[n], b.txs) \subseteq pool[n]
      BY DEF RemoveBatch
    <2>2. pool' \in [Nodes -> SUBSET Txs]
      BY <2>1 DEF Commit, IInv, NetTyped
    <2> QED
      BY <1>17, <2>2 DEF IInv, NetTyped
  <1> QED
    BY <1>10, <1>11, <1>12, <1>14, <1>15, <1>16, <1>18, <1>19, <1>20, <1>21, OneNodeMoves

\* What a validator proposes at its turn is a block of its own.
LEMMA ProposalProps ==
    ASSUME IInv, NEW n \in Nodes, NEW b \in Proposals(n)
    PROVE  Up(n) /\ Acceptable(b, n) /\ BlockOK(b) /\ b.validator = n
  <1>1. AtTurn(n) /\ Acceptable(b, n)
        /\ \E txs \in Batches(pool[n]) : b = NewBlock(Last(chain[n]), txs, n, crashes)
    BY DEF Proposals
  <1>2. PICK txs \in Batches(pool[n]) : b = NewBlock(Last(chain[n]), txs, n, crashes)
    BY <1>1
  <1>3. b.txs = txs /\ b.validator = n
    BY <1>2 DEF NewBlock, Block
  <1>4. txs \in Seq(Txs) /\ Len(txs) <= MaxTxsPerBlock
    <2>1. PICK k \in 0 .. MaxTxsPerBlock : txs \in [1 .. k -> pool[n]]
      BY DEF Batches, SeqOf
    <2>2. k \in Nat /\ pool[n] \subseteq Txs
      BY BlocksAssumption DEF IInv, NetTyped
    <2>3. txs \in [1 .. k -> Txs]
      BY <2>1, <2>2
    <2> QED
      BY <2>2, <2>3
  <1>5. Up(n) /\ Len(chain[n]) <= MaxHeight
    BY <1>1 DEF AtTurn
  <1>6. PICK c : c = chain[n]
    OBVIOUS
  <1>7. Linked(c) /\ c # <<>>
    BY <1>5, <1>6 DEF Up, IInv, NodesOK, Local, LocalOK
  <1>8. /\ Len(c) \in Nat \ {0} /\ b.index = Len(c)
        /\ b.validator = ProposerForHeight(Len(c))
    BY <1>1, <1>6, <1>7, NextBlock
  <1>9. b.index \in 1 .. MaxHeight
    BY <1>5, <1>6, <1>8, StoreAssumption
  <1> QED
    BY <1>1, <1>3, <1>4, <1>5, <1>8, <1>9 DEF BlockOK

\* A node proposes at its turn.
LEMMA ProposeInv ==
    ASSUME IInv, NEW n \in Nodes, Propose(n)
    PROVE  IInv'
  <1>1. PICK b \in Proposals(n) : Commit(n, b, "loop")
    BY DEF Propose
  <1>2. Up(n) /\ Acceptable(b, n) /\ BlockOK(b) /\ b.validator = n
    BY <1>1, ProposalProps
  <1>3. UNCHANGED <<store, adding, issued, peers, lost, history>> /\ posts' \subseteq posts
    BY DEF Propose, netVars
  <1> QED
    BY <1>1, <1>2, <1>3, CommitInv

\* A node takes a block, or ignores it.
LEMMA ReceiveBlockInv ==
    ASSUME IInv, NEW n \in Nodes, ReceiveBlock(n)
    PROVE  IInv'
  <1>1. PICK m \in posts :
            /\ m.type = "block"
            /\ posts' = posts \ {m}
            /\ IF Acceptable(m.body, n) THEN Commit(n, m.body, "handler")
               ELSE UNCHANGED <<mem, pool>>
    BY DEF ReceiveBlock, PostsTo
  <1>2. Up(n) /\ UNCHANGED <<store, adding, issued, peers, lost, history>>
    BY DEF ReceiveBlock
  <1>3. \A p \in posts' : PostTyped(p) /\ (p.type = "block" => p.body \in Out)
    BY <1>1, FewerPosts
  <1>4. CASE ~ Acceptable(m.body, n)
    <2>1. UNCHANGED <<mem, store, history>>
      BY <1>1, <1>2, <1>4
    <2>2. NetTyped'
      BY <1>1, <1>2, <1>3, <1>4 DEF IInv, NetTyped
    <2> QED
      BY <1>3, <2>1, <2>2, NodesUnmoved
  <1>5. CASE Acceptable(m.body, n)
    <2>1. PICK b : b = m.body
      OBVIOUS
    <2>2. BlockOK(b) /\ b \in Out
      BY <1>1, <2>1 DEF IInv, NetTyped, PostTyped, Out
    <2>3. Commit(n, b, "handler") /\ Acceptable(b, n) /\ posts' \subseteq posts
      BY <1>1, <1>5, <2>1
    <2> QED
      BY <1>2, <2>2, <2>3, CommitInv
  <1> QED
    BY <1>4, <1>5

-----------------------------------------------------------------------------
(* Saving blocks and states *)

\* The tasks sv when k is done with its step, and at pc with snapshot s.
Advanced(sv, k, pc, s) == (sv \ {k}) \cup {[k EXCEPT !.pc = pc, !.snap = s]}

\* A task that advances stays one of its chain.
LEMMA AdvancedOK ==
    ASSUME NEW c, NEW w, NEW d, NEW sv, LocalOK(c, w, sv, d), NEW k \in sv,
           NEW pc \in {"saveState", "flush"}, NEW s \in SoundState,
           NEW r, r = Advanced(sv, k, pc, s)
    PROVE  /\ \A t \in r : TaskOK(t, c)
           /\ \A t \in r : \/ t \in sv /\ t # k
                           \/ t.block = k.block /\ t.pc = pc
  <1>1. TaskOK(k, c)
    BY DEF LocalOK
  <1>2. PICK x : x = [k EXCEPT !.pc = pc, !.snap = s]
    OBVIOUS
  <1>3. /\ DOMAIN x = {"block", "by", "pc", "snap"} /\ x.snap = s
        /\ x.pc = pc /\ x.by = k.by /\ x.block = k.block
    BY <1>1, <1>2 DEF TaskOK
  <1>4. TaskOK(x, c)
    BY <1>1, <1>3 DEF TaskOK
  <1>5. r = (sv \ {k}) \cup {x}
    BY <1>2 DEF Advanced
  <1> QED
    BY <1>3, <1>4, <1>5 DEF LocalOK

\* The tasks, chain and store of a node that saves.
LEMMA SavingNode ==
    ASSUME IInv, NEW n \in Nodes, NEW c, NEW w, NEW sv, NEW d,
           c = chain[n], w = world[n], sv = saving[n], d = store[n], NEW k \in sv
    PROVE  /\ LocalOK(c, w, sv, d) /\ c # <<>> /\ Linked(c) /\ w \in SoundState /\ StoreOK(d)
           /\ TaskOK(k, c) /\ k.block.index \in 1 .. MaxHeight /\ InChain(c, k.block)
           /\ k.block \in Range(c)
           /\ n \notin stale => SaneOK(c, w, d)
           /\ reordered = {} => SavedOK(sv, d)
           /\ ForeignIn(n, c, d) \subseteq Out
  <1>1. LocalOK(c, w, sv, d) /\ Sane(n) /\ Saved(n)
    BY DEF IInv, NodesOK, Local
  <1>2. Linked(c) /\ w \in SoundState /\ StoreOK(d) /\ TaskOK(k, c)
    BY <1>1 DEF LocalOK
  <1>3. k.block.index \in 1 .. MaxHeight /\ InChain(c, k.block)
    BY <1>2 DEF TaskOK
  <1>4. PICK i \in Nat : i = k.block.index + 1
    BY <1>3, StoreAssumption
  <1>5. i \in 1 .. Len(c) /\ c[i] = k.block
    BY <1>2, <1>3, <1>4, LinkedProps DEF InChain
  <1>6. c # <<>> /\ k.block \in Range(c)
    BY <1>2, <1>5, LinkedProps DEF Range
  <1>7. ForeignIn(n, c, d) \subseteq Out
    BY DEF Out
  <1> QED
    BY <1>1, <1>2, <1>3, <1>6, <1>7 DEF Sane, Saved

\* A block of a sound chain was the last of a sound chain.
LEMMA ChainRooted ==
    ASSUME NEW c, Sound(c), NEW b, NEW h \in Nat, b.index = h, InChain(c, b)
    PROVE  Rooted(b, h)
  <1>1. PICK k \in Nat : k = h + 1
    OBVIOUS
  <1>2. k <= Len(c) /\ c[k] = b /\ k \in 1 .. k
    BY <1>1, LinkedProps DEF InChain, Sound
  <1>3. PICK e : e = SubSeq(c, 1, k)
    OBVIOUS
  <1>4. Sound(e) /\ Len(e) = k /\ e[k] = c[k]
    BY <1>2, <1>3, PrefixSound
  <1>5. Sound(e) /\ Len(e) = h + 1 /\ e[h + 1] = b
    BY <1>1, <1>2, <1>4
  <1> QED
    BY <1>5 DEF Rooted

\* What a store has of a chain it still has with one block more of that
\* chain, unless the block is below it.
LEMMA StillStored ==
    ASSUME NEW c, NEW d, StoreOK(d), NEW e, NEW b, NEW h \in 0 .. MaxHeight, b.index = h,
           e.height = h, e.blocks[h] = b, InChain(c, b), d.height <= h,
           \A i \in 0 .. MaxHeight : i # h => e.blocks[i] = d.blocks[i],
           NEW x, x.index \in 0 .. MaxHeight, InChain(c, x), InStore(d, x)
    PROVE  InStore(e, x)
  <1>1. PICK i \in 0 .. MaxHeight : i = x.index
    OBVIOUS
  <1>2. i <= d.height /\ d.blocks[i] = x /\ c[i + 1] = x /\ c[h + 1] = b
    BY <1>1 DEF InStore, InChain
  <1>3. d.height \in Int /\ i \in Int /\ h \in Int
    BY StoreProps, StoreAssumption
  <1>4. i <= h
    BY <1>2, <1>3
  <1>5. e.blocks[i] = x
    <2>1. CASE i = h
      BY <1>2, <2>1
    <2>2. CASE i # h
      BY <1>2, <2>2
    <2> QED
      BY <2>1, <2>2
  <1> QED
    BY <1>1, <1>4, <1>5 DEF InStore

\* A task saves its block.
LEMMA SaveBlockInv ==
    ASSUME IInv, NEW n \in Nodes, SaveBlock(n)
    PROVE  IInv'
  <1>1. PICK k \in saving[n] :
            /\ k.pc = "saveBlock"
            /\ store' = [store EXCEPT ![n] = StoreBlock(@, k.block)]
            /\ reordered' = IF k.block.index < store[n].height THEN reordered \cup {n}
                            ELSE reordered
            /\ Proceed(n, k, "saveState", EmptyState)
    BY DEF SaveBlock
  <1>2. UNCHANGED <<chain, world, pool, adding, issued, peers, posts, lost, crashes, stale>>
    BY DEF SaveBlock, txVars, netVars
  <1>3. PICK c, w, sv, d, b, h :
            /\ c = chain[n] /\ w = world[n] /\ sv = saving[n] /\ d = store[n]
            /\ b = k.block /\ h = b.index
    OBVIOUS
  <1>4. PICK e, r : e = StoreBlock(d, b) /\ r = Advanced(sv, k, "saveState", EmptyState)
    OBVIOUS
  <1>5. /\ LocalOK(c, w, sv, d) /\ c # <<>> /\ Linked(c) /\ w \in SoundState /\ StoreOK(d)
        /\ TaskOK(k, c) /\ h \in 1 .. MaxHeight /\ InChain(c, b) /\ b \in Range(c)
        /\ n \notin stale => SaneOK(c, w, d)
        /\ reordered = {} => SavedOK(sv, d)
        /\ ForeignIn(n, c, d) \subseteq Out
    BY <1>1, <1>3, SavingNode
  <1>6. Moves(n, c, w, r, e)
    <2>1. saving' = [saving EXCEPT ![n] = r]
      BY <1>1, <1>3, <1>4 DEF Proceed, Advanced
    <2>2. store' = [store EXCEPT ![n] = e]
      BY <1>1, <1>3, <1>4
    <2> QED
      BY <1>2, <1>3, <2>1, <2>2 DEF Moves, IInv, MemTyped
  <1>7. Later
    BY <1>1, <1>2, NetworkAssumption DEF Later, IInv, HistoryOK
  <1>8. At(b, h) /\ h \in 0 .. MaxHeight /\ h \in Nat
    <2>1. h \in 0 .. MaxHeight /\ h \in Nat /\ h > 0
      BY <1>5, StoreAssumption
    <2>2. BlockOK(b)
      BY <1>3, <1>5, <2>1, LinkedProps
    <2> QED
      BY <1>3, <2>1, <2>2 DEF At
  <1>9. /\ StoreOK(e) /\ e.height = h /\ e.blocks[h] = b
        /\ \A i \in 0 .. MaxHeight : i # h => e.blocks[i] = d.blocks[i]
        /\ Range(e.blocks) \subseteq Range(d.blocks) \cup {b}
    BY <1>4, <1>5, <1>8, StoredBlock
  <1>10. /\ \A t \in r : TaskOK(t, c)
         /\ \A t \in r : \/ t \in sv /\ t # k
                         \/ t.block = b /\ t.pc = "saveState"
    <2>1. k \in sv
      BY <1>1, <1>3
    <2> QED
      BY <1>3, <1>4, <1>5, <2>1, EmptyStateSound, AdvancedOK
  <1>11. LocalOK(c, w, r, e)
    BY <1>5, <1>9, <1>10 DEF LocalOK
  <1>12. n \notin stale' => SaneOK(c, w, e)
    <2> SUFFICES ASSUME n \notin stale' PROVE SaneOK(c, w, e)
      OBVIOUS
    <2>1. SaneOK(c, w, d)
      BY <1>2, <1>5
    <2>2. Rooted(b, h)
      BY <1>3, <1>5, <1>8, <2>1, ChainRooted DEF SaneOK
    <2>3. ASSUME NEW i \in 0 .. MaxHeight, e.blocks[i] # NoBlock
          PROVE  Rooted(e.blocks[i], i)
      BY <1>9, <2>1, <2>2, <2>3 DEF SaneOK
    <2> QED
      BY <2>1, <2>3 DEF SaneOK
  <1>13. reordered' = {} => reordered = {} /\ d.height <= h
    <2>1. d.height \in Int
      BY <1>5, StoreProps
    <2> QED
      BY <1>1, <1>3, <1>8, <2>1
  <1>14. ASSUME reordered' = {}, NEW x, x.index \in 0 .. MaxHeight, InChain(c, x),
                InStore(d, x)
         PROVE  InStore(e, x)
    BY <1>3, <1>5, <1>8, <1>9, <1>13, <1>14, StillStored
  <1>15. reordered' = {} => SavedOK(r, e)
    <2> SUFFICES ASSUME reordered' = {}, NEW t \in r, t.pc # "saveBlock"
                 PROVE  InStore(e, t.block)
      BY DEF SavedOK
    <2>1. CASE t \in sv
      <3>1. InStore(d, t.block)
        BY <1>5, <1>13, <2>1 DEF SavedOK
      <3>2. InChain(c, t.block) /\ t.block.index \in 0 .. MaxHeight
        BY <1>10, StoreAssumption DEF TaskOK
      <3> QED
        BY <1>14, <3>1, <3>2
    <2>2. CASE t.block = b
      BY <1>3, <1>8, <1>9, <2>2 DEF InStore
    <2> QED
      BY <1>10, <2>1, <2>2
  <1>16. PostsFit(n, c, e)
    <2>1. \A m \in posts' : PostTyped(m) /\ (m.type = "block" => m.body \in Out)
      BY <1>2, FewerPosts
    <2> QED
      BY <2>1 DEF PostsFit
  <1>17. ForeignIn(n, c, e) \subseteq Out
    <2>1. ForeignIn(n, c, e) \subseteq ForeignIn(n, c, d)
      BY <1>5, <1>9 DEF ForeignIn
    <2> QED
      BY <1>5, <2>1
  <1>18. Keeps(n, c, e)
    <2> SUFFICES ASSUME NEW x \in Out, Holds(crashes, reordered, c, d, x)
                 PROVE  Holds(crashes', reordered', c, e, x)
      BY <1>3 DEF Keeps
    <2>1. InChain(c, x)
      BY <1>5 DEF Holds
    <2>2. x.index \in 0 .. MaxHeight
      BY OutProps, StoreAssumption DEF BlockOK
    <2>3. reordered' = {} => InStore(e, x)
      BY <1>13, <1>14, <2>1, <2>2 DEF Holds
    <2> QED
      BY <1>5, <2>1, <2>3 DEF Holds
  <1>19. NetTyped'
    BY <1>2 DEF IInv, NetTyped, PostTyped
  <1> QED
    BY <1>5, <1>6, <1>7, <1>11, <1>12, <1>15, <1>16, <1>17, <1>18, <1>19, OneNodeMoves

\* A task reads the state that it will write.
LEMMA ReadStateInv ==
    ASSUME IInv, NEW n \in Nodes, ReadState(n)
    PROVE  IInv'
  <1>1. PICK k \in saving[n] : k.pc = "saveState" /\ Proceed(n, k, "flush", world[n])
    BY DEF ReadState
  <1>2. /\ UNCHANGED <<chain, world, store, pool, adding, issued, peers, posts, lost>>
        /\ UNCHANGED history
    BY DEF ReadState, txVars, netVars
  <1>3. PICK c, w, sv, d :
            c = chain[n] /\ w = world[n] /\ sv = saving[n] /\ d = store[n]
    OBVIOUS
  <1>4. PICK r : r = Advanced(sv, k, "flush", w)
    OBVIOUS
  <1>5. /\ LocalOK(c, w, sv, d) /\ c # <<>> /\ Linked(c) /\ w \in SoundState /\ StoreOK(d)
        /\ n \notin stale => SaneOK(c, w, d)
        /\ reordered = {} => SavedOK(sv, d)
        /\ ForeignIn(n, c, d) \subseteq Out
    BY <1>1, <1>3, SavingNode
  <1>6. Moves(n, c, w, r, d)
    BY <1>1, <1>2, <1>3, <1>4 DEF Proceed, Advanced, Moves, IInv, MemTyped
  <1>7. Later
    BY <1>2, SameHistory
  <1>8. /\ \A t \in r : TaskOK(t, c)
        /\ \A t \in r : \/ t \in sv /\ t # k
                        \/ t.block = k.block /\ t.pc = "flush"
    <2>1. k \in sv
      BY <1>1, <1>3
    <2> QED
      BY <1>4, <1>5, <2>1, AdvancedOK
  <1>9. LocalOK(c, w, r, d)
    BY <1>5, <1>8 DEF LocalOK
  <1>10. reordered' = {} => SavedOK(r, d)
    <2> SUFFICES ASSUME reordered' = {}, NEW t \in r, t.pc # "saveBlock"
                 PROVE  InStore(d, t.block)
      BY DEF SavedOK
    <2>1. SavedOK(sv, d)
      BY <1>2, <1>5 DEF history
    <2>2. k \in sv /\ k.pc # "saveBlock"
      BY <1>1, <1>3
    <2> QED
      BY <1>8, <2>1, <2>2 DEF SavedOK
  <1>11. \A m \in posts' : PostTyped(m) /\ (m.type = "block" => m.body \in Out)
    BY <1>2, FewerPosts
  <1>12. PostsFit(n, c, d)
    BY <1>11 DEF PostsFit
  <1>13. Keeps(n, c, d)
    BY <1>2, <1>3 DEF Keeps, history
  <1>14. NetTyped'
    BY <1>2, <1>11 DEF IInv, NetTyped
  <1>15. n \notin stale' => SaneOK(c, w, d)
    BY <1>2, <1>5 DEF history
  <1> QED
    BY <1>5, <1>6, <1>7, <1>9, <1>10, <1>12, <1>13, <1>14, <1>15, OneNodeMoves

\* A task writes the state that it read, and broadcasts its block.
LEMMA SaveStateInv ==
    ASSUME IInv, NEW n \in Nodes, SaveState(n)
    PROVE  IInv'
  <1>1. PICK k \in saving[n] :
            /\ k.pc = "flush"
            /\ store' = [store EXCEPT ![n] = StoreState(@, k.snap)]
            /\ saving' = [saving EXCEPT ![n] = @ \ {k}]
            /\ posts' = posts \cup PostAll("block", n, peers[n], k.block)
    BY DEF SaveState
  <1>2. /\ UNCHANGED <<chain, world, pool, adding, issued, peers, lost>>
        /\ UNCHANGED history
    BY DEF SaveState, txVars
  <1>3. PICK c, w, sv, d, b :
            /\ c = chain[n] /\ w = world[n] /\ sv = saving[n] /\ d = store[n]
            /\ b = k.block
    OBVIOUS
  <1>4. PICK e, r : e = StoreState(d, k.snap) /\ r = sv \ {k}
    OBVIOUS
  <1>5. /\ LocalOK(c, w, sv, d) /\ c # <<>> /\ Linked(c) /\ w \in SoundState /\ StoreOK(d)
        /\ TaskOK(k, c) /\ b.index \in 1 .. MaxHeight /\ InChain(c, b) /\ b \in Range(c)
        /\ n \notin stale => SaneOK(c, w, d)
        /\ reordered = {} => SavedOK(sv, d)
        /\ ForeignIn(n, c, d) \subseteq Out
    BY <1>1, <1>3, SavingNode
  <1>6. Moves(n, c, w, r, e)
    BY <1>1, <1>2, <1>3, <1>4 DEF Moves, IInv, MemTyped
  <1>7. Later
    BY <1>2, SameHistory
  <1>8. StoreOK(e) /\ e.height = d.height /\ e.blocks = d.blocks
    <2>1. k.snap \in SoundState
      BY <1>5 DEF TaskOK
    <2> QED
      BY <1>4, <1>5, <2>1, StoredState
  <1>9. LocalOK(c, w, r, e)
    BY <1>4, <1>5, <1>8 DEF LocalOK
  <1>10. n \notin stale' => SaneOK(c, w, e)
    BY <1>2, <1>5, <1>8 DEF SaneOK, history
  <1>11. reordered' = {} => SavedOK(r, e)
    BY <1>2, <1>4, <1>5, <1>8 DEF SavedOK, InStore, history
  <1>12. Holds(crashes', reordered', c, e, b)
    <2>1. reordered = {} => InStore(d, b)
      BY <1>1, <1>3, <1>5 DEF SavedOK
    <2> QED
      BY <1>2, <1>5, <1>8, <2>1 DEF Holds, InStore, history
  <1>13. b.index \in Nat /\ b.index > 0 /\ BlockOK(b)
    BY <1>5, LinkedProps, StoreAssumption
  <1>14. b \in Out \/ b.validator = n
    BY <1>5, <1>13 DEF ForeignIn
  <1>15. ASSUME NEW m \in posts'
         PROVE  PostTyped(m) /\ (m.type = "block" => m.body \in Out \/ m.body = b)
    <2>1. CASE m \in posts
      BY <2>1 DEF IInv, NetTyped, Out
    <2>2. CASE m \in PostAll("block", n, peers[n], b)
      <3>1. m.type = "block" /\ m.from = n /\ m.to \in peers[n] /\ m.body = b
        BY <2>2, PostAllProps
      <3>2. peers[n] \subseteq Nodes
        BY DEF IInv, NetTyped
      <3> QED
        BY <1>13, <3>1, <3>2 DEF PostTyped
    <2> QED
      BY <1>1, <1>3, <2>1, <2>2
  <1>16. PostsFit(n, c, e)
    BY <1>12, <1>14, <1>15 DEF PostsFit
  <1>17. ForeignIn(n, c, e) \subseteq Out
    BY <1>5, <1>8 DEF ForeignIn
  <1>18. Keeps(n, c, e)
    BY <1>2, <1>3, <1>8 DEF Keeps, Holds, InStore, history
  <1>19. NetTyped'
    BY <1>2, <1>15 DEF IInv, NetTyped
  <1> QED
    BY <1>5, <1>6, <1>7, <1>9, <1>10, <1>11, <1>16, <1>17, <1>18, <1>19, OneNodeMoves

\* The invariant is inductive: one lemma per action.
LEMMA NextInv == IInv /\ [Next]_vars => IInv'
  <1> SUFFICES ASSUME IInv, [Next]_vars PROVE IInv'
    OBVIOUS
  <1>1. ASSUME NEW n \in Nodes, Start(n) \/ FirstStartDies(n) \/ Crash(n) PROVE IInv'
    BY <1>1, FirstStartInv, RestartInv, FirstStartDiesInv, CrashInv DEF Start
  <1>2. ASSUME NEW n \in Nodes, Receive(n) PROVE IInv'
    BY <1>2, ReceiveBlockInv, ReceiveTxInv, ReceiveJoinInv DEF Receive
  <1>3. ASSUME NEW n \in Nodes, Propose(n) \/ Save(n) PROVE IInv'
    BY <1>3, ProposeInv, SaveBlockInv, ReadStateInv, SaveStateInv DEF Save
  <1>4. ASSUME NEW n \in Nodes, SubmitTx(n) \/ AddToPool(n) PROVE IInv'
    BY <1>4, SubmitTxInv, AddToPoolInv
  <1>5. ASSUME NEW m \in posts, Lose(m) PROVE IInv'
    BY <1>5, LoseInv
  <1>6. CASE UNCHANGED vars
    <2>1. /\ UNCHANGED <<mem, store, history>>
          /\ UNCHANGED <<pool, adding, issued, peers, posts, lost>>
      BY <1>6 DEF vars, txVars, netVars
    <2>2. \A m \in posts' : PostTyped(m) /\ (m.type = "block" => m.body \in Out)
      BY <2>1, FewerPosts
    <2>3. NetTyped'
      BY <2>1, <2>2 DEF IInv, NetTyped
    <2> QED
      BY <2>1, <2>2, <2>3, NodesUnmoved
  <1> QED
    BY <1>1, <1>2, <1>3, <1>4, <1>5, <1>6 DEF Next

\* In every reachable state chains are linked and states sound, those of nodes
\* that never started stale are sound chains with their states, and until both
\* a crash and saves out of order happened a validator has what others have of
\* its blocks.
THEOREM Invariance == Spec => []IInv
  <1> QED
    BY InitInv, NextInv, PTL DEF Spec

-----------------------------------------------------------------------------
(* What the invariant implies *)

\* The invariant has the types.
LEMMA InvTypeOK == IInv => TypeOK
  <1> SUFFICES ASSUME IInv PROVE TypeOK
    OBVIOUS
  <1>1. ASSUME NEW n \in Nodes
        PROVE  /\ ValidateChain(chain[n]) /\ Len(chain[n]) <= MaxHeight + 1
               /\ world[n] \in State /\ store[n].state \in State
               /\ store[n].height >= 0 => store[n].blocks[store[n].height] # NoBlock
               /\ \A k \in saving[n] : TaskOK(k, chain[n])
               /\ pool[n] \subseteq Txs /\ peers[n] \subseteq Nodes
    <2>1. LocalOK(chain[n], world[n], saving[n], store[n])
      BY DEF IInv, NodesOK, Local
    <2>2. ValidateChain(chain[n]) /\ Len(chain[n]) <= MaxHeight + 1
      BY <2>1 DEF LocalOK, Linked, ValidateChain
    <2>3. world[n] \in State /\ StoreOK(store[n]) /\ \A k \in saving[n] : TaskOK(k, chain[n])
      BY <2>1 DEF LocalOK, SoundState
    <2>4. store[n].state \in State
          /\ (store[n].height >= 0 => store[n].blocks[store[n].height] # NoBlock)
      BY <2>3 DEF StoreOK, SoundState
    <2> QED
      BY <2>2, <2>3, <2>4 DEF IInv, NetTyped
  <1>2. \A m \in posts : [type |-> m.type, from |-> m.from, to |-> m.to] \in Post
    BY DEF IInv, NetTyped, PostTyped, Post
  <1>3. \A n \in Nodes : \A k \in saving[n] :
            /\ k.block.index < Len(chain[n]) /\ chain[n][k.block.index + 1] = k.block
            /\ k.pc \in {"saveBlock", "saveState", "flush"} /\ k.by \in {"loop", "handler"}
    BY <1>1 DEF TaskOK, InChain
  <1> QED
    BY <1>1, <1>2, <1>3 DEF TypeOK, IInv, NetTyped, HistoryOK

\* Chains and stores are linked, tasks save blocks of their node's chain, and
\* posts go from node to node, for any number of crashes and lost posts and any
\* order of saves.
THEOREM TypeCorrect == Spec => []TypeOK
  <1> QED
    BY Invariance, InvTypeOK, PTL

-----------------------------------------------------------------------------
(* Agreement *)

\* The clock gives every node the same genesis block.
OneGenesis == \A s, t \in Clock : s = t

\* There is one block of a height that others have than its validator: the one
\* that the validator, whose turn the height was, has itself.
LEMMA OutUnique ==
    ASSUME IInv, Calm, NEW a \in Out, NEW b \in Out, a.index = b.index
    PROVE  a = b
  <1>1. PICK v \in Nodes : v = a.validator
    BY OutProps
  <1>2. b.validator = v
    BY <1>1, OutProps DEF BlockOK
  <1>3. /\ Holds(crashes, reordered, chain[v], store[v], a)
        /\ Holds(crashes, reordered, chain[v], store[v], b)
    BY <1>1, <1>2 DEF IInv, Backed
  <1>4. CASE chain[v] # <<>>
    <2>1. InChain(chain[v], a) /\ InChain(chain[v], b)
      BY <1>3, <1>4 DEF Holds
    <2> QED
      BY <2>1 DEF InChain
  <1>5. CASE chain[v] = <<>>
    <2>1. reordered = {}
      BY <1>3, <1>5 DEF Holds, Calm
    <2>2. InStore(store[v], a) /\ InStore(store[v], b)
      BY <1>3, <2>1 DEF Holds
    <2> QED
      BY <2>2 DEF InStore
  <1> QED
    BY <1>4, <1>5

\* A block above genesis of a chain is with others, or its node made it.
LEMMA OutOrOwn ==
    ASSUME IInv, NEW n \in Nodes, NEW i \in 2 .. Len(chain[n])
    PROVE  /\ chain[n][i].index = i - 1 /\ BlockOK(chain[n][i])
           /\ chain[n][i] \in Out \/ chain[n][i].validator = n
  <1>1. PICK c, b : c = chain[n] /\ b = c[i]
    OBVIOUS
  <1>2. Linked(c)
    BY <1>1 DEF IInv, NodesOK, Local, LocalOK
  <1>3. Len(c) \in Nat /\ DOMAIN c = 1 .. Len(c)
    BY <1>2, LinkedProps
  <1>4. i \in 1 .. Len(c) /\ i # 1
    BY <1>1, <1>3
  <1>5. b.index = i - 1 /\ BlockOK(b)
    BY <1>1, <1>2, <1>4, LinkedProps
  <1>6. b \in Range(c) /\ b.index > 0
    BY <1>1, <1>3, <1>4, <1>5 DEF Range
  <1>7. b \in Out \/ b.validator = n
    BY <1>1, <1>6 DEF ForeignIn, Out
  <1> QED
    BY <1>1, <1>5, <1>7

\* A chain does not contradict a block that others have.
LEMMA ChainAgainstOut ==
    ASSUME IInv, Calm, NEW n \in Nodes, NEW b \in Out, b.index < Len(chain[n])
    PROVE  chain[n][b.index + 1] = b
  <1>1. BlockOK(b) /\ b.index \in Nat \ {0}
    BY OutProps, StoreAssumption DEF BlockOK
  <1>2. Linked(chain[n])
    BY DEF IInv, NodesOK, Local, LocalOK
  <1>3. Len(chain[n]) \in Nat /\ chain[n] # <<>>
    BY <1>1, <1>2, LinkedProps
  <1>4. PICK i \in 2 .. Len(chain[n]) : i = b.index + 1
    BY <1>1, <1>3
  <1>5. PICK a : a = chain[n][i]
    OBVIOUS
  <1>6. a.index = i - 1 /\ BlockOK(a) /\ (a \in Out \/ a.validator = n)
    BY <1>5, OutOrOwn
  <1>7. a.index = b.index
    BY <1>1, <1>4, <1>6
  <1>8. CASE a \in Out
    BY <1>4, <1>5, <1>7, <1>8, OutUnique
  <1>9. CASE a.validator = n
    <2>1. b.validator = n
      BY <1>1, <1>6, <1>7, <1>9 DEF BlockOK
    <2>2. Holds(crashes, reordered, chain[n], store[n], b)
      BY <2>1 DEF IInv, Backed
    <2> QED
      BY <1>3, <2>2 DEF Holds, InChain
  <1> QED
    BY <1>6, <1>8, <1>9

\* Chains from one genesis block hold the same block at a height.
LEMMA ChainsAgree ==
    ASSUME IInv, Calm, OneGenesis, NEW n \in Nodes, NEW m \in Nodes,
           NEW i \in Nat \ {0}, i <= Len(chain[n]), i <= Len(chain[m])
    PROVE  chain[n][i] = chain[m][i]
  <1>1. Linked(chain[n]) /\ Linked(chain[m])
    BY DEF IInv, NodesOK, Local, LocalOK
  <1>2. Len(chain[n]) \in Nat /\ Len(chain[m]) \in Nat
    BY <1>1, LinkedProps
  <1>3. CASE i = 1
    <2>1. At(chain[n][1], 0) /\ At(chain[m][1], 0)
      BY <1>1, <1>2, <1>3 DEF Linked
    <2> QED
      BY <1>3, <2>1 DEF At, OneGenesis
  <1>4. CASE i # 1
    <2>1. i \in 2 .. Len(chain[n]) /\ i \in 2 .. Len(chain[m])
      BY <1>2, <1>4
    <2>2. PICK a, b : a = chain[n][i] /\ b = chain[m][i]
      OBVIOUS
    <2>3. /\ a.index = i - 1 /\ BlockOK(a) /\ (a \in Out \/ a.validator = n)
          /\ b.index = i - 1 /\ BlockOK(b) /\ (b \in Out \/ b.validator = m)
      BY <2>1, <2>2, OutOrOwn
    <2>4. a.index < Len(chain[n]) /\ a.index < Len(chain[m])
          /\ a.index + 1 = i /\ b.index + 1 = i
      BY <1>2, <2>1, <2>3
    <2>5. CASE a \in Out
      <3>1. chain[m][a.index + 1] = a
        BY <2>4, <2>5, ChainAgainstOut
      <3> QED
        BY <2>2, <2>4, <3>1
    <2>6. CASE b \in Out
      <3>1. b.index < Len(chain[n])
        BY <2>3, <2>4
      <3>2. chain[n][b.index + 1] = b
        BY <2>6, <3>1, ChainAgainstOut
      <3> QED
        BY <2>2, <2>4, <3>2
    <2>7. CASE a.validator = n /\ b.validator = m
      <3>1. n = m
        BY <2>3, <2>7 DEF BlockOK
      <3> QED
        BY <3>1
    <2> QED
      BY <2>3, <2>5, <2>6, <2>7
  <1> QED
    BY <1>3, <1>4

\* So of two chains one is the beginning of the other, and no post contradicts
\* a chain.
LEMMA InvAgreement == OneGenesis /\ IInv => Agreement
  <1> SUFFICES ASSUME OneGenesis, IInv, Calm
               PROVE  /\ \A c, d \in Range(chain) : IsPrefix(c, d) \/ IsPrefix(d, c)
                      /\ \A m \in posts, c \in Range(chain) :
                            m.type = "block" /\ m.body.index < Len(c)
                                => c[m.body.index + 1] = m.body
    BY DEF Agreement, Calm
  <1>1. ASSUME NEW c \in Range(chain) PROVE \E n \in Nodes : c = chain[n]
    <2>1. DOMAIN chain = Nodes
      BY DEF IInv, MemTyped
    <2> QED
      BY <2>1 DEF Range
  <1>2. ASSUME NEW n \in Nodes PROVE IsSeq(chain[n]) /\ Len(chain[n]) \in Nat
    BY LinkedProps DEF IInv, NodesOK, Local, LocalOK
  <1>3. ASSUME NEW n \in Nodes, NEW m \in Nodes, Len(chain[n]) <= Len(chain[m])
        PROVE  IsPrefix(chain[n], chain[m])
    <2>1. /\ IsSeq(chain[n]) /\ IsSeq(chain[m])
          /\ Len(chain[n]) \in Nat /\ Len(chain[m]) \in Nat
      BY <1>2
    <2>2. \A i \in 1 .. Len(chain[n]) : chain[n][i] = chain[m][i]
      <3> SUFFICES ASSUME NEW i \in 1 .. Len(chain[n]) PROVE chain[n][i] = chain[m][i]
        OBVIOUS
      <3>1. i \in Nat \ {0} /\ i <= Len(chain[n]) /\ i <= Len(chain[m])
        BY <1>3, <2>1
      <3> QED
        BY <3>1, ChainsAgree
    <2> QED
      BY <1>3, <2>1, <2>2, PrefixProps
  <1>4. \A c, d \in Range(chain) : IsPrefix(c, d) \/ IsPrefix(d, c)
    <2> SUFFICES ASSUME NEW c \in Range(chain), NEW d \in Range(chain)
                 PROVE  IsPrefix(c, d) \/ IsPrefix(d, c)
      OBVIOUS
    <2>1. PICK n \in Nodes : c = chain[n]
      BY <1>1
    <2>2. PICK m \in Nodes : d = chain[m]
      BY <1>1
    <2>3. Len(chain[n]) <= Len(chain[m]) \/ Len(chain[m]) <= Len(chain[n])
      BY <1>2
    <2> QED
      BY <1>3, <2>1, <2>2, <2>3
  <1>5. ASSUME NEW m \in posts, NEW c \in Range(chain), m.type = "block",
               m.body.index < Len(c)
        PROVE  c[m.body.index + 1] = m.body
    <2>1. PICK n \in Nodes : c = chain[n]
      BY <1>1
    <2>2. m.body \in Out
      BY <1>5 DEF Out
    <2> QED
      BY <1>5, <2>1, <2>2, ChainAgainstOut
  <1> QED
    BY <1>4, <1>5

\* The nodes do not fork, whatever is lost or late, until both a process has
\* crashed and a block was saved after a later one: when their clocks give them
\* one genesis block, of any two chains one is the beginning of the other, and
\* so is any block under way.
THEOREM NodesAgree == OneGenesis => (Spec => []Agreement)
  <1> SUFFICES ASSUME OneGenesis PROVE Spec => []Agreement
    OBVIOUS
  <1>1. IInv => Agreement
    BY InvAgreement
  <1> QED
    BY <1>1, Invariance, PTL

-----------------------------------------------------------------------------
(* Refinement: without crashes the longest chain is that of AtomicChain *)

\* AtomicChain applies the operators of Blocks through an instance of its own:
\* they are the same operators.
LEMMA ChainApply ==
    ASSUME NEW tx, NEW s
    PROVE  Chain!ApplyTransaction(tx, s) = ApplyTransaction(tx, s)
  BY Zenon
     DEF Chain!ApplyTransaction, ApplyTransaction, Chain!Credit, Credit, Chain!Wrap, Wrap,
         Chain!Spend, Spend, Chain!Reduced, Reduced, Chain!SetLock, SetLock,
         Chain!PayOut, PayOut, Chain!ApplyTransfer, ApplyTransfer,
         Chain!ApplyLock, ApplyLock, Chain!ApplyRelease, ApplyRelease,
         Chain!ApplyRefund, ApplyRefund, Chain!ApplyFreeze, ApplyFreeze,
         Chain!ApplyArbitrate, ApplyArbitrate

\* The rules of transactions are the same in AtomicChain.
LEMMA ChainValidate ==
    ASSUME NEW tx, NEW s
    PROVE  Chain!ValidateTransaction(tx, s) = ValidateTransaction(tx, s)
  BY DEF Chain!ValidateTransaction, ValidateTransaction, Chain!GetLock, GetLock,
         Chain!VerifySignature, VerifySignature, Chain!NoLock, NoLock,
         Chain!CheckSenderFunds, CheckSenderFunds, Chain!LockValid, LockValid,
         Chain!ReleaseValid, ReleaseValid, Chain!RefundValid, RefundValid,
         Chain!FreezeValid, FreezeValid, Chain!ArbitrateValid, ArbitrateValid

\* And so are those of blocks.
LEMMA ChainRun ==
    ASSUME NEW txs, NEW s
    PROVE  /\ Chain!Run(txs, s) = Run(txs, s)
           /\ Chain!ValidRun(txs, s) = ValidRun(txs, s)
           /\ Chain!NewState(s) = NewState(s)
  <1>1. \A t, r : Chain!Run(t, r) = Run(t, r)
    BY Zenon, ChainApply
       DEF Chain!Run, Run, Chain!FoldLeft, FoldLeft,
           Chain!MapThenFoldSet, MapThenFoldSet, Chain!Max, Max
  <1>2. Chain!ValidRun(txs, s) = ValidRun(txs, s)
    BY Zenon, <1>1, ChainValidate DEF Chain!ValidRun, ValidRun
  <1>3. Chain!NewState(s) = NewState(s)
    BY Zenon DEF Chain!NewState, NewState, Chain!Account, Account, Chain!NoLock, NoLock
  <1> QED
    BY <1>1, <1>2, <1>3

LongestOf(d) == CHOOSE c \in Range(d) : \A n \in Nodes : Len(d[n]) <= Len(c)

\* Chains no longer than a bound have a longest among them.
LEMMA LongestMax ==
    ASSUME NEW d, DOMAIN d = Nodes,
           \A n \in Nodes : IsSeq(d[n]) /\ Len(d[n]) <= MaxHeight + 1
    PROVE  /\ \E n \in Nodes : LongestOf(d) = d[n]
           /\ \A n \in Nodes : Len(d[n]) <= Len(LongestOf(d))
  <1> DEFINE S == {k \in Nat : \A n \in Nodes : Len(d[n]) <= k}
  <1>1. \A n \in Nodes : Len(d[n]) \in Nat
    BY SeqProps
  <1>2. MaxHeight + 1 \in S
    BY StoreAssumption
  <1>3. PICK k \in S : \A j \in S : k <= j
    <2>1. S \subseteq Nat /\ S # {}
      BY <1>2
    <2> HIDE DEF S
    <2> QED
      BY <2>1, TxFold!LeastNumber
  <1>4. \E n \in Nodes : Len(d[n]) = k
    <2> SUFFICES ASSUME \A n \in Nodes : Len(d[n]) # k PROVE FALSE
      OBVIOUS
    <2>1. ProposerForHeight(0) \in Nodes
      BY ProposerIsNode
    <2>2. k # 0
      BY <1>1, <1>3, <2>1
    <2>3. k - 1 \in S
      BY <1>1, <1>3, <2>2
    <2>4. k \in Nat
      BY <1>3
    <2> HIDE DEF S
    <2>5. k <= k - 1
      BY <1>3, <2>3
    <2> QED
      BY <2>4, <2>5
  <1>5. PICK n \in Nodes : Len(d[n]) = k
    BY <1>4
  <1>6. d[n] \in Range(d) /\ \A m \in Nodes : Len(d[m]) <= Len(d[n])
    BY <1>3, <1>5 DEF Range
  <1>7. LongestOf(d) \in Range(d) /\ \A m \in Nodes : Len(d[m]) <= Len(LongestOf(d))
    BY <1>6 DEF LongestOf
  <1> QED
    BY <1>7 DEF Range

\* Of chains that do not fork one that no other is longer than is the longest.
LEMMA IsLongest ==
    ASSUME NEW d, DOMAIN d = Nodes,
           \A n \in Nodes : IsSeq(d[n]) /\ Len(d[n]) <= MaxHeight + 1,
           \A c, e \in Range(d) : IsPrefix(c, e) \/ IsPrefix(e, c),
           NEW m \in Nodes, \A n \in Nodes : Len(d[n]) <= Len(d[m])
    PROVE  LongestOf(d) = d[m]
  <1>1. PICK n \in Nodes : LongestOf(d) = d[n]
    BY LongestMax
  <1>2. \A k \in Nodes : Len(d[k]) \in Nat
    BY SeqProps
  <1>3. Len(d[m]) <= Len(d[n])
    BY <1>1, LongestMax
  <1>4. Len(d[n]) = Len(d[m])
    BY <1>2, <1>3
  <1>5. IsPrefix(d[n], d[m]) \/ IsPrefix(d[m], d[n])
    BY DEF Range
  <1>6. \A i \in 1 .. Len(d[n]) : d[n][i] = d[m][i]
    BY <1>4, <1>5, PrefixProps
  <1> QED
    BY <1>1, <1>4, <1>6, EqualSeqs

\* No process dies.
NoCrashes == MaxCrashes = 0

\* Then every node has a chain of valid blocks and the state they leave.
LEMMA NeverStale ==
    ASSUME NoCrashes, IInv
    PROVE  /\ crashes = 0 /\ Calm /\ DOMAIN chain = Nodes
           /\ \A n \in Nodes :
                /\ Sound(chain[n]) /\ world[n] = Replay(chain[n])
                /\ IsSeq(chain[n]) /\ Len(chain[n]) <= MaxHeight + 1
                /\ Len(chain[n]) \in Nat
  <1>1. crashes \in 0 .. 0 /\ (crashes = 0 => stale = {})
    BY DEF IInv, HistoryOK, NoCrashes
  <1>2. crashes = 0 /\ stale = {}
    BY <1>1
  <1>3. \A n \in Nodes : SaneOK(chain[n], world[n], store[n])
    BY <1>2 DEF IInv, NodesOK, Sane
  <1>4. ASSUME NEW n \in Nodes
        PROVE  IsSeq(chain[n]) /\ Len(chain[n]) <= MaxHeight + 1 /\ Len(chain[n]) \in Nat
    BY LinkedProps DEF IInv, NodesOK, Local, LocalOK, Linked
  <1>5. DOMAIN chain = Nodes
    BY DEF IInv, MemTyped
  <1> QED
    BY <1>2, <1>3, <1>4, <1>5 DEF Calm, SaneOK

\* After a step, too, the chains are sequences that do not fork.
LEMMA NoFork ==
    ASSUME NoCrashes, IInv', Agreement'
    PROVE  /\ DOMAIN chain' = Nodes
           /\ \A n \in Nodes : IsSeq(chain'[n]) /\ Len(chain'[n]) <= MaxHeight + 1
           /\ \A c, e \in Range(chain') : IsPrefix(c, e) \/ IsPrefix(e, c)
  <1>1. crashes' = 0
    BY DEF IInv, HistoryOK, NoCrashes
  <1> QED
    BY <1>1 DEF Agreement, IInv, MemTyped, NodesOK, Local, LocalOK, Linked

\* The longest chain is that of a node.
LEMMA LongestIs ==
    ASSUME NoCrashes, IInv
    PROVE  \E n \in Nodes :
                /\ Longest = chain[n]
                /\ \A m \in Nodes : Len(chain[m]) <= Len(chain[n])
  <1>1. Longest = LongestOf(chain)
    BY DEF Longest, LongestOf
  <1> QED
    BY <1>1, NeverStale, LongestMax

\* A step that changes no chain is a stutter.
LEMMA Stutters ==
    ASSUME UNCHANGED chain
    PROVE  UNCHANGED Chain!vars
  BY DEF Chain!vars, Longest

\* When the chain of n becomes e and some other is as long as e, the longest
\* chain is still the longest.
LEMMA BehindLongest ==
    ASSUME NEW n \in Nodes, NEW e, NoCrashes, IInv, IInv', Agreement',
           chain' = [chain EXCEPT ![n] = e], Len(chain[n]) < Len(e), Len(e) <= Len(Longest)
    PROVE  UNCHANGED Chain!vars
  <1>1. DOMAIN chain = Nodes /\ \A m \in Nodes : Len(chain[m]) \in Nat
    BY NeverStale
  <1>2. Longest' = LongestOf(chain')
    BY DEF Longest, LongestOf
  <1>3. PICK m \in Nodes : /\ Longest = chain[m]
                           /\ \A k \in Nodes : Len(chain[k]) <= Len(chain[m])
    BY LongestIs
  <1>4. chain'[n] = e /\ \A k \in Nodes \ {n} : chain'[k] = chain[k]
    BY <1>1
  <1>5. Len(e) \in Nat
    BY <1>4, LinkedProps DEF IInv, NodesOK, Local, LocalOK
  <1>6. m # n
    BY <1>1, <1>3, <1>5
  <1>7. chain'[m] = chain[m] /\ \A k \in Nodes : Len(chain'[k]) <= Len(chain'[m])
    BY <1>3, <1>4, <1>6
  <1>8. LongestOf(chain') = chain'[m]
    BY <1>7, NoFork, IsLongest
  <1>9. Longest' = Longest
    BY <1>2, <1>3, <1>7, <1>8
  <1> QED
    BY <1>9 DEF Chain!vars

\* The first genesis block begins the abstract chain; later ones are the
\* same block.
LEMMA FirstStartBegins ==
    ASSUME NEW n \in Nodes, NoCrashes, IInv, IInv', Agreement', FirstStart(n)
    PROVE  Chain!Begin \/ UNCHANGED Chain!vars
  <1>1. PICK t \in Clock : chain' = [chain EXCEPT ![n] = <<GenesisBlock(t)>>]
    BY DEF FirstStart
  <1>2. PICK b, g : b = GenesisBlock(t) /\ g = <<b>>
    OBVIOUS
  <1>3. /\ Len(g) = 1 /\ g[1] = b /\ g # <<>> /\ Replay(g) = NewState(Allocations)
        /\ b = GenesisBlock(b.time)
    BY <1>2, GenesisSound DEF GenesisBlock, Block
  <1>4. DOMAIN chain = Nodes /\ \A m \in Nodes : Len(chain[m]) \in Nat
    BY NeverStale
  <1>5. chain'[n] = g /\ \A k \in Nodes \ {n} : chain'[k] = chain[k]
    BY <1>1, <1>2, <1>4
  <1>6. PICK m \in Nodes : /\ Longest = chain[m]
                           /\ \A k \in Nodes : Len(chain[k]) <= Len(chain[m])
    BY LongestIs
  <1>7. CASE Longest = <<>>
    <2>1. \A k \in Nodes : Len(chain[k]) = 0
      BY <1>4, <1>6, <1>7, EmptyIsSeq
    <2>2. \A k \in Nodes : Len(chain'[k]) <= Len(chain'[n])
      BY <1>3, <1>5, <2>1
    <2>3. Longest' = g
      BY <1>5, <2>2, NoFork, IsLongest DEF Longest, LongestOf
    <2>4. Replay(Longest)' = NewState(Allocations)
      BY <1>3, <2>3
    <2>5. Chain!GenesisBlock(b.time) = b
      BY <1>3 DEF Chain!GenesisBlock, GenesisBlock, Chain!Block, Block
    <2> QED
      BY <1>3, <1>7, <2>3, <2>4, <2>5, ChainRun DEF Chain!Begin
  <1>8. CASE Longest # <<>>
    <2>1. Len(chain[n]) = 0
      BY EmptyIsSeq DEF FirstStart, Up
    <2>2. Len(Longest) # 0 /\ Len(Longest) \in Nat
      BY <1>4, <1>6, <1>8, NeverStale, SeqProps
    <2>3. Len(chain[n]) < Len(g) /\ Len(g) <= Len(Longest)
      BY <1>3, <2>1, <2>2
    <2>4. chain' = [chain EXCEPT ![n] = g]
      BY <1>1, <1>2
    <2> QED
      BY <2>3, <2>4, BehindLongest
  <1> QED
    BY <1>7, <1>8

\* The node that commits a block of a new height extends the abstract chain,
\* by a block that is valid there; the others do not show.
LEMMA CommitExtends ==
    ASSUME NEW n \in Nodes, NEW b, NoCrashes, IInv, IInv', Agreement, Agreement',
           Up(n), Acceptable(b, n), BlockOK(b),
           chain' = [chain EXCEPT ![n] = Append(@, b)]
    PROVE  Chain!Extend \/ UNCHANGED Chain!vars
  <1>1. PICK c, w, e, j : /\ c = chain[n] /\ w = world[n]
                          /\ e = Append(c, b) /\ j = Len(c) + 1
    OBVIOUS
  <1>2. Sound(c) /\ w = Replay(c) /\ c # <<>>
    BY <1>1, NeverStale DEF Up
  <1>3. Linked(c)
    BY <1>2 DEF Sound
  <1>4. PICK k \in Nat \ {0} : k = Len(c)
    BY <1>2, <1>3, LinkedProps
  <1>5. b.index = k /\ b.prev = <<c[k]>> /\ b.validator = ProposerForHeight(k)
        /\ ValidRun(b.txs, Replay(c))
    <2>1. /\ b.index = Len(c) /\ b.prev = <<c[Len(c)]>>
          /\ b.validator = ProposerForHeight(Len(c)) /\ ValidRun(b.txs, world[n])
      BY <1>1, <1>2, <1>3, NextBlock
    <2> QED
      BY <1>1, <1>2, <1>4, <2>1
  <1>6. k <= MaxHeight
    BY <1>5 DEF BlockOK
  <1>7. OneLonger(c, b, e, j)
    BY <1>1 DEF OneLonger
  <1>8. /\ Linked(e) /\ Len(e) = j /\ e[j] = b /\ e # <<>> /\ j \in Nat
        /\ \A i \in 1 .. k : e[i] = c[i]
    BY <1>3, <1>4, <1>5, <1>6, <1>7, ExtendLinked
  <1>9. Sound(e) /\ Replay(e) = Run(b.txs, Replay(c))
    BY <1>2, <1>4, <1>5, <1>7, <1>8, ExtendSound
  <1>10. DOMAIN chain = Nodes /\ \A m \in Nodes : Len(chain[m]) \in Nat
    BY NeverStale
  <1>11. chain' = [chain EXCEPT ![n] = e]
    BY <1>1, <1>10
  <1>12. chain'[n] = e /\ \A m \in Nodes \ {n} : chain'[m] = chain[m]
    BY <1>10, <1>11
  <1>13. PICK m \in Nodes : /\ Longest = chain[m]
                            /\ \A i \in Nodes : Len(chain[i]) <= Len(chain[m])
    BY LongestIs
  <1>14. j = k + 1
    BY <1>1, <1>4
  <1>15. CASE j <= Len(Longest)
    <2>1. Len(chain[n]) < Len(e) /\ Len(e) <= Len(Longest)
      BY <1>1, <1>4, <1>8, <1>14, <1>15
    <2> QED
      BY <1>11, <2>1, BehindLongest
  <1>16. CASE ~ (j <= Len(Longest))
    <2>1. Len(chain[m]) = Len(chain[n])
      BY <1>1, <1>4, <1>10, <1>13, <1>14, <1>16
    <2>2. Longest = c
      <3>1. \A x, y \in Range(chain) : IsPrefix(x, y) \/ IsPrefix(y, x)
        BY NeverStale DEF Agreement
      <3>2. \A i \in Nodes : Len(chain[i]) <= Len(chain[n])
        BY <1>13, <2>1
      <3> QED
        BY <1>1, <3>1, <3>2, NeverStale, IsLongest DEF Longest, LongestOf
    <2>3. \A i \in Nodes : Len(chain'[i]) <= Len(chain'[n])
      BY <1>1, <1>4, <1>8, <1>10, <1>12, <1>13, <1>14, <2>1
    <2>4. Longest' = e
      <3>1. LongestOf(chain') = chain'[n]
        BY <2>3, NoFork, IsLongest
      <3> QED
        BY <1>12, <3>1 DEF Longest, LongestOf
    <2>5. IsSeq(c) /\ IsSeq(e)
      BY <1>3, <1>8, LinkedProps
    <2>6. Chain!IsPrefix(c, e)
      <3>1. IsPrefix(c, e)
        BY <1>4, <1>8, <1>14, <2>5, PrefixProps
      <3> QED
        BY <3>1 DEF Chain!IsPrefix, IsPrefix
    <2>7. Chain!Last(e) = b /\ Chain!Last(c) = c[k]
      BY <1>4, <1>8 DEF Chain!Last
    <2>8. c[k].index = k - 1
      BY <1>3, <1>4, LinkedProps
    <2>9. Chain!ValidateBlock(b, c[k])
      BY <1>4, <1>5, <2>8 DEF Chain!ValidateBlock
    <2>10. b.validator = Validators[(b.index % Len(Validators)) + 1]
      BY <1>5 DEF ProposerForHeight
    <2>11. Len(b.txs) <= MaxTxsPerBlock
      BY DEF BlockOK
    <2>12. Replay(Longest)' = Run(b.txs, Replay(Longest))
      BY <1>9, <2>2, <2>4
    <2>13. Len(Longest') = Len(Longest) + 1 /\ Longest # <<>>
      BY <1>2, <1>4, <1>8, <1>14, <2>2, <2>4
    <2>14. /\ Chain!Last(Longest') = b /\ Chain!Last(Longest) = c[k]
           /\ Chain!IsPrefix(Longest, Longest')
      BY <2>2, <2>4, <2>6, <2>7
    <2>15. Chain!ValidRun(b.txs, Replay(Longest))
           /\ Replay(Longest)' = Chain!Run(b.txs, Replay(Longest))
      BY <1>5, <2>2, <2>12, ChainRun
    <2>16. Chain!Extend
      BY <2>9, <2>10, <2>11, <2>13, <2>14, <2>15 DEF Chain!Extend
    <2> QED
      BY <2>16
  <1> QED
    BY <1>15, <1>16

\* Every step is one of AtomicChain or does not show there.
LEMMA StepRefines ==
    ASSUME NoCrashes, IInv, IInv', Agreement, Agreement', [Next]_vars
    PROVE  [Chain!Next]_(Chain!vars)
  <1>1. ASSUME NEW n \in Nodes, FirstStart(n) PROVE [Chain!Next]_(Chain!vars)
    BY <1>1, FirstStartBegins DEF Chain!Next
  <1>2. ASSUME NEW n \in Nodes PROVE ~ Restart(n)
    <2> SUFFICES ASSUME chain[n] = <<>> PROVE ~ (store[n].height >= 0)
      BY DEF Restart, Up
    <2>1. Local(n) /\ crashes = 0
      BY NeverStale DEF IInv, NodesOK
    <2>2. store[n].height < 0 /\ store[n].height \in Int
      BY <2>1, StoreProps DEF Local, LocalOK
    <2> QED
      BY <2>2
  <1>3. ASSUME NEW n \in Nodes PROVE ~ Crash(n)
    BY NeverStale DEF Crash, NoCrashes
  <1>4. ASSUME NEW n \in Nodes, NEW b, Up(n), Acceptable(b, n), BlockOK(b),
               NEW by, Commit(n, b, by)
        PROVE  [Chain!Next]_(Chain!vars)
    BY <1>4, CommitExtends DEF Commit, Chain!Next
  <1>5. ASSUME NEW n \in Nodes, Propose(n) PROVE [Chain!Next]_(Chain!vars)
    BY <1>4, <1>5, ProposalProps DEF Propose
  <1>6. ASSUME NEW n \in Nodes, ReceiveBlock(n) PROVE [Chain!Next]_(Chain!vars)
    <2>1. PICK m \in posts : /\ m.type = "block"
                             /\ IF Acceptable(m.body, n) THEN Commit(n, m.body, "handler")
                                ELSE UNCHANGED <<mem, pool>>
      BY <1>6 DEF ReceiveBlock, PostsTo
    <2>2. BlockOK(m.body)
      BY <2>1 DEF IInv, NetTyped, PostTyped
    <2>3. CASE Acceptable(m.body, n)
      BY <1>4, <1>6, <2>1, <2>2, <2>3 DEF ReceiveBlock
    <2>4. CASE ~ Acceptable(m.body, n)
      BY <2>1, <2>4, Stutters DEF mem
    <2> QED
      BY <2>3, <2>4
  <1>7. ASSUME UNCHANGED chain PROVE [Chain!Next]_(Chain!vars)
    BY <1>7, Stutters
  <1>8. ASSUME NEW n \in Nodes,
               FirstStartDies(n) \/ ReceiveTx(n) \/ ReceiveJoin(n) \/ Save(n)
               \/ SubmitTx(n) \/ AddToPool(n)
        PROVE  UNCHANGED chain
    BY <1>8 DEF FirstStartDies, ReceiveTx, ReceiveJoin, Save, SaveBlock, ReadState,
                SaveState, SubmitTx, AddToPool, mem
  <1>9. ASSUME NEW m \in posts, Lose(m) PROVE UNCHANGED chain
    BY <1>9 DEF Lose, mem
  <1>10. ASSUME UNCHANGED vars PROVE UNCHANGED chain
    BY <1>10 DEF vars, mem
  <1> QED
    BY <1>1, <1>2, <1>3, <1>5, <1>6, <1>7, <1>8, <1>9, <1>10 DEF Next, Start, Receive

\* No node runs: the abstract chain has no blocks.
LEMMA InitRefines ==
    ASSUME Init
    PROVE  Chain!Init
  <1>1. chain = [n \in Nodes |-> <<>>]
    BY DEF Init
  <1>2. \A n \in Nodes : IsSeq(chain[n]) /\ Len(chain[n]) <= MaxHeight + 1
    BY <1>1, EmptyIsSeq, StoreAssumption
  <1>3. Longest = LongestOf(chain)
    BY DEF Longest, LongestOf
  <1>4. Longest = <<>>
    BY <1>1, <1>2, <1>3, LongestMax
  <1>5. Replay(Longest) = EmptyState
    BY <1>4 DEF Replay
  <1>6. Chain!EmptyState = EmptyState
    BY ChainRun DEF Chain!EmptyState, EmptyState, Chain!Account, Account
  <1> QED
    BY <1>4, <1>5, <1>6 DEF Chain!Init

\* While no process dies the nodes together keep one chain, which grows a block
\* at a time and in which no block is ever replaced, whatever is lost or late,
\* when their clocks give them one genesis block.
THEOREM NetworkKeepsOneChain == OneGenesis /\ NoCrashes => (Spec => KeepsOneChain)
  <1> SUFFICES ASSUME OneGenesis, NoCrashes PROVE Spec => KeepsOneChain
    OBVIOUS
  <1>1. Init => Chain!Init
    BY InitRefines
  <1>2. IInv /\ IInv' /\ Agreement /\ Agreement' /\ [Next]_vars => [Chain!Next]_(Chain!vars)
    BY StepRefines
  <1>3. Spec => []Agreement
    BY NodesAgree
  <1> QED
    BY <1>1, <1>2, <1>3, Invariance, PTL DEF Spec, KeepsOneChain, Chain!Spec

-----------------------------------------------------------------------------
(* A spend is in a chain once *)

\* No client submits anything but transfers and locks: the transactions that
\* use up a nonce.
OnlySpends == \A tx \in Txs : tx.type \in {"TRANSFER", "LOCK"}

\* The chains of this module are chains of Blocks.
LEMMA SoundIsValid ==
    ASSUME NEW c, Sound(c), c # <<>>
    PROVE  ValidBlocks(c)
  <1>1. Linked(c) /\ IsSeq(c)
    BY DEF Sound, Linked
  <1>2. Len(c) \in Nat \ {0}
    BY <1>1, LinkedProps
  <1>3. c[1].txs = <<>>
    <2>1. PICK i \in 1 .. Len(c) : i = 1
      BY <1>2
    <2>2. At(c[i], i - 1)
      BY <1>1 DEF Linked
    <2>3. PICK t \in Clock : c[1] = GenesisBlock(t)
      BY <2>1, <2>2 DEF At
    <2>4. GenesisBlock(t).txs = <<>>
      BY DEF GenesisBlock, Block
    <2> QED
      BY <2>3, <2>4
  <1>4. ASSUME NEW i \in 2 .. Len(c)
        PROVE  c[i].txs \in Seq(Tx) /\ ValidRun(c[i].txs, Replay(SubSeq(c, 1, i - 1)))
    <2>1. i \in 1 .. Len(c) /\ i # 1
      BY <1>2
    <2>2. c[i].txs \in Seq(Txs)
      BY <1>1, <2>1, LinkedProps DEF BlockOK
    <2>3. c[i].txs \in Seq(Tx)
      BY <2>2, NetworkAssumption
    <2> QED
      BY <2>3 DEF Sound
  <1> QED
    BY <1>1, <1>3, <1>4 DEF ValidBlocks

\* The blocks of a chain that include a transaction.
Including(c, tx) == {i \in DOMAIN c : tx \in Range(c[i].txs)}

\* A set in which all elements are equal has at most one.
LEMMA AtMostOne ==
    ASSUME NEW S, \A x, y \in S : x = y
    PROVE  Cardinality(S) <= 1
  <1>1. CASE S = {}
    BY <1>1, FS_EmptySet
  <1>2. CASE S # {}
    <2>1. PICK x \in S : S = {x}
      BY <1>2
    <2> QED
      BY <2>1, FS_Singleton
  <1> QED
    BY <1>1, <1>2

\* A transaction that uses up a nonce is at most once in the chain of a node
\* that never started with another state than that of its blocks.
SpendsOnce ==
    \A n \in Nodes \ stale, tx \in Txs :
        IsSpend(tx) => Cardinality(Including(chain[n], tx)) <= 1

\* A transfer or lock of two blocks would be one whose nonce the earlier
\* block had used up.
LEMMA InvSpendsOnce == IInv => SpendsOnce
  <1> SUFFICES ASSUME IInv, NEW n \in Nodes \ stale, NEW tx \in Txs, IsSpend(tx)
               PROVE  Cardinality(Including(chain[n], tx)) <= 1
    BY DEF SpendsOnce
  <1>1. PICK c : c = chain[n]
    OBVIOUS
  <1>2. Sound(c) /\ Linked(c)
    BY <1>1 DEF IInv, NodesOK, Sane, SaneOK, Sound
  <1>3. Len(c) \in Nat /\ DOMAIN c = 1 .. Len(c) /\ (c = <<>> <=> Len(c) = 0)
    BY <1>2, LinkedProps
  <1>4. ASSUME NEW i \in Including(c, tx)
        PROVE  /\ i \in 2 .. Len(c) /\ ValidBlocks(c)
               /\ \E l \in 1 .. Len(c[i].txs) : tx = c[i].txs[l]
    <2>1. i \in 1 .. Len(c) /\ tx \in Range(c[i].txs)
      BY <1>3 DEF Including
    <2>2. ValidBlocks(c)
      BY <1>2, <1>3, <2>1, SoundIsValid
    <2>3. i # 1
      BY <2>1, <2>2, EmptyIsSeq DEF ValidBlocks
    <2>4. c[i].txs \in Seq(Txs)
      BY <1>2, <2>1, <2>3, LinkedProps DEF BlockOK
    <2>5. IsSeq(c[i].txs)
      BY <2>4, SeqIsSeq
    <2>6. i \in 2 .. Len(c)
      BY <1>3, <2>1, <2>3
    <2> QED
      BY <2>1, <2>2, <2>5, <2>6, SeqProps
  <1>5. ASSUME NEW i \in Including(c, tx), NEW j \in Including(c, tx), i < j
        PROVE  FALSE
    BY <1>4, <1>5, SpendInOneBlock
  <1>6. \A i, j \in Including(c, tx) : i = j
    BY <1>3, <1>4, <1>5
  <1>7. Cardinality(Including(c, tx)) <= 1
    BY <1>6, AtMostOne
  <1> QED
    BY <1>1, <1>7

\* A transfer or a lock that was submitted once is at most once in the chain of
\* a node that never started with a state that was not that of its blocks,
\* however often its posts arrive, before its block or after, whatever else the
\* clients submit and whatever crashes.
THEOREM SpendIncludedOnce == Spec => []SpendsOnce
  BY Invariance, InvSpendsOnce, PTL

\* So nothing is included twice there while clients submit transfers and locks
\* only.
THEOREM SpendsIncludedOnce == OnlySpends => (Spec => []IncludedOnce)
  <1> SUFFICES ASSUME OnlySpends PROVE Spec => []IncludedOnce
    OBVIOUS
  <1>1. SpendsOnce => IncludedOnce
    BY DEF SpendsOnce, IncludedOnce, Including, OnlySpends, IsSpend
  <1> QED
    BY <1>1, SpendIncludedOnce, PTL
=============================================================================

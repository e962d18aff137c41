------------------------------- MODULE Network -------------------------------
(***************************************************************************)
(* The validators of a network and the HTTP posts between them: how a node *)
(* starts and joins, how blocks and transactions are flooded, how the      *)
(* round-robin of proposers moves on, and what a node comes back with      *)
(* after a crash.  Posts are delivered in any order, late or never.        *)
(*                                                                         *)
(* A node commits blocks at the grain of AtomicChain, which Node shows its *)
(* goroutines to implement.  Saving a block and its state, and admitting a *)
(* transaction, are not atomic: a task of the production loop or of a      *)
(* handler, and any number of them are under way at once.                  *)
(***************************************************************************)
EXTENDS Mempool, Store

CONSTANTS
    Bootstrap,   \* for each validator, the peers its --peers flag names
    Txs,         \* transactions that clients submit
    Clock,       \* what time.Now may return when a node makes its genesis block
    MaxLost,     \* bound: posts that are lost
    MaxCrashes   \* bound: crashes

Nodes == Range(Validators)

ASSUME NetworkAssumption ==
    /\ Bootstrap \in [Nodes -> SUBSET Nodes]
    /\ Txs \subseteq Tx
    /\ Clock # {}
    /\ {MaxLost, MaxCrashes} \subseteq Nat

VARIABLES
    chain,      \* per node: bc.Blocks, <<>> while it is not running
    world,      \* per node: bc.State
    saving,     \* per node: blocks committed and not yet saved and broadcast
    store,      \* per node: its Badger store
    pool,       \* per node: its mempool
    adding,     \* per node: transactions validated and not yet in the mempool
    peers,      \* per node: its PeerList
    posts,      \* HTTP posts under way
    issued,     \* transactions that a client has submitted
    lost,       \* number of lost posts so far
    crashes,    \* number of crashes so far
    reordered,  \* history: nodes that saved a block after a later one
    stale       \* history: nodes that started with a state behind or ahead of
                \* their blocks

mem == <<chain, world, saving>>
txVars == <<pool, adding, issued>>
netVars == <<peers, posts, lost>>
history == <<crashes, reordered, stale>>
vars == <<mem, store, txVars, netVars, history>>

Up(n) == chain[n] # <<>>

Included(c) == UNION {Range(b.txs) : b \in Range(c)}

\* One post of a message to each of the given nodes.
PostAll(type, from, dest, body) ==
    {[type |-> type, from |-> from, to |-> p, body |-> body] : p \in dest}

PostsTo(type, n) == {m \in posts : m.type = type /\ m.to = n}

-----------------------------------------------------------------------------
(* Start, crash and restart *)

Init ==
    /\ chain = [n \in Nodes |-> <<>>]
    /\ world = [n \in Nodes |-> EmptyState]
    /\ saving = [n \in Nodes |-> {}]
    /\ store = [n \in Nodes |-> EmptyDisk]
    /\ pool = [n \in Nodes |-> {}]
    /\ adding = [n \in Nodes |-> {}]
    /\ peers = [n \in Nodes |-> {}]
    /\ posts = {} /\ issued = {}
    /\ lost = 0 /\ crashes = 0
    /\ reordered = {} /\ stale = {}

\* main: register the peers of the flag and announce this node to each.  The
\* reply, the peer list of the other node, is not read.
Join(n) ==
    /\ peers' = [peers EXCEPT ![n] = Bootstrap[n]]
    /\ posts' = posts \cup PostAll("join", n, Bootstrap[n], [id |-> n])

\* On an empty store a node makes its own genesis block, saves it and its
\* state, and only then serves anybody.
FirstStart(n) ==
    /\ ~Up(n) /\ store[n].height < 0
    /\ \E t \in Clock :
        LET g == GenesisBlock(t) IN
        /\ chain' = [chain EXCEPT ![n] = <<g>>]
        /\ world' = [world EXCEPT ![n] = NewState(Allocations)]
        /\ store' = [store EXCEPT ![n] = StoreState(StoreBlock(@, g), NewState(Allocations))]
    /\ Join(n)
    /\ UNCHANGED <<saving, txVars, lost, history>>

\* The process dies between the two saves.
FirstStartDies(n) ==
    /\ ~Up(n) /\ store[n].height < 0
    /\ crashes < MaxCrashes
    /\ crashes' = crashes + 1
    /\ \E t \in Clock :
        store' = [store EXCEPT ![n] = StoreBlock(@, GenesisBlock(t))]
    /\ UNCHANGED <<mem, txVars, netVars, reordered, stale>>

\* A node that has a store starts with what was last written to it.
Restart(n) ==
    /\ ~Up(n) /\ store[n].height >= 0
    /\ CanLoad(store[n])
    /\ chain' = [chain EXCEPT ![n] = LoadAllBlocks(store[n])]
    /\ world' = [world EXCEPT ![n] = LoadState(store[n])]
    /\ stale' = IF world'[n] = Replay(chain'[n]) THEN stale ELSE stale \cup {n}
    /\ Join(n)
    /\ UNCHANGED <<saving, store, txVars, lost, crashes, reordered>>

\* The process dies with what it has in memory, between any two steps of its
\* tasks.  Its posts under way, and those that reach it while it is down, may
\* stay undelivered for ever.
Crash(n) ==
    /\ Up(n) /\ crashes < MaxCrashes
    /\ crashes' = crashes + 1
    /\ chain' = [chain EXCEPT ![n] = <<>>]
    /\ world' = [world EXCEPT ![n] = EmptyState]
    /\ saving' = [saving EXCEPT ![n] = {}]
    /\ pool' = [pool EXCEPT ![n] = {}]
    /\ adding' = [adding EXCEPT ![n] = {}]
    /\ peers' = [peers EXCEPT ![n] = {}]
    /\ UNCHANGED <<store, issued, posts, lost, reordered, stale>>

\* gossip is best-effort: a post that fails is logged and not repeated.
Lose(m) ==
    /\ lost < MaxLost
    /\ lost' = lost + 1
    /\ posts' = posts \ {m}
    /\ UNCHANGED <<mem, store, txVars, peers, history>>

-----------------------------------------------------------------------------
(* Blocks *)

\* Faulty variant: the block need not be the next one.
AcceptableAnywhere(b, n) == ExpectedProposer(b) /\ ValidRun(b.txs, world[n])

\* AcceptBlock: the next block, by the validator whose turn it is, with
\* transactions that are valid one after the other on the node's state.
Acceptable(b, n) ==
    /\ ExpectedProposer(b)
    /\ ValidateBlock(b, Last(chain[n]))
    /\ ValidRun(b.txs, world[n])

Task(b, by) == [block |-> b, by |-> by, pc |-> "saveBlock", snap |-> EmptyState]

\* AddBlock and RemoveBatch; the goroutine goes on to save the block.
Commit(n, b, by) ==
    /\ chain' = [chain EXCEPT ![n] = Append(@, b)]
    /\ world' = [world EXCEPT ![n] = Run(b.txs, @)]
    /\ pool' = [pool EXCEPT ![n] = RemoveBatch(@, b.txs)]
    /\ saving' = [saving EXCEPT ![n] = @ \cup {Task(b, by)}]

\* handleReceiveBlock: any other block is ignored, and nobody asks for the
\* blocks before it.
ReceiveBlock(n) ==
    /\ Up(n)
    /\ \E m \in PostsTo("block", n) :
        /\ posts' = posts \ {m}
        /\ IF Acceptable(m.body, n) THEN Commit(n, m.body, "handler")
           ELSE UNCHANGED <<mem, pool>>
    /\ UNCHANGED <<store, adding, issued, peers, lost, history>>

\* A tick finds the production loop waiting, and it is this node's turn.
AtTurn(n) ==
    /\ Up(n) /\ Len(chain[n]) <= MaxHeight
    /\ ProposerForHeight(Len(chain[n])) = n
    /\ \A k \in saving[n] : k.by # "loop"

\* The blocks that RunProductionLoop may propose then.  A batch that is not
\* valid in its order changes nothing, and the next tick tries again.  crashes
\* is the timestamp: two proposals for one height differ in it.
Proposals(n) ==
    LET block(txs) == NewBlock(Last(chain[n]), txs, n, crashes) IN
    IF AtTurn(n)
    THEN {b \in {block(txs) : txs \in Batches(pool[n])} : Acceptable(b, n)}
    ELSE {}

\* Faulty variant: the block is broadcast before it is saved.
ProposeBroadcasts(n) ==
    /\ \E b \in Proposals(n) :
        Commit(n, b, "loop") /\ posts' = posts \cup PostAll("block", n, peers[n], b)
    /\ UNCHANGED <<store, adding, issued, peers, lost, history>>

Propose(n) ==
    /\ \E b \in Proposals(n) : Commit(n, b, "loop")
    /\ UNCHANGED <<store, adding, issued, netVars, history>>

\* Task k of node n is done with its step and at pc.
Proceed(n, k, pc, snap) ==
    saving' = [saving EXCEPT ![n] =
        (@ \ {k}) \cup {[k EXCEPT !.pc = pc, !.snap = snap]}]

\* Tasks that commit blocks one after the other may save them in any order.
SaveBlock(n) ==
    /\ \E k \in saving[n] :
        /\ k.pc = "saveBlock"
        /\ store' = [store EXCEPT ![n] = StoreBlock(@, k.block)]
        /\ reordered' = IF k.block.index < store[n].height THEN reordered \cup {n}
                        ELSE reordered
        /\ Proceed(n, k, "saveState", EmptyState)
    /\ UNCHANGED <<chain, world, txVars, netVars, crashes, stale>>

\* SaveState reads the live maps ...
ReadState(n) ==
    /\ \E k \in saving[n] : k.pc = "saveState" /\ Proceed(n, k, "flush", world[n])
    /\ UNCHANGED <<chain, world, store, txVars, netVars, history>>

\* Faulty variant: only a block of this node is broadcast.
SaveStateOwn(n) ==
    /\ \E k \in saving[n] :
        /\ k.pc = "flush"
        /\ store' = [store EXCEPT ![n] = StoreState(@, k.snap)]
        /\ saving' = [saving EXCEPT ![n] = @ \ {k}]
        /\ posts' = posts \cup
            PostAll("block", n, IF k.block.validator = n THEN peers[n] ELSE {}, k.block)
    /\ UNCHANGED <<chain, world, txVars, peers, lost, history>>

\* ... and writes what it read; then the block is broadcast.
SaveState(n) ==
    /\ \E k \in saving[n] :
        /\ k.pc = "flush"
        /\ store' = [store EXCEPT ![n] = StoreState(@, k.snap)]
        /\ saving' = [saving EXCEPT ![n] = @ \ {k}]
        /\ posts' = posts \cup PostAll("block", n, peers[n], k.block)
    /\ UNCHANGED <<chain, world, txVars, peers, lost, history>>

-----------------------------------------------------------------------------
(* Transactions and peers *)

\* submitTx of the API, once per transaction: ValidateTransaction ...
SubmitTx(n) ==
    /\ Up(n)
    /\ \E tx \in Txs \ issued :
        /\ ValidateTransaction(tx, world[n])
        /\ adding' = [adding EXCEPT ![n] = @ \cup {[tx |-> tx, from |-> n]}]
        /\ issued' = issued \cup {tx}
    /\ UNCHANGED <<mem, store, pool, netVars, history>>

\* The transactions that handleReceiveTx admits.
New(n, tx) == ~Has(pool[n], tx.id) /\ ValidateTransaction(tx, world[n])

\* handleReceiveTx up to there.
ReceiveTx(n) ==
    /\ Up(n)
    /\ \E m \in PostsTo("tx", n) :
        /\ posts' = posts \ {m}
        /\ adding' = [adding EXCEPT ![n] =
            IF New(n, m.body) THEN @ \cup {[tx |-> m.body, from |-> m.from]} ELSE @]
    /\ UNCHANGED <<mem, store, pool, issued, peers, lost, history>>

\* Faulty variant: a gossiped transaction is not passed on.
AddToPoolQuietly(n) ==
    /\ \E a \in adding[n] :
        /\ adding' = [adding EXCEPT ![n] = @ \ {a}]
        /\ pool' = [pool EXCEPT ![n] = Add(@, a.tx)]
        /\ posts' = posts \cup
            PostAll("tx", n, IF a.from = n THEN peers[n] ELSE {}, a.tx)
    /\ UNCHANGED <<mem, store, issued, peers, lost, history>>

\* ... then Mempool.Add, whatever was committed meanwhile, and the broadcast.
AddToPool(n) ==
    /\ \E a \in adding[n] :
        /\ adding' = [adding EXCEPT ![n] = @ \ {a}]
        /\ pool' = [pool EXCEPT ![n] = Add(@, a.tx)]
        /\ posts' = posts \cup PostAll("tx", n, peers[n], a.tx)
    /\ UNCHANGED <<mem, store, issued, peers, lost, history>>

\* handleJoin.
ReceiveJoin(n) ==
    /\ Up(n)
    /\ \E m \in PostsTo("join", n) :
        /\ posts' = posts \ {m}
        /\ peers' = [peers EXCEPT ![n] = @ \cup {m.body.id}]
    /\ UNCHANGED <<mem, store, txVars, lost, history>>

-----------------------------------------------------------------------------

Start(n) == FirstStart(n) \/ Restart(n)

Receive(n) == ReceiveBlock(n) \/ ReceiveTx(n) \/ ReceiveJoin(n)

Save(n) == SaveBlock(n) \/ ReadState(n) \/ SaveState(n)

Next ==
    \/ \E n \in Nodes :
        \/ Start(n) \/ FirstStartDies(n) \/ Crash(n)
        \/ Receive(n)
        \/ Propose(n) \/ Save(n)
        \/ SubmitTx(n) \/ AddToPool(n)
    \/ \E m \in posts : Lose(m)

Spec == Init /\ [][Next]_vars

\* Operators start their nodes, the production loop ticks on, goroutines that
\* can run do, and every post under way to a node that runs is served.
\* Clients need not submit anything.
Fairness ==
    \A n \in Nodes :
        /\ WF_vars(Start(n))
        /\ WF_vars(Receive(n))
        /\ WF_vars(Propose(n)) /\ WF_vars(Save(n))
        /\ WF_vars(AddToPool(n))

FairSpec == Spec /\ Fairness

-----------------------------------------------------------------------------
(* Invariants *)

Post ==
    [type : {"block", "tx", "join"}, from : Nodes, to : Nodes]

\* Chains are linked and no longer than the bound, a task saves a block of its
\* node's chain, a store's height names a block, and only nodes talk to each
\* other.
TypeOK ==
    /\ \A n \in Nodes :
        /\ ValidateChain(chain[n]) /\ Len(chain[n]) <= MaxHeight + 1
        /\ world[n] \in State /\ store[n].state \in State
        /\ \A k \in saving[n] :
            /\ k.block.index < Len(chain[n]) /\ chain[n][k.block.index + 1] = k.block
            /\ k.pc \in {"saveBlock", "saveState", "flush"} /\ k.by \in {"loop", "handler"}
        /\ store[n].height >= 0 => store[n].blocks[store[n].height] # NoBlock
        /\ pool[n] \subseteq Txs
        /\ peers[n] \subseteq Nodes
    /\ \A m \in posts : [type |-> m.type, from |-> m.from, to |-> m.to] \in Post
    /\ issued \subseteq Txs
    /\ lost \in 0 .. MaxLost /\ crashes \in 0 .. MaxCrashes
    /\ reordered \subseteq Nodes /\ stale \subseteq Nodes

\* The nodes do not fork: of the chains of any two running nodes one is the
\* beginning of the other, and every block under way is a block of theirs or
\* extends them.  It takes both a crash and blocks saved out of order to
\* break that.
Agreement ==
    crashes = 0 \/ reordered = {} =>
        /\ \A c, d \in Range(chain) : IsPrefix(c, d) \/ IsPrefix(d, c)
        /\ \A m \in posts, c \in Range(chain) :
            m.type = "block" /\ m.body.index < Len(c) => c[m.body.index + 1] = m.body

\* A transaction that a client submitted once is in a node's chain at most
\* once, however often its posts arrive, before its block or after, unless the
\* node once started with a world state that was not the one of its blocks.
IncludedOnce ==
    \A n \in Nodes \ stale, tx \in Txs :
        Cardinality({i \in DOMAIN chain[n] : tx \in Range(chain[n][i].txs)}) <= 1

-----------------------------------------------------------------------------
(* Refinement *)

\* The longest chain that any node has committed.
Longest == CHOOSE c \in Range(chain) : \A n \in Nodes : Len(chain[n]) <= Len(c)

Chain == INSTANCE AtomicChain WITH chain <- Longest, world <- Replay(Longest)

\* While no node crashes the nodes together keep one chain: it grows a block
\* at a time, whatever is lost or late, and a block is never replaced.
KeepsOneChain == Chain!Spec

-----------------------------------------------------------------------------
(* Liveness *)

\* Every node is up and every announcement has arrived before the first
\* block or transaction.
Formed ==
    (issued # {} \/ \E n \in Nodes : Len(chain[n]) > 1) =>
        /\ \A n \in Nodes : Up(n)
        /\ \A m \in posts : m.type # "join"

\* A block post reaches a node that has its predecessor: within a block
\* interval the flood is over.
Timely == \A m \in posts : m.type = "block" => m.body.index <= Len(chain[m.to])

\* Whatever Pending returns to a node at its turn makes a valid block: its
\* pool has no transactions that exclude each other, and none that was
\* admitted before and added after the block that made it invalid.
PoolsFit ==
    \A n \in Nodes : AtTurn(n) =>
        \A txs \in Batches(pool[n]) : ValidRun(txs, world[n])

Reliable == lost = 0 /\ crashes = 0 /\ Formed /\ Timely

\* When nothing is lost, late or down and the pools fit, the nodes' chains grow
\* without end: the turn passes from proposer to proposer through nodes that do
\* not name each other in their --peers flags.
NetworkAdvances ==
    [](Reliable /\ PoolsFit) => \A n \in Nodes : <>(Len(chain[n]) > MaxHeight)

\* A transaction that one node has accepted reaches the mempool or the chain
\* of every other.
TxReaches ==
    []Reliable => \A n \in Nodes, tx \in Txs :
        tx \in issued ~> tx \in pool[n] \cup Included(chain[n])
=============================================================================

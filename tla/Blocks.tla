------------------------------- MODULE Blocks -------------------------------
(***************************************************************************)
(* Blocks, what makes one the next of a chain, and the world state a chain *)
(* stands for.  No variables: AtomicChain, Mempool, Store, Node and        *)
(* Network use it.                                                         *)
(***************************************************************************)
EXTENDS Ledger, SequencesExt

CONSTANTS
    Allocations,    \* initial_allocations of config/genesis.json
    Validators,     \* validator ids, in the order of config/genesis.json
    MaxTxsPerBlock  \* Engine.MaxTxsPerBlock

ASSUME BlocksAssumption ==
    /\ Allocations \in [Account -> 0 .. MaxInt64]
    /\ Validators \in Seq(Range(Validators)) /\ Validators # <<>>
    /\ MaxTxsPerBlock \in Nat

\* A block is its own hash: prev holds the block the PrevHash names, in a
\* one-element sequence, and is empty for genesis and for a hash that this
\* network does not know.
Block(i, prev, txs, v, time) ==
    [index |-> i, prev |-> prev, txs |-> txs, validator |-> v, time |-> time]

\* GenesisBlock reads the clock.
GenesisBlock(time) == Block(0, <<>>, <<>>, "genesis", time)

\* NewBlock on top of a block.
NewBlock(latest, txs, v, time) == Block(latest.index + 1, <<latest>>, txs, v, time)

ProposerForHeight(h) == Validators[(h % Len(Validators)) + 1]

\* AcceptBlock: the proposer is the one whose turn it is.
ExpectedProposer(b) == b.validator = ProposerForHeight(b.index)

\* Faulty variant: the PrevHash is not compared.
ValidateBlockAnyParent(b, prevBlock) == b.index = prevBlock.index + 1

ValidateBlock(b, prevBlock) ==
    /\ b.index = prevBlock.index + 1
    /\ b.prev = <<prevBlock>>

\* ValidateChain and the loop of LoadAllBlocks: consecutive and linked.
ValidateChain(chain) ==
    \A i \in 2 .. Len(chain) : chain[i].prev = <<chain[i - 1]>>

-----------------------------------------------------------------------------

\* The state after all of txs.
Run(txs, s) == FoldLeft(LAMBDA acc, tx : ApplyTransaction(tx, acc), s, txs)

\* Each transaction is valid after the ones before it.
ValidRun(txs, s) ==
    \A i \in 1 .. Len(txs) :
        ValidateTransaction(txs[i], Run(SubSeq(txs, 1, i - 1), s))

EmptyState == NewState([a \in Account |-> 0])

\* The world state of a chain; a node without blocks has none.
Replay(chain) ==
    IF chain = <<>> THEN EmptyState
    ELSE FoldLeft(LAMBDA acc, b : Run(b.txs, acc), NewState(Allocations), chain)
=============================================================================

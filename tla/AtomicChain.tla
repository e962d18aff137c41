----------------------------- MODULE AtomicChain -----------------------------
(***************************************************************************)
(* What AddBlock promises, whoever calls it and however often: one chain   *)
(* that starts with a genesis block and grows by a whole block at a time,  *)
(* each by the validator whose turn it is and valid on the world state its *)
(* predecessors left.  Abstract: it knows no goroutines, locks, rollbacks, *)
(* stores or messages.                                                     *)
(***************************************************************************)
EXTENDS Blocks

VARIABLES chain, world

vars == <<chain, world>>

Init == chain = <<>> /\ world = EmptyState

Begin ==
    /\ chain = <<>>
    /\ Len(chain') = 1
    /\ chain'[1] = GenesisBlock(chain'[1].time)
    /\ world' = NewState(Allocations)

Extend ==
    LET b == Last(chain') IN
    /\ chain # <<>>
    /\ Len(chain') = Len(chain) + 1 /\ IsPrefix(chain, chain')
    /\ ValidateBlock(b, Last(chain))
    /\ b.validator = Validators[(b.index % Len(Validators)) + 1]
    /\ Len(b.txs) <= MaxTxsPerBlock
    /\ ValidRun(b.txs, world)
    /\ world' = Run(b.txs, world)

Next == Begin \/ Extend

Spec == Init /\ [][Next]_vars
=============================================================================

-------------------------------- MODULE Store --------------------------------
(***************************************************************************)
(* The Badger store of a node: blocks by index, the height and the world   *)
(* state, written by SaveBlock and SaveState, each in a transaction of its *)
(* own, and read when the node starts again.  A store is a record; no      *)
(* variables: Node and Network keep one for each node.                     *)
(***************************************************************************)
EXTENDS Blocks

CONSTANT MaxHeight  \* bound: highest block any validator proposes

ASSUME StoreAssumption == MaxHeight \in Nat

NoBlock == [index |-> -1]

EmptyDisk == [blocks |-> [i \in 0 .. MaxHeight |-> NoBlock], height |-> -1,
              state |-> EmptyState]

\* Faulty variant: only the height is written.
StoreBlockHeightOnly(d, b) == [d EXCEPT !.height = b.index]

\* SaveBlock sets the height to the index of the block it was given.
StoreBlock(d, b) == [d EXCEPT !.blocks[b.index] = b, !.height = b.index]

\* SaveState writes the keys its maps hold and deletes none.  An account
\* that was never credited nor spent has no balance, one that never spent no
\* nonce, and no lock no key either.
StoreState(d, s) ==
    LET hasBalance(a) == s.balances[a] # 0 \/ s.nonces[a] # 0 IN
    [d EXCEPT !.state =
        [balances |-> [a \in Account |-> IF hasBalance(a) THEN s.balances[a]
                                         ELSE d.state.balances[a]],
         locked |-> [c \in ContractId |->
                        IF s.locked[c] # NoLock THEN s.locked[c]
                        ELSE d.state.locked[c]],
         nonces |-> [a \in Account |-> IF s.nonces[a] # 0 THEN s.nonces[a]
                                       ELSE d.state.nonces[a]]]]

\* LoadState skips keys that are no longer than their prefix, and with
\* them the balance of the empty address.
LoadState(d) == [d.state EXCEPT !.balances[NoAddr] = 0]

LoadAllBlocks(d) == [i \in 1 .. d.height + 1 |-> d.blocks[i - 1]]

\* LoadAllBlocks fails on a missing block, main on a chain that is not linked.
CanLoad(d) ==
    /\ \A i \in 0 .. d.height : d.blocks[i] # NoBlock
    /\ ValidateChain(LoadAllBlocks(d))
=============================================================================

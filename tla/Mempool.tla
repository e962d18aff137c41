------------------------------- MODULE Mempool -------------------------------
(***************************************************************************)
(* The mempool of a node: transactions keyed by the id their sender wrote. *)
(* A pool is the set of the transactions it holds, of which no two have    *)
(* one id.  No variables: Node and Network keep a pool for each node.      *)
(***************************************************************************)
EXTENDS Blocks

Has(pool, id) == \E tx \in pool : tx.id = id

\* A transaction whose id is in use is not added.
Add(pool, tx) == IF Has(pool, tx.id) THEN pool ELSE pool \cup {tx}

\* Faulty variant: the whole pool is dropped with the included transactions.
RemoveAll(pool, txs) == {}

\* What has the id of one of txs goes, whether it is the same transaction or
\* not.
RemoveBatch(pool, txs) == {tx \in pool : ~Has(Range(txs), tx.id)}

\* What Pending may return: up to MaxTxsPerBlock transactions, in map order.
Batches(pool) ==
    {txs \in SeqOf(pool, MaxTxsPerBlock) :
        /\ IsInjective(txs)
        /\ Len(txs) = MaxTxsPerBlock \/ Range(txs) = pool}
=============================================================================

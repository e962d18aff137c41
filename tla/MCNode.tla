------------------------------- MODULE MCNode -------------------------------
(***************************************************************************)
(* Instances of Node for TLC.                                              *)
(***************************************************************************)
EXTENDS Node

CONSTANTS investor, founder, c1, me, peer, other, h1, h2, i1, i2, i3

MCAllocations == [a \in Account |-> IF a = investor THEN 1 ELSE 0]

\* The investor funds the escrow of c1; the escrow authority, here the
\* founder's key, releases it in one milestone or refunds it.
lock == [id |-> i1, type |-> "LOCK", from |-> investor, to |-> founder,
         amount |-> 1, contract |-> c1, nonce |-> 0, signer |-> investor]
release == [id |-> i2, type |-> "RELEASE_MILESTONE", from |-> founder,
            to |-> founder, amount |-> 1, contract |-> c1, nonce |-> 0,
            signer |-> founder]
refund == [id |-> i3, type |-> "REFUND", from |-> founder, to |-> investor,
           amount |-> 1, contract |-> c1, nonce |-> 0, signer |-> founder]

EscrowTxs == {lock, release, refund}

\* The refund is sent under the id of the release.
SharedIdTxs == {lock, release, [refund EXCEPT !.id = release.id]}

\* One transaction.
LockTxs == {lock}

\* Height h belongs to the validator at h % 3: the first block is the
\* peer's, the second is ours.
PeerFirst == <<other, peer, me>>
\* This node produces every odd block.
MeFirst == <<peer, me>>

HandlerSymmetry == Permutations(Handlers)
=============================================================================

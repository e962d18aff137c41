------------------------------ MODULE MCNetwork ------------------------------
(***************************************************************************)
(* Instances of Network for TLC: three validators, of which the second and *)
(* the third only name the first in their --peers flags.                   *)
(***************************************************************************)
EXTENDS Network

CONSTANTS investor, founder, v1, v2, v3, i1

MCValidators == <<v1, v2, v3>>
Star == (v1 :> {}) @@ (v2 :> {v1}) @@ (v3 :> {v1})

\* Enough for two transfers.
MCAllocations == [a \in Account |-> IF a = investor THEN 2 ELSE 0]

transfer == [id |-> i1, type |-> "TRANSFER", from |-> investor, to |-> founder,
             amount |-> 1, contract |-> NoContract, nonce |-> 0,
             signer |-> investor]
mint == [id |-> i1, type |-> "MINT", from |-> NoAddr, to |-> founder, amount |-> 1,
         contract |-> NoContract, nonce |-> 0, signer |-> NoAddr]

TransferTxs == {transfer}
MintTxs == {mint}
=============================================================================

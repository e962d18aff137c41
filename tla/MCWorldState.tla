---------------------------- MODULE MCWorldState ----------------------------
(***************************************************************************)
(* Instances of WorldState for TLC.                                        *)
(***************************************************************************)
EXTENDS WorldState

CONSTANTS investor, founder

\* The investor starts with two tokens, as the treasury does in
\* config/genesis.json.
MCAllocations == [a \in Account |-> IF a = investor THEN 2 ELSE 0]

\* Negative and zero amounts arrive in JSON like any other.
MCAmounts == {-1, 0, 1, 2}
=============================================================================

---------------------------- MODULE MCEscrowApi ----------------------------
(***************************************************************************)
(* Instances of EscrowApi for TLC.                                         *)
(***************************************************************************)
EXTENDS EscrowApi

CONSTANTS investor, founder, m1, m2, c1

\* Two milestones of one token each.
TwoMilestones ==
    {[investor |-> investor, founder |-> founder,
      milestones |-> <<[id |-> m1, amount |-> 1], [id |-> m2, amount |-> 1]>>]}

\* The code asks only for a positive total: here the second milestone is paid
\* nothing, or takes one token back.
OddMilestones ==
    {[investor |-> investor, founder |-> founder,
      milestones |-> <<[id |-> m1, amount |-> 2], [id |-> m2, amount |-> n]>>] :
        n \in {0, -1}}

Deals == TwoMilestones \cup OddMilestones

\* One milestone.
OneMilestone ==
    {[investor |-> investor, founder |-> founder,
      milestones |-> <<[id |-> m1, amount |-> 1]>>]}

\* A client that advances a contract only up to its signature.
SigningTargets == {"PENDING_SIGNATURE", "SIGNED"}

\* A client that names any state, and one that does not exist.
AnyTarget == ContractState \cup {"UNKNOWN"}

Signed(type, from, to) ==
    [type |-> type, from |-> from, to |-> to, amount |-> 1, contract |-> c1,
     nonce |-> 0, signer |-> from]

\* Transactions that the parties sign themselves.  Minting, which never ends, is
\* left out.
ClientFreeze == {Signed("FREEZE_DISPUTE", investor, investor)}
ClientRelease == {Signed("RELEASE_MILESTONE", founder, founder)}
PartyTxs == ClientFreeze \cup ClientRelease

HandlerSymmetry == Permutations(Handlers)
=============================================================================

---------------------------- MODULE EscrowPromise ----------------------------
(***************************************************************************)
(* What the escrow of a contract promises its two parties, without         *)
(* accounts, signatures or nonces: money enters once, leaves in parts or   *)
(* as a whole, cannot leave a frozen escrow except by a ruling or a full   *)
(* return, and an escrow that is closed stays closed and empty.            *)
(* The world state of the chain implements it (see WorldState).            *)
(***************************************************************************)
EXTENDS Integers

CONSTANTS
    Contracts,  \* contract ids
    Deposits    \* amounts a contract can be funded with, all positive

VARIABLES
    phase,      \* per contract: "NONE", "OPEN", "FROZEN" or "CLOSED"
    held,       \* per contract: money in escrow
    paid        \* per contract: money that has left the escrow

promiseVars == <<phase, held, paid>>

Init ==
    /\ phase = [c \in Contracts |-> "NONE"]
    /\ held = [c \in Contracts |-> 0]
    /\ paid = [c \in Contracts |-> 0]

Fund(c) ==
    /\ phase[c] = "NONE"
    /\ \E n \in Deposits : held' = [held EXCEPT ![c] = n]
    /\ phase' = [phase EXCEPT ![c] = "OPEN"]
    /\ UNCHANGED paid

\* n leaves the escrow, which closes exactly when nothing is left.
Pay(c, n) ==
    /\ held' = [held EXCEPT ![c] = @ - n]
    /\ paid' = [paid EXCEPT ![c] = @ + n]
    /\ phase' = [phase EXCEPT ![c] = IF n = held[c] THEN "CLOSED" ELSE "OPEN"]

\* An approved milestone is paid out of an open escrow only.
Release(c) == phase[c] = "OPEN" /\ \E n \in 1 .. held[c] : Pay(c, n)

Freeze(c) ==
    /\ phase[c] = "OPEN"
    /\ phase' = [phase EXCEPT ![c] = "FROZEN"]
    /\ UNCHANGED <<held, paid>>

\* A ruling pays from a frozen escrow and thaws it.
Rule(c) == phase[c] = "FROZEN" /\ \E n \in 1 .. held[c] : Pay(c, n)

ReturnAll(c) == phase[c] \in {"OPEN", "FROZEN"} /\ Pay(c, held[c])

Next ==
    \E c \in Contracts :
        Fund(c) \/ Release(c) \/ Freeze(c) \/ Rule(c) \/ ReturnAll(c)

Spec == Init /\ [][Next]_promiseVars
=============================================================================
